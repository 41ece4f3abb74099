--------------------------- MODULE Routing_proofs ---------------------------
(***************************************************************************)
(* Proofs about the routing of a call: RouteLimits and LineChoice.         *)
(*                                                                         *)
(* RouteLimits: the limits are exact for every number of calls, lines and  *)
(* limits, and however often the lock is lost.  LimitsExact is not         *)
(* inductive: it says nothing of a request between its decision and its    *)
(* save.  Promise adds that: whoever still owns the lock when it saves has *)
(* left room at every limit of the line it has picked.                     *)
(*                                                                         *)
(* LineChoice: which number a call may be sent to, for every campaign and  *)
(* every number of calls.  Its properties compare a call's next number to  *)
(* the ones before, and the routers know those from rows and a journal:    *)
(* Remembers says that what they know is what the caller was sent to.      *)
(***************************************************************************)
EXTENDS RouteLimits, LineChoice, FiniteSetTheorems, NaturalsInduction, WellFoundedInduction, TLAPS

(* The live calls of a limit that were saved under the lock. *)
Exact(k) == Sent(k) \ loose

Owns(r) == owner = r /\ r \in key

(* A call that was sent has a line, one that is about to be has picked it. *)
Chosen == \A r \in Request : /\ status[r] = "in_progress" => line[r] \in Line
                             /\ pc[r] = "save" => pick[r] \in Line

Promise == \A r \in Request : Owns(r) /\ pc[r] = "save" =>
               \A k \in Kept : pick[r] \in Covers[k] => Cardinality(Exact(k) \ {r}) < Cap[k]

(* HoldersBounded, with the key that nobody has set counted as taken. *)
HoldersInv == Cardinality(key) + (IF owner = Nobody THEN 1 ELSE 0) <= 1 + faults

Typed == TypeOK /\ Chosen
LimitsInv == Typed /\ LimitsExact /\ Promise

-----------------------------------------------------------------------------
(* Fewer calls take no more room.                                          *)
LEMMA Fewer == \A S, T \in SUBSET Request : S \subseteq T =>
    /\ IsFiniteSet(S) /\ Cardinality(S) \in Nat /\ Cardinality(T) \in Nat
    /\ Cardinality(S) <= Cardinality(T)
<1> SUFFICES ASSUME NEW S \in SUBSET Request, NEW T \in SUBSET Request, S \subseteq T
             PROVE  /\ IsFiniteSet(S) /\ Cardinality(S) \in Nat /\ Cardinality(T) \in Nat
                    /\ Cardinality(S) <= Cardinality(T)
    OBVIOUS
<1>1. IsFiniteSet(T)
    BY RequestAssumption, FS_Subset
<1>2. IsFiniteSet(S) /\ Cardinality(S) <= Cardinality(T)
    BY <1>1, FS_Subset
<1> QED BY <1>1, <1>2, FS_CardinalityType

(* Every limit is a number, and the requests it counts are requests. *)
LEMMA LimitTypes == \A k \in Kept : Cap[k] \in Nat /\ Covers[k] \subseteq Line /\ Exact(k) \subseteq Request
<1> QED BY LimitAssumption DEF Kept, Exact, Sent

(* Every step keeps the types.                                             *)
LEMMA TypeStep == Typed /\ [Next]_vars => Typed'
<1> SUFFICES ASSUME Typed, [Next]_vars PROVE Typed'
    OBVIOUS
<1> USE DEF Typed, TypeOK, Chosen
<1>1. ASSUME NEW r \in Request, Create(r) \/ AskNext(r) PROVE Typed'
  <2>1. CASE Create(r)
      BY <2>1 DEF Create
  <2>2. CASE AskNext(r)
      BY <2>2 DEF AskNext
  <2> QED BY <1>1, <2>1, <2>2
<1>2. ASSUME NEW r \in Request, Take(r) \/ GiveUp(r) PROVE Typed'
    BY <1>2 DEF Take, GiveUp
<1>3. ASSUME NEW r \in Request, Decide(r) PROVE Typed'
    BY <1>3 DEF Decide
<1>4. ASSUME NEW r \in Request, Refuse(r) \/ End(r) PROVE Typed'
    BY <1>4 DEF Refuse, End
<1>5. ASSUME NEW r \in Request, Save(r) PROVE Typed'
    BY <1>5 DEF Save
<1>6. ASSUME NEW r \in Request, Release(r) PROVE Typed'
    BY <1>6 DEF Release
<1>7. ASSUME Expire PROVE Typed'
    BY <1>7, FaultsAssumption DEF Expire
<1>8. ASSUME NEW r \in Request, Die(r) PROVE Typed'
    BY <1>8, FaultsAssumption DEF Die
<1>9. ASSUME UNCHANGED vars PROVE Typed'
    BY <1>9 DEF vars
<1> QED BY <1>1, <1>2, <1>3, <1>4, <1>5, <1>6, <1>7, <1>8, <1>9 DEF Next, Handler

(* A step that adds no call to a limit and lets nobody into the section    *)
(* between decision and save keeps the limits.                             *)
LEMMA NothingSent ==
    ASSUME LimitsInv,
           \A k \in Kept : Exact(k)' \subseteq Exact(k),
           \A r \in Request : Owns(r)' /\ pc'[r] = "save" => Owns(r) /\ pc[r] = "save" /\ pick'[r] = pick[r]
    PROVE  LimitsExact' /\ Promise'
<1>1. LimitsExact'
  <2> SUFFICES ASSUME NEW k \in Kept PROVE Cardinality(Exact(k)') <= Cap[k]
      BY DEF LimitsExact, Exact
  <2>1. Cardinality(Exact(k)) <= Cap[k]
      BY DEF LimitsInv, LimitsExact, Exact
  <2> QED BY <2>1, Fewer, LimitTypes
<1>2. Promise'
  <2> SUFFICES ASSUME NEW r \in Request, Owns(r)', pc'[r] = "save",
                      NEW k \in Kept, pick'[r] \in Covers[k]
               PROVE  Cardinality(Exact(k)' \ {r}) < Cap[k]
      BY DEF Promise
  <2>1. Cardinality(Exact(k) \ {r}) < Cap[k]
      BY DEF LimitsInv, Promise
  <2>2. Exact(k)' \ {r} \subseteq Exact(k) \ {r} /\ Exact(k) \ {r} \subseteq Request
      BY LimitTypes
  <2> QED BY <2>1, <2>2, Fewer, LimitTypes
<1> QED BY <1>1, <1>2

(* The initial states: no call, no lock. *)
LEMMA InitLimits == Init => LimitsInv /\ HoldersInv
<1> SUFFICES ASSUME Init PROVE LimitsInv /\ HoldersInv
    OBVIOUS
<1>1. Typed /\ Promise
    BY FaultsAssumption DEF Init, Typed, TypeOK, Chosen, Promise
<1>2. LimitsExact
  <2>1. \A k : Sent(k) \ loose = {}
      BY DEF Init, Sent
  <2> QED BY <2>1, FS_EmptySet, LimitTypes DEF LimitsExact
<1>3. HoldersInv
    BY FaultsAssumption, FS_EmptySet DEF Init, HoldersInv
<1> QED BY <1>1, <1>2, <1>3 DEF LimitsInv

(* Room, counted the way the code counts, leaves room for the exact calls. *)
LEMMA RoomIsEnough ==
    ASSUME NEW r \in Request, NEW k \in Kept, Room(k, r)
    PROVE  Cardinality(Exact(k) \ {r}) < Cap[k]
<1>1. Exact(k) \ {r} \subseteq Counted(k, r) /\ Counted(k, r) \subseteq Request
    BY DEF Exact, Counted, Sent
<1>2. Cardinality(Counted(k, r)) < Cap[k]
    BY DEF Room
<1> QED BY <1>1, <1>2, Fewer, LimitTypes

(* Every step keeps the limits exact.                                      *)
LEMMA StepLimits == LimitsInv /\ [Next]_vars => LimitsInv'
<1> SUFFICES ASSUME LimitsInv, [Next]_vars PROVE LimitsExact' /\ Promise'
    BY TypeStep DEF LimitsInv
<1> USE DEF Owns
<1>1. TypeOK /\ Chosen
    BY DEF LimitsInv, Typed
<1>2. ASSUME NEW r \in Request, Create(r) \/ AskNext(r) \/ GiveUp(r)
      PROVE  LimitsExact' /\ Promise'
  <2>1. \A k \in Kept : Exact(k)' \subseteq Exact(k)
      BY <1>1, <1>2 DEF Create, AskNext, GiveUp, Exact, Sent, TypeOK
  <2>2. \A q \in Request : Owns(q)' /\ pc'[q] = "save" => Owns(q) /\ pc[q] = "save" /\ pick'[q] = pick[q]
      BY <1>1, <1>2 DEF Create, AskNext, GiveUp, TypeOK
  <2> QED BY <2>1, <2>2, NothingSent
<1>3. ASSUME NEW r \in Request, Take(r)
      PROVE  LimitsExact' /\ Promise'
  <2>1. \A k \in Kept : Exact(k)' \subseteq Exact(k)
      BY <1>3 DEF Take, Exact, Sent
  <2>2. \A q \in Request : Owns(q)' /\ pc'[q] = "save" => Owns(q) /\ pc[q] = "save" /\ pick'[q] = pick[q]
      BY <1>1, <1>3 DEF Take, TypeOK
  <2> QED BY <2>1, <2>2, NothingSent
<1>4. ASSUME NEW r \in Request, Decide(r)
      PROVE  LimitsExact' /\ Promise'
  <2>1. PICK l \in Line : Takes(l, r) /\ pick' = [pick EXCEPT ![r] = l]
      BY <1>4 DEF Decide
  <2>2. Room(Campaign, r) /\ pc' = [pc EXCEPT ![r] = "save"] /\ UNCHANGED <<status, line, key, owner, loose>>
      BY <1>4 DEF Decide
  <2>3. \A k : Exact(k)' = Exact(k)
      BY <2>2 DEF Exact, Sent
  <2>4. LimitsExact'
      BY <2>3 DEF LimitsInv, LimitsExact, Exact
  <2>5. ASSUME NEW q \in Request, Owns(q)', pc'[q] = "save", NEW k \in Kept, pick'[q] \in Covers[k]
        PROVE  Cardinality(Exact(k)' \ {q}) < Cap[k]
    <3>1. CASE q = r
      <4>1. l \in Covers[k]
          BY <1>1, <2>1, <2>5, <3>1 DEF TypeOK
      <4>2. Room(k, r)
          BY <2>1, <2>2, <4>1 DEF Takes, Kept
      <4> QED BY <2>3, <3>1, <4>2, RoomIsEnough
    <3>2. CASE q # r
        BY <1>1, <2>1, <2>2, <2>3, <2>5, <3>2 DEF LimitsInv, Promise, TypeOK
    <3> QED BY <3>1, <3>2
  <2> QED BY <2>4, <2>5 DEF Promise
<1>5. ASSUME NEW r \in Request, Refuse(r) \/ End(r)
      PROVE  LimitsExact' /\ Promise'
  <2>1. \A k \in Kept : Exact(k)' \subseteq Exact(k)
      BY <1>1, <1>5 DEF Refuse, End, Exact, Sent, TypeOK
  <2>2. \A q \in Request : Owns(q)' /\ pc'[q] = "save" => Owns(q) /\ pc[q] = "save" /\ pick'[q] = pick[q]
      BY <1>1, <1>5 DEF Refuse, End, TypeOK
  <2> QED BY <2>1, <2>2, NothingSent
<1>6. ASSUME NEW r \in Request, Save(r)
      PROVE  LimitsExact' /\ Promise'
  <2>1. /\ pc[r] = "save" /\ pc' = [pc EXCEPT ![r] = "release"]
        /\ status' = [status EXCEPT ![r] = IF @ = "ended" THEN @ ELSE "in_progress"]
        /\ line' = [line EXCEPT ![r] = pick[r]] /\ pick' = [pick EXCEPT ![r] = NoLine]
        /\ loose' = IF status[r] = "ended" \/ Owns(r) THEN loose \ {r} ELSE loose \cup {r}
        /\ UNCHANGED <<key, owner>>
      BY <1>6 DEF Save
  <2>2. CASE Owns(r) /\ status[r] # "ended"
    <3>1. ASSUME NEW k \in Kept PROVE Cardinality(Exact(k)') <= Cap[k]
      <4>1. Exact(k)' \subseteq (Exact(k) \ {r}) \cup {r} /\ (Exact(k) \ {r}) \cup {r} \subseteq Request
          BY <1>1, <2>1, LimitTypes DEF Exact, Sent, TypeOK
      <4>2. IsFiniteSet(Exact(k) \ {r}) /\ Cardinality(Exact(k) \ {r}) \in Nat
          BY Fewer, LimitTypes
      <4>3. CASE pick[r] \in Covers[k]
        <5>1. Cardinality(Exact(k) \ {r}) < Cap[k]
            BY <2>1, <2>2, <4>3 DEF LimitsInv, Promise
        <5>2. Cardinality((Exact(k) \ {r}) \cup {r}) = Cardinality(Exact(k) \ {r}) + 1
            BY <4>2, FS_AddElement
        <5>3. Cardinality(Exact(k)') <= Cardinality((Exact(k) \ {r}) \cup {r}) /\ Cardinality(Exact(k)') \in Nat
            BY <4>1, Fewer
        <5> QED BY <4>2, <5>1, <5>2, <5>3, LimitTypes
      <4>4. CASE pick[r] \notin Covers[k]
        <5>1. Exact(k)' \subseteq Exact(k)
            BY <1>1, <2>1, <4>4 DEF Exact, Sent, TypeOK
        <5>2. Cardinality(Exact(k)) <= Cap[k]
            BY DEF LimitsInv, LimitsExact, Exact
        <5> QED BY <5>1, <5>2, Fewer, LimitTypes
      <4> QED BY <4>3, <4>4
    <3>2. LimitsExact'
        BY <3>1 DEF LimitsExact, Exact
    <3>3. Promise'
        BY <1>1, <2>1, <2>2 DEF Promise, TypeOK
    <3> QED BY <3>2, <3>3
  <2>3. CASE ~(Owns(r) /\ status[r] # "ended")
    <3>1. \A k \in Kept : Exact(k)' \subseteq Exact(k)
        BY <1>1, <2>1, <2>3 DEF Exact, Sent, TypeOK
    <3>2. \A q \in Request : Owns(q)' /\ pc'[q] = "save" => Owns(q) /\ pc[q] = "save" /\ pick'[q] = pick[q]
        BY <1>1, <2>1 DEF TypeOK
    <3> QED BY <3>1, <3>2, NothingSent
  <2> QED BY <2>2, <2>3
<1>7. ASSUME NEW r \in Request, Release(r) \/ Die(r)
      PROVE  LimitsExact' /\ Promise'
  <2>1. \A k \in Kept : Exact(k)' \subseteq Exact(k)
      BY <1>7 DEF Release, Die, Exact, Sent
  <2>2. \A q \in Request : Owns(q)' /\ pc'[q] = "save" => Owns(q) /\ pc[q] = "save" /\ pick'[q] = pick[q]
      BY <1>1, <1>7, RequestAssumption DEF Release, Die, TypeOK
  <2> QED BY <2>1, <2>2, NothingSent
<1>8. ASSUME Expire \/ UNCHANGED vars
      PROVE  LimitsExact' /\ Promise'
  <2>1. \A k \in Kept : Exact(k)' \subseteq Exact(k)
      BY <1>8 DEF Expire, vars, Exact, Sent
  <2>2. \A q \in Request : Owns(q)' /\ pc'[q] = "save" => Owns(q) /\ pc[q] = "save" /\ pick'[q] = pick[q]
      BY <1>8, RequestAssumption DEF Expire, vars
  <2> QED BY <2>1, <2>2, NothingSent
<1> QED BY <1>2, <1>3, <1>4, <1>5, <1>6, <1>7, <1>8 DEF Next, Handler

(* Every step keeps the bound on the requests that hold the lock.          *)
LEMMA StepHolders == TypeOK /\ HoldersInv /\ [Next]_vars => HoldersInv'
<1> SUFFICES ASSUME TypeOK, HoldersInv, [Next]_vars PROVE HoldersInv'
    OBVIOUS
<1>1. /\ IsFiniteSet(key) /\ Cardinality(key) \in Nat /\ faults \in Nat
      /\ \A r : IsFiniteSet(key \ {r})
    BY RequestAssumption, FaultsAssumption, FS_Subset, FS_CardinalityType, FS_RemoveElement DEF TypeOK
<1>2. ASSUME NEW r \in Request, Take(r) PROVE HoldersInv'
  <2>1. Cardinality(key') \in Nat /\ Cardinality(key') <= Cardinality(key) + 1
    <3>1. key' = key \cup {r}
        BY <1>2 DEF Take
    <3>2. Cardinality(key \cup {r}) = IF r \in key THEN Cardinality(key) ELSE Cardinality(key) + 1
        BY <1>1, FS_AddElement
    <3> QED BY <1>1, <3>1, <3>2
  <2>2. owner = Nobody /\ owner' # Nobody /\ faults' = faults
      BY <1>2, RequestAssumption DEF Take
  <2> QED BY <1>1, <2>1, <2>2 DEF HoldersInv
<1>3. ASSUME NEW r \in Request, Release(r) PROVE HoldersInv'
  <2>1. CASE r \in key
    <3>1. Cardinality(key') = Cardinality(key) - 1
        BY <1>1, <1>3, <2>1, FS_RemoveElement DEF Release
    <3>2. owner' = Nobody /\ faults' = faults
        BY <1>3, <2>1 DEF Release
    <3> QED BY <1>1, <3>1, <3>2 DEF HoldersInv
  <2>2. CASE r \notin key
    <3>1. key' = key /\ owner' = owner /\ faults' = faults
        BY <1>3, <2>2 DEF Release
    <3> QED BY <3>1 DEF HoldersInv
  <2> QED BY <2>1, <2>2
<1>4. ASSUME Expire PROVE HoldersInv'
  <2>1. key' = key /\ owner' = Nobody /\ owner # Nobody /\ faults' = faults + 1
      BY <1>4 DEF Expire
  <2> QED BY <1>1, <2>1 DEF HoldersInv
<1>5. ASSUME NEW r \in Request, Die(r) PROVE HoldersInv'
  <2>1. Cardinality(key') \in Nat /\ Cardinality(key') <= Cardinality(key)
    <3>1. key' = key \ {r}
        BY <1>5 DEF Die
    <3>2. IsFiniteSet(key \ {r}) /\ Cardinality(key \ {r}) = IF r \in key THEN Cardinality(key) - 1 ELSE Cardinality(key)
        BY <1>1, FS_RemoveElement
    <3>3. Cardinality(key \ {r}) \in Nat
        BY <3>2, FS_CardinalityType
    <3> QED BY <1>1, <3>1, <3>2, <3>3
  <2>2. owner' = owner /\ faults' = faults + 1
      BY <1>5 DEF Die
  <2> QED BY <1>1, <2>1, <2>2 DEF HoldersInv
<1>6. ASSUME UNCHANGED <<key, owner, faults>> PROVE HoldersInv'
    BY <1>6 DEF HoldersInv
<1>7. ASSUME NEW r \in Request,
             Create(r) \/ AskNext(r) \/ GiveUp(r) \/ Decide(r) \/ Refuse(r) \/ Save(r) \/ End(r)
      PROVE  HoldersInv'
    BY <1>6, <1>7 DEF Create, AskNext, GiveUp, Decide, Refuse, Save, End
<1> QED BY <1>2, <1>3, <1>4, <1>5, <1>6, <1>7 DEF Next, Handler, vars

-----------------------------------------------------------------------------
(* Every variable stays in its type, and a next buyer is only asked for    *)
(* with a line on the row.                                                 *)
THEOREM TypesHold == Spec => []TypeOK
<1>1. LimitsInv => TypeOK
    BY DEF LimitsInv, Typed
<1> QED BY InitLimits, StepLimits, <1>1, PTL DEF Spec

(* The calls saved under the lock never exceed a limit of the campaign,    *)
(* the buyer or the line, however many requests run beside them.           *)
THEOREM LimitsAreExact == Spec => []LimitsExact
<1>1. LimitsInv => LimitsExact
    BY DEF LimitsInv
<1> QED BY InitLimits, StepLimits, <1>1, PTL DEF Spec

(* Each timeout of the lock lets at most one more request believe that it  *)
(* holds it, although a request deletes the key whoever set it.            *)
THEOREM HoldersAreBounded == Spec => []HoldersBounded
<1>1. LimitsInv => TypeOK
    BY DEF LimitsInv, Typed
<1>2. TypeOK /\ HoldersInv => HoldersBounded
  <2> SUFFICES ASSUME TypeOK, HoldersInv PROVE HoldersBounded
      OBVIOUS
  <2>1. Cardinality(key) \in Nat /\ faults \in Nat
      BY RequestAssumption, FaultsAssumption, FS_Subset, FS_CardinalityType DEF TypeOK
  <2> QED BY <2>1 DEF HoldersInv, HoldersBounded
<1> QED BY InitLimits, StepLimits, StepHolders, <1>1, <1>2, PTL DEF Spec

-----------------------------------------------------------------------------
(* LineChoice.                                                             *)

(* What a row says of where its call is now. *)
OnLine(c) == [num |-> row[c].dest, buyer |-> row[c].buyer]

(* What B's row and A's journal have, by the stage the call is at. *)
Stage(c) ==
    /\ sw[c] = "new" => row[c] = NoRow /\ jour[c] = NoEntry /\ sent[c] = <<>>
    /\ sw[c] = "asked" => row[c].st = "ringing" /\ jour[c] = NoEntry
    /\ sw[c] = "missed" => jour[c].src # "a"
    /\ sw[c] \in {"rings", "missed", "talks", "ended"} /\ jour[c].src # "a" => row[c].st = "in_progress"

(* B's row has every number the call was sent to, the last of them as its  *)
(* destination; A's journal has the first.                                 *)
Remembers(c) ==
    /\ row[c].st \in {"none", "ringing"} => row[c].dest = None
    /\ row[c].st \in {"in_progress", "completed"} => row[c].dest # None
    /\ row[c].dest = None => row[c].tries = {} /\ (row[c].st # "none" => sent[c] = <<>>)
    /\ row[c].dest # None => /\ sent[c] # <<>> /\ Last(sent[c]) = OnLine(c)
                             /\ ToSet(sent[c]) = {OnLine(c)} \cup row[c].tries
    /\ jour[c].src # "none" => /\ sent[c] # <<>>
                               /\ sent[c][1] = [num |-> jour[c].dest, buyer |-> jour[c].buyer]
    /\ jour[c].src = "a" => Len(sent[c]) = 1

(* The places in a round of a buyer's page, and of a rule's lines. *)
Turns(t) ==
    /\ t \in [Buyer -> Nat]
    /\ \A b \in Buyer : t[b] \in {0} \cup 1 .. Len(plan.page[b]) - 1
Places(r) ==
    /\ r \in [DOMAIN plan.rules -> Nat]
    /\ \A k \in DOMAIN plan.rules : r[k] \in {0} \cup 1 .. Len(plan.rules[k].lines) - 1

ChoiceTypes == ChoiceTypeOK /\ Turns(turnB) /\ Turns(turnA) /\ Places(rrB) /\ Places(rrA)

(* The inductive invariant. *)
ChoiceInv == ChoiceTypes /\ \A c \in Call : Stage(c) /\ Remembers(c)

-----------------------------------------------------------------------------
(* Places in a list. *)

(* A nonempty set of naturals has a first element. *)
LEMMA FirstIn ==
    ASSUME NEW S \in SUBSET Nat, S # {}
    PROVE  \E i \in S : First(S) = {i} /\ \A j \in S : i <= j
<1>1. PICK i \in S : \A j \in S : <<j, i>> \notin OpToRel(<, Nat)
    BY NatLessThanWellFounded, WFMin
<1>2. \A j \in S : i <= j
  <2> TAKE j \in S
  <2>1. ~(j < i) /\ i \in Nat /\ j \in Nat
      BY <1>1 DEF OpToRel
  <2> QED BY <2>1
<1>3. \A j \in S : j \in Nat /\ (j <= i => j = i)
    BY <1>2
<1>4. First(S) = {i}
    BY <1>2, <1>3 DEF First
<1> QED BY <1>2, <1>4

(* A set of places has an mth one, when it has more than m. *)
LEMMA NthIn ==
    ASSUME NEW k \in Nat, NEW S \in SUBSET (1 .. k), NEW m \in Nat, m < Cardinality(S)
    PROVE  Nth(S, m) # {}
<1> DEFINE Below(i) == {j \in S : j < i}
           P == {i \in Nat : Cardinality(Below(i + 1)) > m}
<1>0. IsFiniteSet(S) /\ \A j \in S : j \in Nat /\ 1 <= j /\ j <= k
  <2>1. IsFiniteSet(1 .. k)
      BY FS_Interval
  <2>2. IsFiniteSet(S)
      BY <2>1, FS_Subset
  <2>3. \A j \in S : j \in Nat /\ 1 <= j /\ j <= k
      OBVIOUS
  <2> QED BY <2>2, <2>3
<1>1. ASSUME NEW T \in SUBSET S PROVE IsFiniteSet(T) /\ Cardinality(T) \in Nat
    BY <1>0, FS_Subset, FS_CardinalityType
<1>b. \A i : IsFiniteSet(Below(i)) /\ Cardinality(Below(i)) \in Nat
    BY <1>1
<1>2. k \in P
  <2>1. \A j \in S : j < k + 1
      BY <1>0
  <2>2. Below(k + 1) = S
      BY <2>1
  <2> HIDE DEF Below
  <2> QED BY <2>2
<1>3. PICK i \in P : \A j \in P : i <= j
  <2>1. P \in SUBSET Nat /\ P # {}
      BY <1>2
  <2> HIDE DEF P
  <2> QED BY <2>1, FirstIn
<1>4. i \in Nat /\ Cardinality(Below(i + 1)) > m
    BY <1>3
<1>5. i # 0
  <2>1. \A j \in S : ~(j < 0 + 1)
      BY <1>0
  <2>2. Below(0 + 1) = {}
      BY <2>1
  <2>3. Cardinality(Below(0 + 1)) = 0
      BY <2>2, FS_EmptySet
  <2> HIDE DEF Below
  <2> QED BY <2>3, <1>4
<1>6. i - 1 \in Nat /\ i - 1 \notin P
  <2> HIDE DEF P
  <2> QED BY <1>3, <1>4, <1>5
<1>7. Cardinality(Below(i)) <= m
  <2>1. (i - 1) + 1 = i
      BY <1>4
  <2>2. Cardinality(Below(i)) \in Nat
      BY <1>b
  <2> HIDE DEF Below
  <2> QED BY <1>6, <2>1, <2>2
<1>a. \A j \in S : j < i + 1 <=> j < i \/ j = i
    BY <1>0, <1>4
<1>8. i \in S
  <2> SUFFICES ASSUME i \notin S PROVE FALSE
      OBVIOUS
  <2>1. Below(i + 1) = Below(i)
      BY <1>a
  <2>2. Cardinality(Below(i)) \in Nat
      BY <1>b
  <2> HIDE DEF Below
  <2> QED BY <1>4, <1>7, <2>1, <2>2
<1>9. Cardinality(Below(i + 1)) = Cardinality(Below(i)) + 1
  <2>0. ~(i < i)
      BY <1>4
  <2>1. Below(i + 1) = Below(i) \cup {i} /\ i \notin Below(i)
      BY <1>a, <1>8, <2>0
  <2>2. IsFiniteSet(Below(i))
      BY <1>b
  <2> HIDE DEF Below
  <2> QED BY <2>1, <2>2, FS_AddElement
<1>10. Cardinality(Below(i)) = m
  <2>1. Cardinality(Below(i)) \in Nat
      BY <1>b
  <2> HIDE DEF Below
  <2> QED BY <2>1, <1>4, <1>7, <1>9
<1> QED BY <1>8, <1>10 DEF Nth

(* Some place of a nonempty pool is the next in turn. *)
LEMMA InTurn ==
    ASSUME NEW k \in Nat, NEW S \in SUBSET (1 .. k), S # {}, NEW i \in Nat
    PROVE  /\ Cardinality(S) \in 1 .. k
           /\ Nth(S, i % Cardinality(S)) # {}
           /\ Turn(i, Cardinality(S)) \in {0} \cup 1 .. k - 1
<1>1. IsFiniteSet(1 .. k) /\ Cardinality(1 .. k) = k
    BY FS_Interval
<1>2. IsFiniteSet(S) /\ Cardinality(S) <= k
    BY <1>1, FS_Subset
<1>3. Cardinality(S) \in Nat /\ Cardinality(S) # 0
    BY <1>2, FS_CardinalityType, FS_EmptySet
<1> DEFINE n == Cardinality(S)
<1>4. n \in Nat /\ 1 <= n /\ n <= k
    BY <1>2, <1>3
<1> HIDE DEF n
<1>5. i % n \in Nat /\ i % n < n /\ (i + 1) % n \in 0 .. n - 1
    BY <1>4
<1>6. Nth(S, i % n) # {}
    BY <1>5, NthIn DEF n
<1>7. Turn(i, n) \in {0} \cup 1 .. k - 1
    BY <1>4, <1>5 DEF Turn
<1> QED BY <1>4, <1>6, <1>7 DEF n

(* A choice by weight is one of those there are, and there is one if any is. *)
LEMMA Weighed ==
    ASSUME NEW lines, NEW S \in SUBSET Nat
    PROVE  ByWeight(lines, S) \subseteq S /\ (S # {} => ByWeight(lines, S) # {})
<1>1. S # {} => First(S) # {}
    BY FirstIn
<1> QED BY <1>1 DEF ByWeight, First

-----------------------------------------------------------------------------
(* The choice of a line. *)

(* The parts of a campaign. *)
LEMMA PlanParts ==
    ASSUME plan \in Plans
    PROVE  /\ DOMAIN plan.rules \in SUBSET Nat
           /\ \A k \in DOMAIN plan.rules :
                 LET lines == plan.rules[k].lines
                 IN /\ plan.rules[k].kind \in {"priority", "round_robin", "weighted"}
                    /\ lines \in Seq(RuleLine) /\ Len(lines) \in Nat /\ DOMAIN lines = 1 .. Len(lines)
                    /\ \A i \in DOMAIN lines : lines[i] \in RuleLine
           /\ \A b \in Buyer :
                 LET page == plan.page[b]
                 IN /\ page \in Seq(Tfn) /\ Len(page) \in Nat /\ DOMAIN page = 1 .. Len(page)
                    /\ \A i \in DOMAIN page : page[i] \in Tfn
                    /\ Page(b) = {page[i] : i \in DOMAIN page} /\ Page(b) \subseteq Tfn
<1>1. plan.rules \in Seq(Rule) /\ plan.page \in [Buyer -> Seq(Tfn)]
    BY PlansAssumption DEF Plan
<1>2. DOMAIN plan.rules \in SUBSET Nat /\ \A k \in DOMAIN plan.rules : plan.rules[k] \in Rule
    BY <1>1
<1>3. ASSUME NEW k \in DOMAIN plan.rules
      PROVE  LET lines == plan.rules[k].lines
             IN /\ plan.rules[k].kind \in {"priority", "round_robin", "weighted"}
                /\ lines \in Seq(RuleLine) /\ Len(lines) \in Nat /\ DOMAIN lines = 1 .. Len(lines)
                /\ \A i \in DOMAIN lines : lines[i] \in RuleLine
  <2>1. plan.rules[k].kind \in {"priority", "round_robin", "weighted"} /\ plan.rules[k].lines \in Seq(RuleLine)
      BY <1>2 DEF Rule
  <2> QED BY <2>1
<1>4. ASSUME NEW b \in Buyer
      PROVE  LET page == plan.page[b]
             IN /\ page \in Seq(Tfn) /\ Len(page) \in Nat /\ DOMAIN page = 1 .. Len(page)
                /\ \A i \in DOMAIN page : page[i] \in Tfn
                /\ Page(b) = {page[i] : i \in DOMAIN page} /\ Page(b) \subseteq Tfn
  <2>1. plan.page[b] \in Seq(Tfn)
      BY <1>1
  <2> DEFINE page == plan.page[b]
  <2>2. Page(b) = {page[i] : i \in DOMAIN page}
      BY DEF Page, ToSet
  <2>3. Len(page) \in Nat /\ DOMAIN page = 1 .. Len(page) /\ \A i \in DOMAIN page : page[i] \in Tfn
      BY <2>1
  <2>4. Page(b) \subseteq Tfn
      BY <2>2, <2>3
  <2> QED BY <2>1, <2>2, <2>3, <2>4
<1> QED BY <1>2, <1>3, <1>4

(* A rule's choice is one of its lines, allowed to the caller.             *)
LEMMA RuleFits ==
    ASSUME plan \in Plans, NEW k \in DOMAIN plan.rules, NEW place \in Nat, NEW x,
           NEW o \in OfRule(plan.rules[k], place, x)
    PROVE  /\ o.line \in RuleLine /\ Allowed(o.line, x) /\ o.line \in ToSet(plan.rules[k].lines)
           /\ o.place \in Nat
           /\ o.place = place \/ o.place \in {0} \cup 1 .. Len(plan.rules[k].lines) - 1
<1> DEFINE r == plan.rules[k]
           pool == {i \in DOMAIN r.lines : Allowed(r.lines[i], x)}
           n == Cardinality(pool)
<1>1. /\ r.kind \in {"priority", "round_robin", "weighted"}
      /\ Len(r.lines) \in Nat /\ DOMAIN r.lines = 1 .. Len(r.lines) /\ \A i \in DOMAIN r.lines : r.lines[i] \in RuleLine
    BY PlanParts
<1>2. PICK i : /\ o = [line |-> r.lines[i], place |-> IF r.kind = "round_robin" THEN Turn(place, n) ELSE place]
               /\ i \in IF r.kind = "priority" THEN ByPriority(r.lines, x)
                        ELSE IF r.kind = "weighted" THEN ByWeight(r.lines, pool)
                        ELSE Nth(pool, place % n)
    BY DEF OfRule
<1>3. i \in pool
  <2>1. CASE r.kind = "priority"
    <3> DEFINE able == {q \in DOMAIN r.lines : Allowed(r.lines[q], x) /\ Ready(r.lines[q])}
               S == {q \in able : \E f \in First(able) : r.lines[q].prio = r.lines[f].prio}
    <3>1. i \in ByWeight(r.lines, S)
        BY <1>2, <2>1 DEF ByPriority
    <3>2. S \in SUBSET Nat
        BY <1>1
    <3>3. i \in S
        BY <3>1, <3>2, Weighed
    <3> QED BY <3>3
  <2>2. CASE r.kind = "weighted"
    <3>1. i \in ByWeight(r.lines, pool)
        BY <1>2, <2>2
    <3>2. pool \in SUBSET Nat
        BY <1>1
    <3> HIDE DEF pool
    <3> QED BY <3>1, <3>2, Weighed
  <2>3. CASE r.kind = "round_robin"
    <3>1. i \in Nth(pool, place % n)
        BY <1>2, <2>3
    <3> HIDE DEF pool
    <3> QED BY <3>1 DEF Nth
  <2> QED BY <1>1, <2>1, <2>2, <2>3
<1>4. r.kind = "round_robin" => Turn(place, n) \in {0} \cup 1 .. Len(r.lines) - 1
  <2>1. pool \in SUBSET (1 .. Len(r.lines)) /\ pool # {}
      BY <1>1, <1>3
  <2> HIDE DEF pool
  <2> QED BY <2>1, <1>1, InTurn
<1>5. o.line \in RuleLine /\ Allowed(o.line, x)
    BY <1>1, <1>2, <1>3
<1>7. o.line \in ToSet(plan.rules[k].lines)
    BY <1>2, <1>3 DEF ToSet
<1>6. o.place = place \/ o.place \in {0} \cup 1 .. Len(r.lines) - 1
    BY <1>2, <1>4
<1> QED BY <1>1, <1>5, <1>6, <1>7

(* A rule with a line that is allowed and can take the call has a choice. *)
LEMMA RuleHasOne ==
    ASSUME plan \in Plans, NEW k \in DOMAIN plan.rules, NEW place \in Nat, NEW x,
           NEW l \in ToSet(plan.rules[k].lines), Allowed(l, x), Ready(l)
    PROVE  OfRule(plan.rules[k], place, x) # {}
<1> DEFINE r == plan.rules[k]
           pool == {q \in DOMAIN r.lines : Allowed(r.lines[q], x)}
           able == {q \in DOMAIN r.lines : Allowed(r.lines[q], x) /\ Ready(r.lines[q])}
           n == Cardinality(pool)
           picked == IF r.kind = "priority" THEN ByPriority(r.lines, x)
                     ELSE IF r.kind = "weighted" THEN ByWeight(r.lines, pool)
                     ELSE Nth(pool, place % n)
<1>1. /\ r.kind \in {"priority", "round_robin", "weighted"}
      /\ Len(r.lines) \in Nat /\ DOMAIN r.lines = 1 .. Len(r.lines)
    BY PlanParts
<1>2. PICK i \in DOMAIN r.lines : l = r.lines[i]
    BY DEF ToSet
<1>3. i \in pool /\ i \in able /\ pool \in SUBSET (1 .. Len(r.lines)) /\ able \in SUBSET Nat
    BY <1>1, <1>2
<1>4. ByPriority(r.lines, x) # {}
  <2> DEFINE S == {q \in able : \E f \in First(able) : r.lines[q].prio = r.lines[f].prio}
  <2>1. ByPriority(r.lines, x) = ByWeight(r.lines, S)
      BY DEF ByPriority
  <2>2. PICK f \in able : First(able) = {f}
    <3> HIDE DEF able
    <3> QED BY <1>3, FirstIn
  <2>3. f \in S /\ S \in SUBSET Nat
    <3> HIDE DEF able
    <3> QED BY <2>2, <1>3
  <2> HIDE DEF S
  <2> QED BY <2>1, <2>3, Weighed
<1>5. ByWeight(r.lines, pool) # {} /\ Nth(pool, place % n) # {}
  <2>1. pool \in SUBSET Nat
      BY <1>3
  <2> HIDE DEF pool
  <2> QED BY <1>1, <1>3, <2>1, Weighed, InTurn
<1>6. picked # {}
    BY <1>4, <1>5
<1>7. OfRule(r, place, x) = {[line |-> r.lines[q],
                              place |-> IF r.kind = "round_robin" THEN Turn(place, n) ELSE place] : q \in picked}
    BY DEF OfRule
<1> HIDE DEF picked
<1> QED BY <1>6, <1>7

(* A line of one of the campaign's rules. *)
OfPlan(l) == \E k \in DOMAIN plan.rules : l \in ToSet(plan.rules[k].lines)

(* What a decision gives is a line allowed to the caller, and the places   *)
(* of the rules; the duplicate rules are the ones it was asked with, or    *)
(* the same call's without the pin.                                        *)
Fits(o, x) ==
    /\ o.line \in RuleLine /\ OfPlan(o.line) /\ Allowed(o.line, o.held) /\ Places(o.places)
    /\ o.held = x \/ (x.only # None /\ o.held = Free(x.tried))

LEMMA RunFits ==
    ASSUME plan \in Plans, NEW places, Places(places), NEW x, NEW o \in RunRules(places, x)
    PROVE  o.line \in RuleLine /\ OfPlan(o.line) /\ Allowed(o.line, x) /\ Places(o.places) /\ o.held = x
<1> DEFINE able == {k \in DOMAIN plan.rules : OfRule(plan.rules[k], places[k], x) # {}}
<1>1. PICK k \in First(able) : \E p \in OfRule(plan.rules[k], places[k], x) :
          o = [line |-> p.line, places |-> [places EXCEPT ![k] = p.place], held |-> x]
    BY DEF RunRules
<1>2. k \in DOMAIN plan.rules /\ places[k] \in Nat
    BY <1>1 DEF First, Places
<1>3. PICK p \in OfRule(plan.rules[k], places[k], x) :
          o = [line |-> p.line, places |-> [places EXCEPT ![k] = p.place], held |-> x]
    BY <1>1
<1>4. /\ p.line \in RuleLine /\ Allowed(p.line, x) /\ p.line \in ToSet(plan.rules[k].lines) /\ p.place \in Nat
      /\ p.place = places[k] \/ p.place \in {0} \cup 1 .. Len(plan.rules[k].lines) - 1
    BY <1>2, RuleFits
<1>5. Places([places EXCEPT ![k] = p.place])
    BY <1>2, <1>4 DEF Places
<1>6. OfPlan(p.line)
    BY <1>2, <1>4 DEF OfPlan
<1> QED BY <1>3, <1>4, <1>5, <1>6

LEMMA RunHasOne ==
    ASSUME plan \in Plans, NEW places, Places(places), NEW x,
           NEW k \in DOMAIN plan.rules, NEW l \in ToSet(plan.rules[k].lines), Allowed(l, x), Ready(l)
    PROVE  RunRules(places, x) # {}
<1> DEFINE able == {j \in DOMAIN plan.rules : OfRule(plan.rules[j], places[j], x) # {}}
<1>1. k \in able /\ able \in SUBSET Nat
    BY RuleHasOne, PlanParts DEF Places
<1>2. PICK f \in able : First(able) = {f}
  <2> HIDE DEF able
  <2> QED BY <1>1, FirstIn
<1>3. PICK p \in OfRule(plan.rules[f], places[f], x) : TRUE
    BY <1>2
<1> DEFINE Of(j) == {[line |-> q.line, places |-> [places EXCEPT ![j] = q.place], held |-> x] :
                        q \in OfRule(plan.rules[j], places[j], x)}
<1>4. RunRules(places, x) = UNION {Of(j) : j \in First(able)}
    BY DEF RunRules
<1>5. Of(f) # {}
    BY <1>3
<1> HIDE DEF Of
<1> QED BY <1>2, <1>4, <1>5

LEMMA RoutesFit ==
    ASSUME plan \in Plans, NEW places, Places(places), NEW x, NEW o \in Routes(places, x)
    PROVE  /\ Fits(o, x)
           /\ RunRules(places, x) # {} => o.held = x
<1>1. CASE RunRules(places, x) = {} /\ x.only # None
  <2>1. o \in RunRules(places, Free(x.tried))
      BY <1>1 DEF Routes
  <2> QED BY <1>1, <2>1, RunFits DEF Fits
<1>2. CASE ~(RunRules(places, x) = {} /\ x.only # None)
  <2>1. o \in RunRules(places, x)
      BY <1>2 DEF Routes
  <2> QED BY <2>1, RunFits DEF Fits
<1> QED BY <1>1, <1>2

(* The rotation gives one of the buyer's numbers, and none the caller has  *)
(* to stay away from; a pinned caller only his own.                        *)
LEMMA RotationFits ==
    ASSUME ChoiceTypes, NEW b \in Buyer, NEW turns, Turns(turns), NEW x
    PROVE  LET p == PickLive(b, turns, x)
           IN /\ p.num \in Tfn \cup {None} /\ Turns(p.turns)
              /\ p.num = None \/ p.num \in Page(b)
              /\ x.only = None => p.num = None \/ p.num \notin x.nums
              /\ x.only # None => p.num \in {None, x.only}
<1> DEFINE page == plan.page[b]
           rows == {i \in DOMAIN page : state[page[i]] \notin {"off", "full"} /\ page[i] \notin x.nums}
           n == Cardinality(rows)
           Step(i) == Nth(rows, (turns[b] + i) % n)
           free == First({i \in 0 .. n - 1 : \E p \in Step(i) : state[page[p]] # "busy"})
           step == IF free = {} THEN 0 ELSE CHOOSE i \in free : TRUE
           p == PickLive(b, turns, x)
<1>1. /\ Len(page) \in Nat /\ DOMAIN page = 1 .. Len(page) /\ \A i \in DOMAIN page : page[i] \in Tfn
      /\ Page(b) \subseteq Tfn /\ Page(b) = {page[i] : i \in DOMAIN page}
    BY PlanParts DEF ChoiceTypes, ChoiceTypeOK
<1>2. /\ rows \in SUBSET (1 .. Len(page))
      /\ \A i \in rows : page[i] \in Tfn /\ page[i] \in Page(b) /\ page[i] \notin x.nums
    BY <1>1
<1>3. turns \in [Buyer -> Nat] /\ turns[b] \in Nat
    BY DEF Turns
<1>4. CASE x.only # None
  <2>1. p = [num |-> IF x.only \in Page(b) /\ state[x.only] # "off" THEN x.only ELSE None, turns |-> turns]
      BY <1>4 DEF PickLive
  <2> QED BY <1>1, <1>4, <2>1
<1>5. CASE x.only = None /\ n = 0
  <2>1. p = [num |-> None, turns |-> turns]
      BY <1>5 DEF PickLive
  <2> QED BY <1>5, <2>1
<1>6. CASE x.only = None /\ n # 0
  <2>1. p = [num |-> page[CHOOSE i \in Step(step) : TRUE],
             turns |-> IF n = 1 THEN turns ELSE [turns EXCEPT ![b] = Turn(@ + step, n)]]
      BY <1>6 DEF PickLive
  <2>2. rows # {}
      BY <1>6, FS_EmptySet
  <2>3. step \in Nat
    <3>1. n \in 1 .. Len(page)
      <4> HIDE DEF rows
      <4> QED BY <1>1, <1>2, <2>2, InTurn
    <3>2. free \subseteq Nat
        BY <3>1 DEF First
    <3> HIDE DEF free
    <3> QED BY <3>2
  <2> HIDE DEF step
  <2>4. Step(step) # {} /\ Turn(turns[b] + step, n) \in {0} \cup 1 .. Len(page) - 1
    <3>1. turns[b] + step \in Nat
        BY <1>3, <2>3
    <3> HIDE DEF rows
    <3> QED BY <1>1, <1>2, <2>2, <3>1, InTurn
  <2>5. Step(step) \subseteq rows
      BY DEF Nth
  <2> DEFINE i == CHOOSE q \in Step(step) : TRUE
  <2>6. i \in rows
    <3> HIDE DEF Step, rows
    <3> QED BY <2>4, <2>5
  <2> HIDE DEF Step
  <2>7. p.num = page[i] /\ p.turns = IF n = 1 THEN turns ELSE [turns EXCEPT ![b] = Turn(turns[b] + step, n)]
      BY <2>1
  <2> HIDE DEF i
  <2>8. p.num \in Tfn /\ p.num \in Page(b) /\ p.num \notin x.nums
      BY <1>2, <2>6, <2>7
  <2>9. Turns(p.turns)
    <3>1. [turns EXCEPT ![b] = Turn(turns[b] + step, n)] \in [Buyer -> Nat]
        BY <1>1, <1>3, <2>4
    <3>2. Turns([turns EXCEPT ![b] = Turn(turns[b] + step, n)])
        BY <1>3, <2>4, <3>1 DEF Turns
    <3> QED BY <2>7, <3>2
  <2> QED BY <1>6, <2>8, <2>9
<1> QED BY <1>4, <1>5, <1>6

(* What is dialled is a number; none the caller has to stay away from, and *)
(* for a pinned caller his own.                                            *)
LEMMA DialledFits ==
    ASSUME ChoiceTypes, NEW o, o.line \in RuleLine, Allowed(o.line, o.held), NEW turns, Turns(turns)
    PROVE  LET d == Dialled(o, turns)
           IN /\ d.num \in Number /\ Turns(d.turns)
              /\ o.held.only = None => d.num \notin o.held.nums
              /\ o.held.only # None => d.num = o.held.only
              /\ d.num = o.line.num \/ (o.line.num \notin Page(o.line.buyer) /\ d.num \in Page(o.line.buyer))
<1> DEFINE l == o.line
           p == PickLive(l.buyer, turns, o.held)
           d == Dialled(o, turns)
<1>1. l.num \in Number /\ l.buyer \in Buyer
    BY DEF RuleLine
<1>2. l.num \notin o.held.nums /\ (o.held.only # None => l.num = o.held.only)
    BY DEF Allowed
<1>3. /\ p.num \in Tfn \cup {None} /\ Turns(p.turns)
      /\ p.num = None \/ p.num \in Page(l.buyer)
      /\ o.held.only = None => p.num = None \/ p.num \notin o.held.nums
      /\ o.held.only # None => p.num \in {None, o.held.only}
    BY <1>1, RotationFits
<1>4. \/ d.num = l.num /\ d.turns = turns
      \/ /\ d.num = (IF p.num = None THEN l.num ELSE p.num) /\ d.turns = p.turns
         /\ l.num \notin Page(l.buyer)
    BY DEF Dialled
<1> HIDE DEF p, d
<1> QED BY <1>1, <1>2, <1>3, <1>4 DEF d, Number

-----------------------------------------------------------------------------
(* The invariant, step by step. *)

(* A call sent on. *)
LEMMA SentOn ==
    ASSUME NEW s \in Seq(Miss), NEW m \in Miss
    PROVE  LET t == Append(s, m)
           IN /\ t \in Seq(Miss) /\ t # <<>> /\ Len(t) = Len(s) + 1
              /\ Last(t) = m /\ ToSet(t) = ToSet(s) \cup {m}
              /\ s # <<>> => t[1] = s[1]
              /\ s = <<>> => t[1] = m
<1> DEFINE t == Append(s, m)
<1>1. /\ t \in Seq(Miss) /\ Len(s) \in Nat /\ Len(t) = Len(s) + 1 /\ t[Len(s) + 1] = m
      /\ DOMAIN s = 1 .. Len(s) /\ DOMAIN t = 1 .. Len(s) + 1 /\ \A i \in 1 .. Len(s) : t[i] = s[i]
    OBVIOUS
<1>2. s # <<>> => Len(s) >= 1
    OBVIOUS
<1>3. t # <<>>
    BY <1>1
<1> HIDE DEF t
<1>4. Last(t) = m
    BY <1>1 DEF Last
<1>5. ASSUME NEW x \in ToSet(t) PROVE x \in ToSet(s) \cup {m}
  <2>1. PICK i \in 1 .. Len(s) + 1 : x = t[i]
      BY <1>1 DEF ToSet
  <2>2. i \in 1 .. Len(s) \/ i = Len(s) + 1
      BY <1>1
  <2> QED BY <1>1, <2>1, <2>2 DEF ToSet
<1>6. ASSUME NEW x \in ToSet(s) \cup {m} PROVE x \in ToSet(t)
  <2>1. Len(s) + 1 \in DOMAIN t /\ \A i \in DOMAIN s : i \in DOMAIN t
      BY <1>1
  <2> QED BY <1>1, <2>1 DEF ToSet
<1>7. s # <<>> => t[1] = s[1]
    BY <1>1, <1>2
<1>8. s = <<>> => t[1] = m
    BY <1>1
<1> QED BY <1>1, <1>3, <1>4, <1>5, <1>6, <1>7, <1>8 DEF t

(* The state of one call, spelled out. *)
LEMMA CallTypes ==
    ASSUME ChoiceTypes, NEW c \in Call
    PROVE  /\ row \in [Call -> Row] /\ jour \in [Call -> Entry] /\ sent \in [Call -> Seq(Miss)]
           /\ sw \in [Call -> {"new", "asked", "rings", "missed", "talks", "ended", "over"}]
           /\ talked \subseteq Call /\ refused \subseteq Call
           /\ row[c].st \in {"none", "ringing", "in_progress", "no_answer", "completed"}
           /\ row[c] \in Row
           /\ row[c].dest \in Number \cup {None} /\ row[c].buyer \in Buyer \cup {None} /\ row[c].tries \subseteq Miss
           /\ jour[c] \in Entry /\ sent[c] \in Seq(Miss) /\ Len(sent[c]) \in Nat /\ Len(sent[c]) <= MaxSent
           /\ \A t \in Seq(Miss) : [sent EXCEPT ![c] = t] \in [Call -> Seq(Miss)]
           /\ MaxSent \in Nat /\ 1 <= MaxSent /\ None \notin Number
<1>1. /\ row \in [Call -> Row] /\ jour \in [Call -> Entry] /\ sent \in [Call -> Seq(Miss)]
      /\ sw \in [Call -> {"new", "asked", "rings", "missed", "talks", "ended", "over"}]
      /\ talked \subseteq Call /\ refused \subseteq Call /\ Len(sent[c]) <= MaxSent
    BY DEF ChoiceTypes, ChoiceTypeOK
<1>2. row[c] \in Row /\ jour[c] \in Entry /\ sent[c] \in Seq(Miss)
    BY <1>1
<1>3. MaxSent \in Nat /\ 1 <= MaxSent /\ None \notin Number
    BY BoundsAssumption, NumberAssumption
<1> QED BY <1>1, <1>2, <1>3 DEF Row

(* What one call's step does to the others. *)
Elsewhere(c) ==
    \A d \in Call \ {c} : row'[d] = row[d] /\ jour'[d] = jour[d] /\ sw'[d] = sw[d] /\ sent'[d] = sent[d]

LEMMA CallStep ==
    ASSUME ChoiceInv, NEW c \in Call, Quiet, Elsewhere(c),
           row' \in [Call -> Row], jour' \in [Call -> Entry],
           sw' \in [Call -> {"new", "asked", "rings", "missed", "talks", "ended", "over"}],
           talked' \subseteq Call, refused' \subseteq Call,
           sent' \in [Call -> Seq(Miss)], Len(sent'[c]) <= MaxSent,
           rotB' = rotB \/ (Turns(turnB') /\ Places(rrB')),
           rotA' = rotA \/ (Turns(turnA') /\ Places(rrA')),
           Stage(c)', Remembers(c)'
    PROVE  ChoiceInv'
<1>1. UNCHANGED <<plan, mode, state, up, changes, outages>>
    BY DEF Quiet
<1>2. Turns(turnB') /\ Places(rrB') /\ Turns(turnA') /\ Places(rrA')
    BY DEF ChoiceInv, ChoiceTypes, rotB, rotA
<1>3. Turns(turnB)' /\ Places(rrB)' /\ Turns(turnA)' /\ Places(rrA)'
    BY <1>1, <1>2 DEF Turns, Places
<1>4. \A d \in Call : Len(sent'[d]) <= MaxSent
    BY DEF ChoiceInv, ChoiceTypes, ChoiceTypeOK, Elsewhere
<1>5. /\ \A b \in Buyer : {turnB'[b], turnA'[b]} \subseteq {0} \cup 1 .. Len(plan'.page[b]) - 1
      /\ \A k \in DOMAIN plan'.rules : {rrB'[k], rrA'[k]} \subseteq {0} \cup 1 .. Len(plan'.rules[k].lines) - 1
    BY <1>3 DEF Turns, Places
<1>6. ChoiceTypeOK'
  <2>1. /\ plan \in Plans /\ mode \in Mode /\ state \in [Tfn -> {"open", "off", "full", "busy"}] /\ up \in BOOLEAN
        /\ changes \in 0 .. MaxChanges /\ outages \in 0 .. MaxOutages
      BY DEF ChoiceInv, ChoiceTypes, ChoiceTypeOK
  <2> QED BY <1>1, <1>4, <1>5, <2>1 DEF ChoiceTypeOK
<1>7. ASSUME NEW d \in Call PROVE Stage(d)' /\ Remembers(d)'
  <2>1. CASE d = c
      BY <2>1
  <2>2. CASE d # c
    <3>1. row'[d] = row[d] /\ jour'[d] = jour[d] /\ sw'[d] = sw[d] /\ sent'[d] = sent[d]
        BY <2>2 DEF Elsewhere
    <3>2. Stage(d) /\ Remembers(d)
        BY DEF ChoiceInv
    <3> QED BY <3>1, <3>2 DEF Stage, Remembers, OnLine
  <2> QED BY <2>1, <2>2
<1> QED BY <1>3, <1>6, <1>7 DEF ChoiceInv, ChoiceTypes

(* The steps that send no call anywhere. *)
LEMMA StandStep ==
    ASSUME ChoiceInv, NEW c \in Call,
           Arrive(c) \/ RefuseB(c) \/ RefuseA(c) \/ Push(c) \/ Answer(c) \/ RingsOut(c) \/ NoNextLine(c)
             \/ HangUp(c) \/ Report(c)
    PROVE  ChoiceInv'
<1>t. /\ row \in [Call -> Row] /\ jour \in [Call -> Entry] /\ sent \in [Call -> Seq(Miss)]
      /\ sw \in [Call -> {"new", "asked", "rings", "missed", "talks", "ended", "over"}]
      /\ talked \subseteq Call /\ refused \subseteq Call
      /\ row[c].st \in {"none", "ringing", "in_progress", "no_answer", "completed"}
      /\ row[c].dest \in Number \cup {None} /\ row[c].buyer \in Buyer \cup {None} /\ row[c].tries \subseteq Miss
      /\ jour[c] \in Entry /\ sent[c] \in Seq(Miss) /\ Len(sent[c]) <= MaxSent /\ None \notin Number
    BY CallTypes DEF ChoiceInv
<1>s. Stage(c) /\ Remembers(c)
    BY DEF ChoiceInv
<1>j. /\ jour[c].src \in {"none", "a", "b"} /\ jour[c].dest \in Number \cup {None} /\ jour[c].buyer \in Buyer \cup {None}
    BY <1>t DEF Entry
<1>r. \A r \in Row : [row EXCEPT ![c] = r] \in [Call -> Row]
    BY <1>t
<1>1. CASE Arrive(c)
  <2>1. /\ row' = [row EXCEPT ![c].st = "ringing"] /\ sw' = [sw EXCEPT ![c] = "asked"] /\ sw[c] = "new"
        /\ Quiet /\ UNCHANGED <<jour, talked, rotB, rotA, sent, refused>>
      BY <1>1 DEF Arrive
  <2>2. row' \in [Call -> Row] /\ sw' \in [Call -> {"new", "asked", "rings", "missed", "talks", "ended", "over"}]
      BY <2>1, <1>t DEF Row
  <2>3. Elsewhere(c)
      BY <2>1, <1>t DEF Elsewhere
  <2>4. /\ row'[c] = [row[c] EXCEPT !.st = "ringing"] /\ row[c] = NoRow /\ jour'[c] = NoEntry /\ sent'[c] = <<>>
        /\ sw'[c] = "asked"
      BY <2>1, <1>t, <1>s DEF Stage
  <2>5. Stage(c)' /\ Remembers(c)'
      BY <2>4 DEF Stage, Remembers, NoRow, NoEntry
  <2> QED BY <2>1, <2>2, <2>3, <2>5, <1>t, CallStep
<1>2. CASE RefuseB(c)
  <2>1. /\ row' = [row EXCEPT ![c].st = "no_answer"] /\ sw' = [sw EXCEPT ![c] = "over"] /\ sw[c] = "asked"
        /\ Quiet /\ UNCHANGED <<jour, talked, rotB, rotA, sent>> /\ refused' = refused \cup {c}
      BY <1>2 DEF RefuseB
  <2>2. row' \in [Call -> Row] /\ sw' \in [Call -> {"new", "asked", "rings", "missed", "talks", "ended", "over"}]
      BY <2>1, <1>t DEF Row
  <2>3. Elsewhere(c)
      BY <2>1, <1>t DEF Elsewhere
  <2>4. /\ row'[c] = [row[c] EXCEPT !.st = "no_answer"] /\ row[c].st = "ringing" /\ jour'[c] = NoEntry
        /\ sent'[c] = sent[c] /\ sw'[c] = "over"
      BY <2>1, <1>t, <1>s DEF Stage
  <2>5. Stage(c)' /\ Remembers(c)'
      BY <2>4, <1>s, <1>t DEF Stage, Remembers, NoEntry
  <2> QED BY <2>1, <2>2, <2>3, <2>5, <1>t, CallStep
<1>3. CASE RefuseA(c)
  <2>1. /\ sw' = [sw EXCEPT ![c] = "over"] /\ sw[c] = "new"
        /\ Quiet /\ UNCHANGED <<row, jour, talked, rotB, rotA, sent, refused>>
      BY <1>3 DEF RefuseA
  <2>2. sw' \in [Call -> {"new", "asked", "rings", "missed", "talks", "ended", "over"}]
      BY <2>1, <1>t
  <2>3. Elsewhere(c)
      BY <2>1, <1>t DEF Elsewhere
  <2>4. sw'[c] = "over"
      BY <2>1, <1>t
  <2>5. Stage(c)' /\ Remembers(c)'
      BY <2>1, <2>4, <1>s DEF Stage, Remembers, OnLine
  <2> QED BY <2>1, <2>2, <2>3, <2>5, <1>t, CallStep
<1>4. CASE Push(c)
  <2>1. /\ row' = [row EXCEPT ![c].st = "in_progress", ![c].dest = jour[c].dest, ![c].buyer = jour[c].buyer]
        /\ jour[c].src = "a" /\ row[c].st = "none"
        /\ Quiet /\ UNCHANGED <<jour, sw, talked, rotB, rotA, sent, refused>>
      BY <1>4 DEF Push
  <2>2. row' \in [Call -> Row]
    <3> DEFINE r == [row[c] EXCEPT !.st = "in_progress", !.dest = jour[c].dest, !.buyer = jour[c].buyer]
    <3>1. r \in Row
        BY <1>t, <1>j DEF Row
    <3>2. row' = [row EXCEPT ![c] = r]
        BY <2>1, <1>t
    <3> HIDE DEF r
    <3> QED BY <3>1, <3>2, <1>r
  <2>3. Elsewhere(c)
      BY <2>1, <1>t DEF Elsewhere
  <2>4. /\ row'[c].st = "in_progress" /\ row'[c].dest = jour[c].dest /\ row'[c].buyer = jour[c].buyer
        /\ row'[c].tries = row[c].tries
      BY <2>1, <1>t DEF Row
  <2>5. /\ row[c].tries = {} /\ Len(sent[c]) = 1 /\ sent[c] # <<>>
        /\ sent[c][1] = [num |-> jour[c].dest, buyer |-> jour[c].buyer]
      BY <2>1, <1>s DEF Remembers
  <2>6. ToSet(sent[c]) = {sent[c][1]} /\ Last(sent[c]) = sent[c][1] /\ sent[c][1] \in Miss
      BY <2>5, <1>t DEF ToSet, Last
  <2>7. row'[c].dest # None
      BY <2>4, <2>5, <2>6, <1>t DEF Miss
  <2>8. Stage(c)'
    <3>1. sw[c] # "new" /\ sw[c] # "asked"
        BY <2>1, <1>s DEF Stage, NoEntry
    <3> QED BY <2>1, <2>4, <3>1, <1>s DEF Stage
  <2>9. Remembers(c)'
      BY <2>1, <2>4, <2>5, <2>6, <2>7 DEF Remembers, OnLine
  <2> QED BY <2>1, <2>2, <2>3, <2>8, <2>9, <1>t, CallStep
<1>5. CASE Answer(c) \/ RingsOut(c) \/ NoNextLine(c) \/ HangUp(c)
  <2>1. /\ \E s \in {"talks", "missed", "ended"} : /\ sw' = [sw EXCEPT ![c] = s]
                                                   /\ s = "missed" => jour[c].src # "a"
        /\ sw[c] \in {"rings", "missed", "talks"}
        /\ Quiet /\ UNCHANGED <<row, jour, rotB, rotA, sent>>
        /\ talked' \subseteq Call /\ refused' \subseteq Call
      BY <1>5, <1>t DEF Answer, RingsOut, NoNextLine, HangUp
  <2>2. sw' \in [Call -> {"new", "asked", "rings", "missed", "talks", "ended", "over"}]
      BY <2>1, <1>t
  <2>3. Elsewhere(c)
      BY <2>1, <1>t DEF Elsewhere
  <2>4. sw'[c] \in {"talks", "missed", "ended"} /\ (sw'[c] = "missed" => jour[c].src # "a")
      BY <2>1, <1>t
  <2>5. Stage(c)' /\ Remembers(c)'
      BY <2>1, <2>4, <1>s DEF Stage, Remembers, OnLine
  <2> QED BY <2>1, <2>2, <2>3, <2>5, <1>t, CallStep
<1>6. CASE Report(c)
  <2>1. /\ row' = [row EXCEPT ![c].st = IF c \in talked THEN "completed" ELSE "no_answer"]
        /\ sw' = [sw EXCEPT ![c] = "over"] /\ row[c].st = "in_progress"
        /\ Quiet /\ UNCHANGED <<jour, talked, rotB, rotA, sent, refused>>
      BY <1>6 DEF Report
  <2>2. row' \in [Call -> Row] /\ sw' \in [Call -> {"new", "asked", "rings", "missed", "talks", "ended", "over"}]
      BY <2>1, <1>t DEF Row
  <2>3. Elsewhere(c)
      BY <2>1, <1>t DEF Elsewhere
  <2>4. /\ row'[c].st \in {"completed", "no_answer"} /\ row'[c].dest = row[c].dest /\ row'[c].buyer = row[c].buyer
        /\ row'[c].tries = row[c].tries /\ sw'[c] = "over"
      BY <2>1, <1>t DEF Row
  <2>5. Stage(c)' /\ Remembers(c)'
      BY <2>1, <2>4, <1>s DEF Stage, Remembers, OnLine
  <2> QED BY <2>1, <2>2, <2>3, <2>5, <1>t, CallStep
<1> QED BY <1>1, <1>2, <1>3, <1>4, <1>5, <1>6

(* What a decision gives, of what was asked with the places at hand. *)
LEMMA Decided ==
    ASSUME ChoiceTypes, NEW places, Places(places), NEW turns, Turns(turns), NEW x, NEW o \in Routes(places, x)
    PROVE  /\ o.line \in RuleLine /\ Places(o.places) /\ Fits(o, x) /\ (RunRules(places, x) # {} => o.held = x)
           /\ Dialled(o, turns).num \in Number /\ Turns(Dialled(o, turns).turns)
           /\ [num |-> Dialled(o, turns).num, buyer |-> o.line.buyer] \in Miss
           /\ o.held.only = None => Dialled(o, turns).num \notin o.held.nums
           /\ o.held.only # None => Dialled(o, turns).num = o.held.only
<1>1. plan \in Plans
    BY DEF ChoiceTypes, ChoiceTypeOK
<1>2. Fits(o, x) /\ (RunRules(places, x) # {} => o.held = x)
    BY <1>1, RoutesFit
<1>3. o.line \in RuleLine /\ Allowed(o.line, o.held) /\ Places(o.places)
    BY <1>2 DEF Fits
<1>4. o.line.buyer \in Buyer
    BY <1>3 DEF RuleLine
<1> DEFINE d == Dialled(o, turns)
<1>5. /\ d.num \in Number /\ Turns(d.turns)
      /\ o.held.only = None => d.num \notin o.held.nums
      /\ o.held.only # None => d.num = o.held.only
    BY <1>3, DialledFits
<1> HIDE DEF d
<1>6. [num |-> d.num, buyer |-> o.line.buyer] \in Miss
    BY <1>4, <1>5 DEF Miss
<1> QED BY <1>2, <1>3, <1>5, <1>6 DEF d

(* B's first decision of a call. *)
LEMMA RouteBStep ==
    ASSUME ChoiceInv, NEW c \in Call, RouteB(c)
    PROVE  ChoiceInv'
<1>t. ChoiceTypes /\ Turns(turnB) /\ Places(rrB)
    BY DEF ChoiceInv, ChoiceTypes
<1>u. /\ row \in [Call -> Row] /\ jour \in [Call -> Entry] /\ sent \in [Call -> Seq(Miss)]
      /\ sw \in [Call -> {"new", "asked", "rings", "missed", "talks", "ended", "over"}]
      /\ talked \subseteq Call /\ refused \subseteq Call
      /\ row[c].st \in {"none", "ringing", "in_progress", "no_answer", "completed"}
      /\ row[c] \in Row /\ row[c].dest \in Number \cup {None} /\ row[c].buyer \in Buyer \cup {None} /\ row[c].tries \subseteq Miss
      /\ jour[c] \in Entry /\ sent[c] \in Seq(Miss) /\ MaxSent \in Nat /\ 1 <= MaxSent /\ None \notin Number
      /\ \A t \in Seq(Miss) : [sent EXCEPT ![c] = t] \in [Call -> Seq(Miss)]
    BY <1>t, CallTypes
<1>1. PICK o \in Routes(rrB, HeldB({})) :
         /\ row' = [row EXCEPT ![c].st = "in_progress", ![c].dest = Dialled(o, turnB).num, ![c].buyer = o.line.buyer]
         /\ jour' \in {jour, [jour EXCEPT ![c] = [src |-> "b", dest |-> Dialled(o, turnB).num,
                                                  buyer |-> o.line.buyer]]}
         /\ turnB' = Dialled(o, turnB).turns /\ rrB' = o.places
         /\ Send(c, Dialled(o, turnB).num, o.line.buyer)
    BY DEF RouteB
<1>2. /\ sw[c] = "asked" /\ sw' = [sw EXCEPT ![c] = "rings"]
      /\ Quiet /\ UNCHANGED <<talked, rotA, refused>>
    BY DEF RouteB
<1> DEFINE d == Dialled(o, turnB)
           m == [num |-> d.num, buyer |-> o.line.buyer]
           e == [src |-> "b", dest |-> d.num, buyer |-> o.line.buyer]
<1>3. o.line \in RuleLine /\ Places(o.places) /\ d.num \in Number /\ Turns(d.turns) /\ m \in Miss
    BY <1>1, <1>t, Decided
<1>4. row' = [row EXCEPT ![c].st = "in_progress", ![c].dest = d.num, ![c].buyer = o.line.buyer]
    BY <1>1
<1>5. jour' \in {jour, [jour EXCEPT ![c] = e]}
    BY <1>1
<1>6. turnB' = d.turns /\ rrB' = o.places /\ sent' = [sent EXCEPT ![c] = Append(sent[c], m)]
    BY <1>1 DEF Send
<1> HIDE DEF d
<1>7. o.line.buyer \in Buyer
    BY <1>3 DEF RuleLine
<1>8. row[c].st = "ringing" /\ jour[c] = NoEntry /\ row[c].dest = None /\ row[c].tries = {} /\ sent[c] = <<>>
    BY <1>2 DEF ChoiceInv, Stage, Remembers
<1>9. /\ Append(sent[c], m) \in Seq(Miss) /\ Append(sent[c], m) # <<>> /\ Len(Append(sent[c], m)) = 1
      /\ Last(Append(sent[c], m)) = m /\ ToSet(Append(sent[c], m)) = {m} /\ Append(sent[c], m)[1] = m
  <2> DEFINE t == Append(sent[c], m)
  <2>1. ToSet(sent[c]) = {} /\ Len(sent[c]) = 0
      BY <1>8 DEF ToSet
  <2>2. t \in Seq(Miss) /\ t # <<>> /\ Len(t) = Len(sent[c]) + 1 /\ Last(t) = m /\ ToSet(t) = ToSet(sent[c]) \cup {m}
      BY <1>u, <1>3, SentOn
  <2>3. t[1] = m
      BY <1>u, <1>3, <1>8, SentOn
  <2> HIDE DEF t
  <2>4. t \in Seq(Miss) /\ t # <<>> /\ Len(t) = 1 /\ Last(t) = m /\ ToSet(t) = {m} /\ t[1] = m
      BY <2>1, <2>2, <2>3
  <2> QED BY <2>4 DEF t
<1>10. /\ row'[c].st = "in_progress" /\ row'[c].dest = d.num /\ row'[c].buyer = o.line.buyer /\ row'[c].tries = {}
       /\ row' \in [Call -> Row]
  <2> DEFINE r == [row[c] EXCEPT !.st = "in_progress", !.dest = d.num, !.buyer = o.line.buyer]
  <2>1. r \in Row
      BY <1>3, <1>7, <1>u DEF Row
  <2>2. row' = [row EXCEPT ![c] = r]
      BY <1>4, <1>u
  <2>3. r.st = "in_progress" /\ r.dest = d.num /\ r.buyer = o.line.buyer /\ r.tries = {}
      BY <1>8, <1>u DEF Row
  <2> HIDE DEF r
  <2> QED BY <2>1, <2>2, <2>3, <1>u
<1>11. (jour'[c] = NoEntry \/ jour'[c] = e) /\ jour' \in [Call -> Entry]
  <2>1. e \in Entry
      BY <1>3, <1>7 DEF Entry
  <2> HIDE DEF e
  <2> QED BY <2>1, <1>5, <1>8, <1>u
<1>12. sw'[c] = "rings" /\ sw' \in [Call -> {"new", "asked", "rings", "missed", "talks", "ended", "over"}]
    BY <1>2, <1>u
<1> DEFINE t == Append(sent[c], m)
<1>13. sent'[c] = t /\ sent' \in [Call -> Seq(Miss)]
    BY <1>6, <1>9, <1>u
<1>14. Elsewhere(c)
    BY <1>2, <1>4, <1>5, <1>6, <1>u DEF Elsewhere
<1>a. /\ t # <<>> /\ Len(t) = 1 /\ Last(t) = m /\ ToSet(t) = {m} /\ t[1] = m
    BY <1>9
<1> HIDE DEF t
<1>15. Stage(c)'
    BY <1>10, <1>11, <1>12 DEF Stage, NoEntry
<1>16. Remembers(c)'
    BY <1>3, <1>10, <1>11, <1>13, <1>a, <1>u DEF Remembers, OnLine, NoEntry
<1>17. Turns(turnB') /\ Places(rrB') /\ rotA' = rotA
    BY <1>2, <1>3, <1>6
<1>18. Len(sent'[c]) <= MaxSent
    BY <1>13, <1>a, <1>u
<1> QED BY <1>2, <1>10, <1>11, <1>12, <1>13, <1>14, <1>15, <1>16, <1>17, <1>18, <1>u, CallStep

(* A decides alone. *)
LEMMA RouteAStep ==
    ASSUME ChoiceInv, NEW c \in Call, RouteA(c)
    PROVE  ChoiceInv'
<1>t. ChoiceTypes /\ Turns(turnA) /\ Places(rrA)
    BY DEF ChoiceInv, ChoiceTypes
<1>u. /\ row \in [Call -> Row] /\ jour \in [Call -> Entry] /\ sent \in [Call -> Seq(Miss)]
      /\ sw \in [Call -> {"new", "asked", "rings", "missed", "talks", "ended", "over"}]
      /\ talked \subseteq Call /\ refused \subseteq Call
      /\ jour[c] \in Entry /\ sent[c] \in Seq(Miss) /\ MaxSent \in Nat /\ 1 <= MaxSent /\ None \notin Number
      /\ \A t \in Seq(Miss) : [sent EXCEPT ![c] = t] \in [Call -> Seq(Miss)]
    BY <1>t, CallTypes
<1>1. PICK o \in Routes(rrA, HeldA) :
         /\ jour' = [jour EXCEPT ![c] = [src |-> "a", dest |-> Dialled(o, turnA).num, buyer |-> o.line.buyer]]
         /\ turnA' = Dialled(o, turnA).turns /\ rrA' = o.places
         /\ Send(c, Dialled(o, turnA).num, o.line.buyer)
    BY DEF RouteA
<1>2. /\ sw[c] = "new" /\ sw' = [sw EXCEPT ![c] = "rings"]
      /\ Quiet /\ UNCHANGED <<row, talked, rotB, refused>>
    BY DEF RouteA
<1> DEFINE d == Dialled(o, turnA)
           m == [num |-> d.num, buyer |-> o.line.buyer]
           e == [src |-> "a", dest |-> d.num, buyer |-> o.line.buyer]
<1>3. o.line \in RuleLine /\ Places(o.places) /\ d.num \in Number /\ Turns(d.turns) /\ m \in Miss
    BY <1>1, <1>t, Decided
<1>5. jour' = [jour EXCEPT ![c] = e]
    BY <1>1
<1>6. turnA' = d.turns /\ rrA' = o.places /\ sent' = [sent EXCEPT ![c] = Append(sent[c], m)]
    BY <1>1 DEF Send
<1> HIDE DEF d
<1>7. o.line.buyer \in Buyer
    BY <1>3 DEF RuleLine
<1>8. row[c] = NoRow /\ sent[c] = <<>>
    BY <1>2 DEF ChoiceInv, Stage
<1>9. /\ Append(sent[c], m) \in Seq(Miss) /\ Append(sent[c], m) # <<>> /\ Len(Append(sent[c], m)) = 1
      /\ Append(sent[c], m)[1] = m
  <2>1. Len(sent[c]) = 0
      BY <1>8
  <2> QED BY <2>1, <1>u, <1>3, <1>8, SentOn
<1>11. jour'[c] = e /\ jour' \in [Call -> Entry]
    BY <1>3, <1>5, <1>7, <1>u DEF Entry
<1>12. sw'[c] = "rings" /\ sw' \in [Call -> {"new", "asked", "rings", "missed", "talks", "ended", "over"}]
    BY <1>2, <1>u
<1> DEFINE t == Append(sent[c], m)
<1>13. sent'[c] = t /\ sent' \in [Call -> Seq(Miss)]
    BY <1>6, <1>9, <1>u
<1>14. Elsewhere(c)
    BY <1>2, <1>5, <1>6, <1>u DEF Elsewhere
<1>a. t # <<>> /\ Len(t) = 1 /\ t[1] = m
    BY <1>9
<1> HIDE DEF t
<1>15. Stage(c)'
    BY <1>11, <1>12 DEF Stage
<1>16. Remembers(c)'
  <2>1. row'[c] = NoRow
      BY <1>2, <1>8
  <2> QED BY <2>1, <1>11, <1>13, <1>a DEF Remembers, NoRow
<1>17. Turns(turnA') /\ Places(rrA') /\ rotB' = rotB
    BY <1>2, <1>3, <1>6
<1>18. Len(sent'[c]) <= MaxSent
    BY <1>13, <1>a, <1>u
<1> QED BY <1>2, <1>11, <1>12, <1>13, <1>14, <1>15, <1>16, <1>17, <1>18, <1>u, CallStep

(* The next line of a call that was missed. *)
LEMMA NextLineStep ==
    ASSUME ChoiceInv, NEW c \in Call, NextLine(c)
    PROVE  ChoiceInv'
<1>t. ChoiceTypes /\ Turns(turnB) /\ Places(rrB)
    BY DEF ChoiceInv, ChoiceTypes
<1>u. /\ row \in [Call -> Row] /\ jour \in [Call -> Entry] /\ sent \in [Call -> Seq(Miss)]
      /\ sw \in [Call -> {"new", "asked", "rings", "missed", "talks", "ended", "over"}]
      /\ talked \subseteq Call /\ refused \subseteq Call
      /\ row[c].st \in {"none", "ringing", "in_progress", "no_answer", "completed"}
      /\ row[c] \in Row /\ row[c].dest \in Number \cup {None} /\ row[c].buyer \in Buyer \cup {None} /\ row[c].tries \subseteq Miss
      /\ jour[c] \in Entry /\ sent[c] \in Seq(Miss) /\ Len(sent[c]) \in Nat /\ MaxSent \in Nat /\ None \notin Number
      /\ \A t \in Seq(Miss) : [sent EXCEPT ![c] = t] \in [Call -> Seq(Miss)]
    BY <1>t, CallTypes
<1>1. PICK o \in Routes(rrB, HeldB(Tried(c))) :
         /\ row' = [row EXCEPT ![c].dest = Dialled(o, turnB).num, ![c].buyer = o.line.buyer,
                               ![c].tries = @ \cup {[num |-> row[c].dest, buyer |-> row[c].buyer]}]
         /\ turnB' = Dialled(o, turnB).turns /\ rrB' = o.places
         /\ Send(c, Dialled(o, turnB).num, o.line.buyer)
    BY DEF NextLine
<1>2. /\ sw[c] = "missed" /\ sw' = [sw EXCEPT ![c] = "rings"] /\ Len(sent[c]) < MaxSent
      /\ Quiet /\ UNCHANGED <<jour, talked, rotA, refused>>
    BY DEF NextLine
<1> DEFINE d == Dialled(o, turnB)
           m == [num |-> d.num, buyer |-> o.line.buyer]
<1>3. o.line \in RuleLine /\ Places(o.places) /\ d.num \in Number /\ Turns(d.turns) /\ m \in Miss
    BY <1>1, <1>t, Decided
<1>4. row' = [row EXCEPT ![c].dest = d.num, ![c].buyer = o.line.buyer,
                         ![c].tries = row[c].tries \cup {OnLine(c)}]
    BY <1>1, <1>u DEF OnLine, Row
<1>6. turnB' = d.turns /\ rrB' = o.places /\ sent' = [sent EXCEPT ![c] = Append(sent[c], m)]
    BY <1>1 DEF Send
<1> HIDE DEF d
<1>7. o.line.buyer \in Buyer
    BY <1>3 DEF RuleLine
<1>8. /\ row[c].st = "in_progress" /\ jour[c].src # "a" /\ row[c].dest # None
      /\ sent[c] # <<>> /\ Last(sent[c]) = OnLine(c) /\ ToSet(sent[c]) = {OnLine(c)} \cup row[c].tries
      /\ jour[c].src # "none" => sent[c][1] = [num |-> jour[c].dest, buyer |-> jour[c].buyer]
    BY <1>2 DEF ChoiceInv, Stage, Remembers
<1> DEFINE t == Append(sent[c], m)
<1>9. /\ t \in Seq(Miss) /\ t # <<>> /\ Len(t) = Len(sent[c]) + 1
      /\ Last(t) = m /\ ToSet(t) = ToSet(sent[c]) \cup {m} /\ t[1] = sent[c][1]
    BY <1>u, <1>3, <1>8, SentOn
<1> HIDE DEF t
<1>b. OnLine(c) \in Miss
  <2>1. Len(sent[c]) \in DOMAIN sent[c]
      BY <1>u, <1>8
  <2>2. Last(sent[c]) \in Miss
      BY <2>1, <1>u DEF Last
  <2> QED BY <2>2, <1>8
<1>10. /\ row'[c].st = "in_progress" /\ row'[c].dest = d.num /\ row'[c].buyer = o.line.buyer
       /\ row'[c].tries = row[c].tries \cup {OnLine(c)}
       /\ row' \in [Call -> Row]
  <2> DEFINE T == row[c].tries \cup {OnLine(c)}
             r == [row[c] EXCEPT !.dest = d.num, !.buyer = o.line.buyer, !.tries = T]
  <2>0. T \in SUBSET Miss /\ row[c] \in Row
      BY <1>b, <1>u
  <2>2. row' = [row EXCEPT ![c] = r]
      BY <1>4, <1>u
  <2>a. r.tries = row[c].tries \cup {OnLine(c)}
      BY <2>0 DEF Row
  <2> HIDE DEF T
  <2>1. r \in Row
      BY <2>0, <1>3, <1>7 DEF Row
  <2>3. /\ r.st = "in_progress" /\ r.dest = d.num /\ r.buyer = o.line.buyer
        /\ r.tries = row[c].tries \cup {OnLine(c)}
      BY <2>0, <2>a, <1>8 DEF Row
  <2> HIDE DEF r
  <2> QED BY <2>1, <2>2, <2>3, <1>u
<1>12. sw'[c] = "rings" /\ sw' \in [Call -> {"new", "asked", "rings", "missed", "talks", "ended", "over"}]
    BY <1>2, <1>u
<1>13. sent'[c] = t /\ sent' \in [Call -> Seq(Miss)]
    BY <1>6, <1>9, <1>u DEF t
<1>14. Elsewhere(c)
    BY <1>2, <1>4, <1>6, <1>u DEF Elsewhere
<1>15. Stage(c)'
    BY <1>10, <1>12 DEF Stage
<1>16. Remembers(c)'
  <2>1. OnLine(c)' = m
      BY <1>10 DEF OnLine
  <2>2. ToSet(t) = {m} \cup row'[c].tries
      BY <1>8, <1>9, <1>10
  <2>3. row'[c].dest # None
      BY <1>3, <1>10, <1>u
  <2> QED BY <2>1, <2>2, <2>3, <1>2, <1>8, <1>9, <1>10, <1>13 DEF Remembers
<1>17. Turns(turnB') /\ Places(rrB') /\ rotA' = rotA
    BY <1>2, <1>3, <1>6
<1>18. Len(sent'[c]) <= MaxSent
    BY <1>2, <1>9, <1>13, <1>u
<1> QED BY <1>2, <1>8, <1>10, <1>12, <1>13, <1>14, <1>15, <1>16, <1>17, <1>18, <1>u, CallStep

(* The invariant holds at the start, and every step keeps it. *)
LEMMA ChoiceStart == ChoiceInit => ChoiceInv
<1> SUFFICES ASSUME ChoiceInit PROVE ChoiceInv
    OBVIOUS
<1> USE DEF ChoiceInit
<1>1. plan \in Plans /\ DOMAIN plan.rules \in SUBSET Nat
    BY PlanParts
<1>2. Turns(turnB) /\ Turns(turnA) /\ Places(rrB) /\ Places(rrA)
    BY DEF Turns, Places
<1>3. <<>> \in Seq(Miss) /\ Len(<<>>) = 0 /\ sent \in [Call -> Seq(Miss)]
    OBVIOUS
<1>4. \A c \in Call : Len(sent[c]) <= MaxSent
    BY <1>3, BoundsAssumption
<1>5. NoRow \in Row /\ NoEntry \in Entry
    BY DEF NoRow, NoEntry, Row, Entry
<1>6. ChoiceTypeOK
  <2>1. /\ \A b \in Buyer : {turnB[b], turnA[b]} \subseteq {0} \cup 1 .. Len(plan.page[b]) - 1
        /\ \A k \in DOMAIN plan.rules : {rrB[k], rrA[k]} \subseteq {0} \cup 1 .. Len(plan.rules[k].lines) - 1
      OBVIOUS
  <2>2. changes \in 0 .. MaxChanges /\ outages \in 0 .. MaxOutages
      BY BoundsAssumption
  <2> QED BY <1>3, <1>4, <1>5, <2>1, <2>2 DEF ChoiceTypeOK
<1>7. ASSUME NEW c \in Call PROVE Stage(c) /\ Remembers(c)
    BY <1>7 DEF Stage, Remembers, NoRow, NoEntry
<1> QED BY <1>2, <1>6, <1>7 DEF ChoiceInv, ChoiceTypes

LEMMA ChoiceStep == ChoiceInv /\ [ChoiceNext]_choiceVars => ChoiceInv'
<1> SUFFICES ASSUME ChoiceInv, [ChoiceNext]_choiceVars PROVE ChoiceInv'
    OBVIOUS
<1>1. ASSUME NEW c \in Call, RouteB(c) PROVE ChoiceInv'
    BY <1>1, RouteBStep
<1>2. ASSUME NEW c \in Call, RouteA(c) PROVE ChoiceInv'
    BY <1>2, RouteAStep
<1>3. ASSUME NEW c \in Call, NextLine(c) PROVE ChoiceInv'
    BY <1>3, NextLineStep
<1>4. ASSUME NEW c \in Call,
             Arrive(c) \/ RefuseB(c) \/ RefuseA(c) \/ Push(c) \/ Answer(c) \/ RingsOut(c) \/ NoNextLine(c)
               \/ HangUp(c) \/ Report(c)
      PROVE  ChoiceInv'
    BY <1>4, StandStep
<1>k. ASSUME UNCHANGED <<plan, mode, row, jour, sw, talked, turnB, turnA, rrB, rrA, sent, refused>>,
             state' \in [Tfn -> {"open", "off", "full", "busy"}], up' \in BOOLEAN,
             changes' \in 0 .. MaxChanges, outages' \in 0 .. MaxOutages
      PROVE  ChoiceInv'
  <2>1. ChoiceTypes'
      BY <1>k DEF ChoiceInv, ChoiceTypes, ChoiceTypeOK, Turns, Places
  <2>2. ASSUME NEW c \in Call PROVE Stage(c)' /\ Remembers(c)'
      BY <1>k, <2>2 DEF ChoiceInv, Stage, Remembers, OnLine
  <2> QED BY <2>1, <2>2 DEF ChoiceInv
<1>b. /\ state \in [Tfn -> {"open", "off", "full", "busy"}] /\ up \in BOOLEAN
      /\ changes \in 0 .. MaxChanges /\ outages \in 0 .. MaxOutages /\ MaxChanges \in Nat /\ MaxOutages \in Nat
    BY BoundsAssumption DEF ChoiceInv, ChoiceTypes, ChoiceTypeOK
<1>5. ASSUME NEW t \in Tfn, Change(t) PROVE ChoiceInv'
  <2>1. state' \in [Tfn -> {"open", "off", "full", "busy"}] /\ changes' \in 0 .. MaxChanges
      BY <1>5, <1>b DEF Change
  <2>2. UNCHANGED <<plan, mode, up, row, jour, sw, talked, turnB, turnA, rrB, rrA, outages, sent, refused>>
      BY <1>5 DEF Change, rotA, rotB
  <2> QED BY <2>1, <2>2, <1>b, <1>k
<1>6. ASSUME Away \/ Back PROVE ChoiceInv'
  <2>1. up' \in BOOLEAN /\ outages' \in 0 .. MaxOutages
    <3>1. ASSUME Away PROVE up' \in BOOLEAN /\ outages' \in 0 .. MaxOutages
      <4>1. up' = FALSE /\ outages < MaxOutages /\ outages' = outages + 1
          BY <3>1 DEF Away
      <4>2. outages' \in 0 .. MaxOutages
          BY <4>1, <1>b
      <4> QED BY <4>1, <4>2
    <3>2. ASSUME Back PROVE up' \in BOOLEAN /\ outages' \in 0 .. MaxOutages
        BY <3>2, <1>b DEF Back
    <3> QED BY <1>6, <3>1, <3>2
  <2>2. UNCHANGED <<plan, mode, state, row, jour, sw, talked, turnB, turnA, rrB, rrA, changes, sent, refused>>
      BY <1>6 DEF Away, Back, rotA, rotB
  <2> QED BY <2>1, <2>2, <1>b, <1>k
<1>7. ASSUME UNCHANGED choiceVars PROVE ChoiceInv'
  <2>1. UNCHANGED <<plan, mode, state, up, row, jour, sw, talked, turnB, turnA, rrB, rrA, changes, outages,
                    sent, refused>>
      BY <1>7 DEF choiceVars
  <2> QED BY <2>1, <1>b, <1>k
<1> QED BY <1>1, <1>2, <1>3, <1>4, <1>5, <1>6, <1>7 DEF ChoiceNext

(* The steps that send a call to a number are a router's decisions. *)
LEMMA ChoiceSends ==
    ASSUME ChoiceInv, [ChoiceNext]_choiceVars, NEW c \in Call, sent'[c] # sent[c]
    PROVE  RouteB(c) \/ RouteA(c) \/ NextLine(c)
<1>s. sent \in [Call -> Seq(Miss)]
    BY DEF ChoiceInv, ChoiceTypes, ChoiceTypeOK
<1>1. ASSUME NEW e \in Call, RouteB(e) \/ RouteA(e) \/ NextLine(e) PROVE e = c
  <2>1. \E s : sent' = [sent EXCEPT ![e] = s]
      BY <1>1 DEF RouteB, RouteA, NextLine, Send
  <2> QED BY <2>1, <1>s
<1>2. ASSUME UNCHANGED sent PROVE FALSE
    BY <1>2
<1>3. ASSUME NEW e \in Call,
             Arrive(e) \/ RefuseB(e) \/ RefuseA(e) \/ Push(e) \/ Answer(e) \/ RingsOut(e) \/ NoNextLine(e)
               \/ HangUp(e) \/ Report(e)
      PROVE  UNCHANGED sent
    BY <1>3 DEF Arrive, RefuseB, RefuseA, Push, Answer, RingsOut, NoNextLine, HangUp, Report
<1>4. ASSUME NEW t \in Tfn, Change(t) PROVE UNCHANGED sent
    BY <1>4 DEF Change
<1>5. ASSUME Away \/ Back \/ UNCHANGED choiceVars PROVE UNCHANGED sent
    BY <1>5 DEF Away, Back, choiceVars
<1>6. \/ \E e \in Call : RouteB(e) \/ RouteA(e) \/ NextLine(e)
      \/ UNCHANGED sent
    BY <1>3, <1>4, <1>5 DEF ChoiceNext
<1> QED BY <1>1, <1>2, <1>6

(* Every choice of a line has its type, for any campaign: the places in    *)
(* the rounds stay on their lists, however lines are filtered out.         *)
THEOREM ChoiceTypesHold == ChoiceSpec => []ChoiceTypeOK
<1>1. ChoiceInv => ChoiceTypeOK
    BY DEF ChoiceInv, ChoiceTypes
<1> QED BY <1>1, ChoiceStart, ChoiceStep, PTL DEF ChoiceSpec

-----------------------------------------------------------------------------
(* The properties of the choice. *)

(* B knows of no number the caller was not sent to, and of every one of a  *)
(* call it has.                                                            *)
LEMMA ReachedIsKnown ==
    ASSUME ChoiceInv
    PROVE  Reached = KnownB
<1>1. ASSUME NEW c \in Call
      PROVE  /\ row[c].dest # None => row[c].st # "none" /\ ToSet(sent[c]) = {OnLine(c)} \cup row[c].tries
             /\ row[c].dest = None => row[c].tries = {} /\ (row[c].st # "none" => sent[c] = <<>>)
    BY DEF ChoiceInv, Remembers
<1>2. Reached \subseteq KnownB
  <2> SUFFICES ASSUME NEW m \in Reached PROVE m \in KnownB
      OBVIOUS
  <2>1. PICK c \in Call : (row[c].dest # None /\ m = OnLine(c)) \/ m \in row[c].tries
      BY DEF Reached, OnLine
  <2>2. row[c].st # "none" /\ m \in ToSet(sent[c])
      BY <1>1, <2>1
  <2> QED BY <2>2 DEF KnownB
<1>3. KnownB \subseteq Reached
  <2> SUFFICES ASSUME NEW m \in KnownB PROVE m \in Reached
      OBVIOUS
  <2>1. PICK c \in Call : row[c].st # "none" /\ m \in ToSet(sent[c])
      BY DEF KnownB
  <2>2. row[c].dest # None
      BY <1>1, <2>1 DEF ToSet
  <2>3. m = OnLine(c) \/ m \in row[c].tries
      BY <1>1, <2>1, <2>2
  <2> QED BY <2>2, <2>3 DEF Reached, OnLine
<1> QED BY <1>2, <1>3

(* Where a decision sends the call. *)
LEMMA SentWhere ==
    ASSUME ChoiceTypes, NEW c \in Call, NEW places, Places(places), NEW turns, Turns(turns), NEW x,
           NEW o \in Routes(places, x), Send(c, Dialled(o, turns).num, o.line.buyer)
    PROVE  /\ x.only = None => Last(sent'[c]).num \notin x.nums
           /\ x.only # None /\ RunRules(places, x) # {} => Last(sent'[c]).num = x.only
<1> DEFINE d == Dialled(o, turns)
           m == [num |-> d.num, buyer |-> o.line.buyer]
<1>1. /\ Fits(o, x) /\ (RunRules(places, x) # {} => o.held = x) /\ m \in Miss
      /\ o.held.only = None => d.num \notin o.held.nums
      /\ o.held.only # None => d.num = o.held.only
    BY Decided
<1>2. sent' = [sent EXCEPT ![c] = Append(sent[c], m)]
    BY DEF Send
<1> HIDE DEF d
<1>3. sent \in [Call -> Seq(Miss)] /\ sent[c] \in Seq(Miss)
    BY CallTypes
<1> DEFINE t == Append(sent[c], m)
<1>4. sent'[c] = t
    BY <1>2, <1>3
<1>5. Last(t) = m
    BY <1>1, <1>3, SentOn
<1> HIDE DEF t
<1>6. Last(sent'[c]).num = d.num
    BY <1>4, <1>5
<1> QED BY <1>1, <1>6 DEF Fits

(* No call rings a number the caller has been sent to, when duplicates go  *)
(* to a different line: over any number of calls, missed and redirected    *)
(* lines and both routers, whatever the router at hand knows of is left    *)
(* out of what it dials.                                                   *)
THEOREM NeverSame == ChoiceSpec => NeverSameTfn
<1>1. ASSUME ChoiceInv, [ChoiceNext]_choiceVars, NEW c \in Call, mode \in Different, sent'[c] # sent[c]
      PROVE  ~Again(c)
  <2>t. ChoiceTypes /\ Turns(turnB) /\ Places(rrB) /\ Turns(turnA) /\ Places(rrA)
      BY <1>1 DEF ChoiceInv, ChoiceTypes
  <2>j. jour \in [Call -> Entry]
      BY <2>t, CallTypes
  <2>m. mode # "original"
      BY <1>1 DEF Different
  <2>b. \A had : HeldB(had).only = None /\ HeldB(had).nums = {m.num : m \in KnownB}
    <3> TAKE had
    <3>1. Reached = KnownB
        BY <1>1, ReachedIsKnown
    <3> QED BY <1>1, <2>m, <3>1 DEF HeldB, Held
  <2>a. HeldA.only = None /\ \A n \in KnownA : n.num \in HeldA.nums
    <3> DEFINE R == {[num |-> jour[d].dest, buyer |-> jour[d].buyer] : d \in Noted}
    <3>1. HeldA.only = None /\ HeldA.nums = {m.num : m \in R}
        BY <1>1, <2>m DEF HeldA, Held
    <3>2. KnownA \subseteq R
      <4> SUFFICES ASSUME NEW m \in KnownA PROVE m \in R
          OBVIOUS
      <4>1. PICK d \in Noted : m = sent[d][1]
          BY DEF KnownA
      <4>2. d \in Call /\ jour[d].src # "none"
          BY DEF Noted
      <4>3. Remembers(d)
          BY <1>1, <4>2 DEF ChoiceInv
      <4>4. sent[d][1] = [num |-> jour[d].dest, buyer |-> jour[d].buyer]
          BY <4>2, <4>3 DEF Remembers
      <4> QED BY <4>1, <4>4
    <3> HIDE DEF R
    <3> QED BY <3>1, <3>2
  <2>1. ASSUME RouteB(c) PROVE ~Again(c)
    <3>1. PICK o \in Routes(rrB, HeldB({})) :
             /\ jour' \in {jour, [jour EXCEPT ![c] = [src |-> "b", dest |-> Dialled(o, turnB).num,
                                                      buyer |-> o.line.buyer]]}
             /\ Send(c, Dialled(o, turnB).num, o.line.buyer)
        BY <2>1 DEF RouteB
    <3>2. jour[c] = NoEntry
        BY <1>1, <2>1 DEF RouteB, ChoiceInv, Stage
    <3>3. jour'[c].src # "a"
        BY <2>j, <3>1, <3>2 DEF NoEntry
    <3>4. Last(sent'[c]).num \notin HeldB({}).nums
        BY <2>t, <2>b, <3>1, SentWhere
    <3> QED BY <2>b, <3>3, <3>4 DEF Again
  <2>2. ASSUME RouteA(c) PROVE ~Again(c)
    <3>1. PICK o \in Routes(rrA, HeldA) :
             /\ jour' = [jour EXCEPT ![c] = [src |-> "a", dest |-> Dialled(o, turnA).num, buyer |-> o.line.buyer]]
             /\ Send(c, Dialled(o, turnA).num, o.line.buyer)
        BY <2>2 DEF RouteA
    <3>3. jour'[c].src = "a"
        BY <2>j, <3>1
    <3>4. Last(sent'[c]).num \notin HeldA.nums
        BY <2>t, <2>a, <3>1, SentWhere
    <3> QED BY <2>a, <3>3, <3>4 DEF Again
  <2>3. ASSUME NextLine(c) PROVE ~Again(c)
    <3>1. PICK o \in Routes(rrB, HeldB(Tried(c))) : Send(c, Dialled(o, turnB).num, o.line.buyer)
        BY <2>3 DEF NextLine
    <3>3. jour'[c].src # "a"
        BY <1>1, <2>3 DEF NextLine, ChoiceInv, Stage
    <3>4. Last(sent'[c]).num \notin HeldB(Tried(c)).nums
        BY <2>t, <2>b, <3>1, SentWhere
    <3> QED BY <2>b, <3>3, <3>4 DEF Again
  <2> QED BY <1>1, <2>1, <2>2, <2>3, ChoiceSends
<1>2. ChoiceInv /\ [ChoiceNext]_choiceVars
        => \A c \in Call : (mode \in Different /\ sent'[c] # sent[c]) => ~Again(c)
    BY <1>1
<1>3. ChoiceInv /\ [ChoiceNext]_choiceVars
        => [\A c \in Call : (mode \in Different /\ sent'[c] # sent[c]) => ~Again(c)]_choiceVars
    BY <1>2
<1> QED BY <1>3, ChoiceStart, ChoiceStep, PTL DEF ChoiceSpec, NeverSameTfn

(* A caller whose last call was answered, and is over, is first sent to    *)
(* the number that answered, when duplicates go to the original line and   *)
(* some rule of the campaign has that line and it can take the call.       *)
THEOREM OriginalStays == ChoiceSpec => OriginalKept
<1> DEFINE Keeps(c) ==
        (/\ mode = "original" /\ sw[c] = "asked" /\ sent'[c] # sent[c]
         /\ AnsweredLast(c) /\ CanTake(Last(sent[c - 1]).num))
            => Last(sent'[c]).num = Last(sent[c - 1]).num
<1>1. ASSUME ChoiceInv, [ChoiceNext]_choiceVars, NEW c \in Call \ {1},
             mode = "original", sw[c] = "asked", sent'[c] # sent[c],
             AnsweredLast(c), CanTake(Last(sent[c - 1]).num)
      PROVE  Last(sent'[c]).num = Last(sent[c - 1]).num
  <2> DEFINE p == c - 1
             n == Last(sent[p]).num
             x == HeldB({})
             dests == [d \in Call |-> row[d].dest]
  <2>t. ChoiceTypes /\ Turns(turnB) /\ Places(rrB) /\ plan \in Plans /\ NCalls \in Nat
      BY <1>1, BoundsAssumption DEF ChoiceInv, ChoiceTypes, ChoiceTypeOK
  <2>1. p \in Call /\ c \in Nat /\ row[p].st = "completed" /\ p < c
      BY <1>1, <2>t DEF AnsweredLast, ChoiceTypes, ChoiceTypeOK, Call
  <2>2. row[p].dest # None /\ n = row[p].dest
    <3>1. Remembers(p)
        BY <1>1, <2>1 DEF ChoiceInv
    <3>2. row[p].dest # None /\ Last(sent[p]) = OnLine(p)
        BY <2>1, <3>1 DEF Remembers
    <3> QED BY <3>2 DEF OnLine
  <2>3. p \in Pins
      BY <2>1, <2>2 DEF Pins
  <2>4. ASSUME NEW d \in Pins PROVE d \in Nat /\ d <= p
    <3>1. d \in Call /\ row[d].st \in {"completed", "in_progress"} /\ row[d].dest # None
        BY DEF Pins
    <3>2. d # c
        BY <1>1, <3>1 DEF ChoiceInv, Stage
    <3>3. ~(d > c)
      <4> SUFFICES ASSUME d > c PROVE FALSE
          OBVIOUS
      <4>1. sw[d] = "new"
          BY <1>1, <3>1 DEF AnsweredLast
      <4> QED BY <1>1, <3>1, <4>1 DEF ChoiceInv, Stage, NoRow
    <3> QED BY <2>1, <2>t, <3>1, <3>2, <3>3 DEF Call
  <2>5. (CHOOSE d \in Pins : \A e \in Pins : e <= d) = p
    <3>1. \A d \in Pins : (\A e \in Pins : e <= d) => d = p
        BY <2>1, <2>3, <2>4
    <3> QED BY <2>3, <2>4, <3>1
  <2>6. n # Blank /\ \E k \in DOMAIN plan.rules : \E l \in ToSet(plan.rules[k].lines) : l.num = n /\ Ready(l)
      BY <1>1 DEF CanTake
  <2>7. dests[p] = n
      BY <2>1, <2>2
  <2> HIDE DEF dests, n
  <2>8. Newest(Pins, dests) = n
      BY <2>3, <2>5, <2>6, <2>7 DEF Newest
  <2>9. x.only = n /\ x.nums = {} /\ x.buyers = {} /\ x.tried = {}
      BY <1>1, <2>8 DEF HeldB, Held, Different, dests
  <2> HIDE DEF x
  <2>10. RunRules(rrB, x) # {}
    <3>1. PICK k \in DOMAIN plan.rules : \E l \in ToSet(plan.rules[k].lines) : l.num = n /\ Ready(l)
        BY <2>6
    <3>2. PICK l \in ToSet(plan.rules[k].lines) : l.num = n /\ Ready(l)
        BY <3>1
    <3>3. Allowed(l, x)
        BY <2>9, <3>2 DEF Allowed
    <3> QED BY <2>t, <3>2, <3>3, RunHasOne
  <2>11. RouteB(c)
    <3>1. ~RouteA(c) /\ ~NextLine(c)
        BY <1>1 DEF RouteA, NextLine
    <3> QED BY <1>1, <3>1, ChoiceSends
  <2>12. PICK o \in Routes(rrB, x) : Send(c, Dialled(o, turnB).num, o.line.buyer)
      BY <2>11 DEF RouteB, x
  <2>13. n # None
      BY <2>2 DEF n
  <2>14. Last(sent'[c]).num = n
      BY <2>t, <2>9, <2>10, <2>12, <2>13, SentWhere
  <2> QED BY <2>14 DEF n
<1>2. ChoiceInv /\ [ChoiceNext]_choiceVars => \A c \in Call \ {1} : Keeps(c)
    BY <1>1
<1>3. ChoiceInv /\ [ChoiceNext]_choiceVars => [\A c \in Call \ {1} : Keeps(c)]_choiceVars
    BY <1>2
<1> QED BY <1>3, ChoiceStart, ChoiceStep, PTL DEF ChoiceSpec, OriginalKept

(* A decision without a choice left no line that can take the call, but    *)
(* the ones it was told to stay away from.                                 *)
LEMMA NoneFits ==
    ASSUME plan \in Plans, NEW places, Places(places), NEW x, Routes(places, x) = {},
           NEW k \in DOMAIN plan.rules, NEW l \in ToSet(plan.rules[k].lines), Ready(l)
    PROVE  l.num \in x.tried \/ l.num \in x.nums \/ l.buyer \in x.buyers
<1>1. CASE x.only # None
  <2>1. RunRules(places, Free(x.tried)) = {}
      BY <1>1 DEF Routes
  <2>2. ~Allowed(l, Free(x.tried))
      BY <2>1, RunHasOne
  <2> QED BY <2>2 DEF Allowed, Free
<1>2. CASE x.only = None
  <2>1. RunRules(places, x) = {}
      BY <1>2 DEF Routes
  <2>2. ~Allowed(l, x)
      BY <2>1, RunHasOne
  <2> QED BY <1>2, <2>2 DEF Allowed
<1> QED BY <1>1, <1>2

(* B refuses a call, or has no next line for it, only when no rule has a   *)
(* line that could take it and that has not had it.                        *)
THEOREM RefusedWhenNoneLeft == ChoiceSpec => RefusedOnlyWhenNoneLeft
<1> DEFINE Had(c) == \A k \in DOMAIN plan.rules :
                         \A l \in ToSet(plan.rules[k].lines) : Ready(l) => HadIt(c, l)
<1>1. ASSUME ChoiceInv, [ChoiceNext]_choiceVars, NEW c \in refused' \ refused
      PROVE  Had(c)
  <2>t. ChoiceTypes /\ Places(rrB) /\ plan \in Plans /\ refused \subseteq Call
      BY <1>1 DEF ChoiceInv, ChoiceTypes, ChoiceTypeOK
  <2>1. c \in Call /\ \E T \in {{}, Tried(c)} :
            Routes(rrB, HeldB(T)) = {} /\ (T # {} => sw[c] = "missed")
    <3>1. ASSUME UNCHANGED refused PROVE FALSE
        BY <1>1, <3>1
    <3>2. ASSUME NEW e \in Call,
                 Arrive(e) \/ RouteB(e) \/ RouteA(e) \/ RefuseA(e) \/ Push(e) \/ Answer(e) \/ RingsOut(e)
                   \/ NextLine(e) \/ HangUp(e) \/ Report(e)
          PROVE  UNCHANGED refused
        BY <3>2 DEF Arrive, RouteB, RouteA, RefuseA, Push, Answer, RingsOut, NextLine, HangUp, Report
    <3>3. ASSUME NEW t \in Tfn, Change(t) PROVE UNCHANGED refused
        BY <3>3 DEF Change
    <3>4. ASSUME Away \/ Back \/ UNCHANGED choiceVars PROVE UNCHANGED refused
        BY <3>4 DEF Away, Back, choiceVars
    <3>5. PICK e \in Call : RefuseB(e) \/ NoNextLine(e)
        BY <1>1, <3>1, <3>2, <3>3, <3>4 DEF ChoiceNext
    <3>6. ASSUME RefuseB(e) PROVE e = c /\ Routes(rrB, HeldB({})) = {}
        BY <1>1, <3>6 DEF RefuseB
    <3>7. ASSUME NoNextLine(e) PROVE e = c /\ Routes(rrB, HeldB(Tried(e))) = {} /\ sw[e] = "missed"
        BY <1>1, <3>1, <3>7 DEF NoNextLine
    <3> QED BY <3>5, <3>6, <3>7
  <2>2. PICK T \in {{}, Tried(c)} : Routes(rrB, HeldB(T)) = {} /\ (T # {} => sw[c] = "missed")
      BY <2>1
  <2>3. ASSUME NEW k \in DOMAIN plan.rules, NEW l \in ToSet(plan.rules[k].lines), Ready(l)
        PROVE  HadIt(c, l)
    <3> DEFINE x == HeldB(T)
    <3>1. l.num \in x.tried \/ l.num \in x.nums \/ l.buyer \in x.buyers
        BY <2>t, <2>2, <2>3, NoneFits
    <3>2. Reached = KnownB
        BY <1>1, ReachedIsKnown
    <3>3. /\ x.tried = T
          /\ x.nums = IF mode \in Different THEN {m.num : m \in KnownB} ELSE {}
          /\ x.buyers = IF mode = "different_buyer" THEN {m.buyer : m \in KnownB} ELSE {}
        BY <3>2 DEF HeldB, Held
    <3> HIDE DEF x
    <3>4. ASSUME l.num \in T PROVE \E m \in ToSet(sent[c]) : l.num = m.num
      <4>1. sw[c] = "missed" /\ l.num \in Tried(c)
          BY <2>2, <3>4
      <4>2. ToSet(sent[c]) = {OnLine(c)} \cup row[c].tries
          BY <1>1, <2>1, <4>1 DEF ChoiceInv, Stage, Remembers
      <4>3. l.num = OnLine(c).num \/ \E m \in row[c].tries : l.num = m.num
          BY <4>1 DEF Tried, OnLine
      <4> QED BY <4>2, <4>3
    <3> QED BY <3>1, <3>3, <3>4 DEF HadIt
  <2> QED BY <2>3
<1>2. ChoiceInv /\ [ChoiceNext]_choiceVars => \A c \in refused' \ refused : Had(c)
    BY <1>1
<1>3. ChoiceInv /\ [ChoiceNext]_choiceVars => [\A c \in refused' \ refused : Had(c)]_choiceVars
    BY <1>2
<1> QED BY <1>3, ChoiceStart, ChoiceStep, PTL DEF ChoiceSpec, RefusedOnlyWhenNoneLeft

(* Failover sends a call to a number it has had only through the rotation  *)
(* of a buyer's lines, from a rule line whose own number is new to it.     *)
THEOREM RedialsByRotation == ChoiceSpec => RedialOnlyByRotation
<1> DEFINE had(c) == {m.num : m \in ToSet(sent[c])}
           Rotated(c) ==
               LET last == Last(sent'[c])
               IN (sent'[c] # sent[c] /\ last.num \in had(c)) =>
                     /\ last.num \in Page(last.buyer)
                     /\ \E k \in DOMAIN plan.rules : \E l \in ToSet(plan.rules[k].lines) :
                           l.buyer = last.buyer /\ l.num \notin Page(l.buyer) /\ l.num \notin had(c)
<1>1. ASSUME ChoiceInv, [ChoiceNext]_choiceVars, NEW c \in Call, sent'[c] # sent[c], Last(sent'[c]).num \in had(c)
      PROVE  /\ Last(sent'[c]).num \in Page(Last(sent'[c]).buyer)
             /\ \E k \in DOMAIN plan.rules : \E l \in ToSet(plan.rules[k].lines) :
                   l.buyer = Last(sent'[c]).buyer /\ l.num \notin Page(l.buyer) /\ l.num \notin had(c)
  <2>t. ChoiceTypes /\ Turns(turnB) /\ Places(rrB)
      BY <1>1 DEF ChoiceInv, ChoiceTypes
  <2>s. Stage(c) /\ Remembers(c) /\ sent \in [Call -> Seq(Miss)] /\ sent[c] \in Seq(Miss)
      BY <1>1, <2>t, CallTypes DEF ChoiceInv
  <2>1. ToSet(sent[c]) # {}
      BY <1>1
  <2>2. sent[c] # <<>>
      BY <2>1 DEF ToSet
  <2>3. NextLine(c)
    <3>1. ASSUME RouteB(c) PROVE FALSE
        BY <2>2, <2>s, <3>1 DEF RouteB, Stage, Remembers
    <3>2. ASSUME RouteA(c) PROVE FALSE
        BY <2>2, <2>s, <3>2 DEF RouteA, Stage
    <3> QED BY <1>1, <3>1, <3>2, ChoiceSends
  <2> DEFINE x == HeldB(Tried(c))
  <2>4. PICK o \in Routes(rrB, x) : Send(c, Dialled(o, turnB).num, o.line.buyer)
      BY <2>3 DEF NextLine
  <2>5. had(c) = Tried(c)
    <3>1. ToSet(sent[c]) = {OnLine(c)} \cup row[c].tries
        BY <2>3, <2>s DEF NextLine, Stage, Remembers
    <3> DEFINE S == ToSet(sent[c])
               T == row[c].tries
    <3>2. S = {OnLine(c)} \cup T /\ OnLine(c).num = row[c].dest
        BY <3>1 DEF OnLine
    <3>3. had(c) = {m.num : m \in S} /\ Tried(c) = {row[c].dest} \cup {m.num : m \in T}
        BY DEF Tried
    <3> HIDE DEF S, T, had
    <3>4. {m.num : m \in S} = {row[c].dest} \cup {m.num : m \in T}
        BY <3>2
    <3> QED BY <3>3, <3>4
  <2> DEFINE d == Dialled(o, turnB)
             m == [num |-> d.num, buyer |-> o.line.buyer]
  <2>6. o.line \in RuleLine /\ Fits(o, x) /\ m \in Miss
      BY <2>t, <2>4, Decided
  <2>7. o.held.tried = Tried(c)
      BY <2>6 DEF Fits, Free, HeldB, Held
  <2>8. OfPlan(o.line) /\ Allowed(o.line, o.held)
      BY <2>6 DEF Fits
  <2>9. o.line.num \notin had(c)
      BY <2>5, <2>7, <2>8 DEF Allowed
  <2>10. d.num = o.line.num \/ (o.line.num \notin Page(o.line.buyer) /\ d.num \in Page(o.line.buyer))
      BY <2>t, <2>6, <2>8, DialledFits
  <2>11. sent' = [sent EXCEPT ![c] = Append(sent[c], m)]
      BY <2>4 DEF Send
  <2> HIDE DEF d
  <2> DEFINE t == Append(sent[c], m)
  <2>12. sent'[c] = t
      BY <2>11, <2>s
  <2>13. Last(t) = m
      BY <2>6, <2>s, SentOn
  <2> HIDE DEF t
  <2>14. Last(sent'[c]).num = d.num /\ Last(sent'[c]).buyer = o.line.buyer
      BY <2>12, <2>13
  <2> HIDE DEF had
  <2>15. o.line.num \notin Page(o.line.buyer) /\ d.num \in Page(o.line.buyer)
      BY <1>1, <2>9, <2>10, <2>14
  <2> QED BY <2>8, <2>9, <2>14, <2>15 DEF OfPlan
<1>2. ChoiceInv /\ [ChoiceNext]_choiceVars => \A c \in Call : Rotated(c)
    BY <1>1
<1>3. ChoiceInv /\ [ChoiceNext]_choiceVars => [\A c \in Call : Rotated(c)]_choiceVars
    BY <1>2
<1> QED BY <1>3, ChoiceStart, ChoiceStep, PTL DEF ChoiceSpec, RedialOnlyByRotation
=============================================================================
