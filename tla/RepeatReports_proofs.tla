------------------------ MODULE RepeatReports_proofs ------------------------
(***************************************************************************)
(* The proofs about the tries of a call and their copies in Reports, for   *)
(* any number of tries, of handlers at once and of faults.                 *)
(*                                                                         *)
(* HandlersInv says what each handler holds at each statement.  On it rest *)
(* three invariants, each kept on its own:                                 *)
(*   ReportsInv   a copy that is wrong has a statement ahead that puts it  *)
(*                right, whoever is to execute it;                         *)
(*   KeptInv      a try that is hidden, or that a report is about to save  *)
(*                hidden, has a later try of its call shown;               *)
(*   SingleInv    a call shows one try, and one more for each link that is *)
(*                between its root and its hiding.                         *)
(***************************************************************************)
EXTENDS RepeatReports, FiniteSetTheorems, NaturalsInduction, WellFoundedInduction, TLAPS

(* The handlers that save the whole row they have read. *)
Whole == {"end", "again", "held"}
Created == {c \in Try : row[c].at > 0}

(* A row is numbered in the order of creation, and one that was not        *)
(* created is blank.  A switch report needs a dial, a dial the end of the  *)
(* route request.                                                          *)
Begins(c) ==
    /\ row[c].at <= Cardinality(Created)
    /\ job[c]["route"].at \in {"new", "create"} <=> row[c].at = 0
    /\ row[c].at = 0 => row[c] = NoRow /\ job[c]["sweep"].at = "new"
    /\ dial[c] # "none" => At(c, "route", "done")
    /\ dial[c] = "none" => \A h \in Whole : At(c, h, "new")

(* What each handler holds at each statement. *)
ReadsAt(c, h) ==
    LET j == job[c][h] IN
    /\ j.at = "write" => j.seen.st \in Finished
    /\ j.at \in {"create", "root", "hide", "drop", "decide", "fold"} => h = "route"
    /\ j.at = "save" => h \in Whole \cup {"sweep"}
    /\ j.at = "save" /\ h \in Whole => j.seen.at = row[c].at /\ j.seen.root = row[c].root
    /\ j.at = "save" /\ h \in {"end", "again"} => j.seen.st \in Finished
    /\ j.at = "read" /\ h \in Whole => row[c].st \in Finished
Reads(c) == \A h \in Handler : ReadsAt(c, h)

(* A try gets its root once, from the request that links it to the try     *)
(* before, and from then on both are of one call.                          *)
Links(c) ==
    LET j == job[c]["route"] IN
    /\ row[c].root # None => row[row[c].root].at > 0
    /\ j.at \in {"new", "create", "root"} \/ (j.prev = None /\ j.at # "done") => row[c].root = None
    /\ j.at \in {"root", "hide", "drop"} => j.prev # None
    /\ j.at \in {"create", "root", "hide", "drop"} /\ j.prev # None =>
          /\ row[j.prev].at > 0
          /\ j.head # None /\ row[j.head].at > 0
          /\ SameCall(j.head, j.prev)
          /\ j.at # "create" => row[j.prev].at < row[c].at
    /\ j.at \in {"hide", "drop"} => SameCall(c, j.prev)
    /\ j.at = "new" => j = NewJob

HandlersInv == \A c \in Try : Begins(c) /\ Reads(c) /\ Links(c)

(* A copy of a hidden try is about to be deleted. *)
Hidden(c) ==
    row[c].hid /\ c \notin cut /\ copy[c] # NoCopy =>
        \/ \E d \in Try : At(d, "route", "drop") /\ job[d]["route"].prev = c
        \/ \E h \in Handler : job[c][h].at \in {"check", "clear"}
        \/ /\ dial[c] # "none" /\ row[c].st \in Finished
           /\ c \in queued \/ \E h \in Handler : At(c, h, "read")

(* A copy that is not what a shown try's row says is about to be written. *)
Copied(c) ==
    c \in Shown \ (late \cup cut) /\ row[c].st \in Finished /\ copy[c] # View(row[c]) =>
        \/ c \in queued
        \/ \E h \in Handler : job[c][h].at \in {"read", "write"}
        \/ job[c]["route"].at \in {"hide", "drop", "decide"}

ReportsInv == \A c \in Try : Hidden(c) /\ Copied(c)

(* A try that is hidden, or that a handler is about to hide again. *)
Was(c) == row[c].hid \/ \E h \in Whole : At(c, h, "save") /\ job[c][h].seen.hid

Kept(c) == Was(c) => \E d \in Shown : row[c].at < row[d].at /\ SameCall(c, d)
KeptInv == \A c \in Try : Kept(c)

(* The tries of c's call; the tries that have a root and have not hidden   *)
(* the try before them yet.                                                *)
CallOf(c) == {d \in Try : SameCall(c, d)}
Linking == {d \in Try : At(d, "route", "hide")}

(* A call no two handlers met in shows one try, and one more for each link *)
(* that is under way.                                                      *)
Single(c) ==
    CallOf(c) \cap (twice \cup cut) = {} =>
        Cardinality(CallOf(c) \cap Shown) <= 1 + Cardinality(CallOf(c) \cap Linking)
SingleInv == \A c \in Try : Single(c)

-----------------------------------------------------------------------------
(* One handler of one try takes a step; it goes on to s, is through, or    *)
(* begins with what it has read of its row.                                *)
Turns(c, h) ==
    /\ job' \in [Try -> [Handler -> Job]]
    /\ \A d \in Try, k \in Handler : d # c \/ k # h => job'[d][k] = job[d][k]
Goes(c, h, s) ==
    /\ Turns(c, h) /\ job'[c][h].at = s
    /\ job'[c][h].seen = job[c][h].seen /\ job'[c][h].prev = job[c][h].prev
    /\ job'[c][h].head = job[c][h].head /\ job'[c][h].plain = job[c][h].plain
Ends(c, h) == Turns(c, h) /\ job'[c][h] = DoneJob
Starts(c, h, s, r) ==
    /\ Turns(c, h) /\ job'[c][h].at = s /\ job'[c][h].seen = r
    /\ job'[c][h].prev = None /\ job'[c][h].head = None /\ job'[c][h].plain = FALSE

LEMMA Slot ==
    ASSUME job \in [Try -> [Handler -> Job]], NEW c \in Try, NEW h \in Handler, NEW j \in Job,
           job' = [job EXCEPT ![c][h] = j]
    PROVE  Turns(c, h) /\ job'[c][h] = j
  BY DEF Turns

LEMMA BlankRow == NoRow.at = 0 /\ NoRow.root = None /\ NoRow.hid = FALSE /\ NoRow.st = "none"
  BY DEF NoRow

LEMMA BlankJobs ==
    /\ NewJob.at = "new" /\ NewJob.prev = None /\ NewJob.head = None /\ NewJob.plain = FALSE
    /\ DoneJob.at = "done" /\ DoneJob.prev = None /\ DoneJob.head = None /\ DoneJob.plain = FALSE
  BY DEF NewJob, DoneJob

LEMMA Blanks == Cardinality(Try) \in Nat /\ NoRow \in Row /\ NewJob \in Job /\ DoneJob \in Job
<1>1. Cardinality(Try) \in Nat
    BY TryAssumption, FS_CardinalityType
<1>2. NoRow \in Row
    BY <1>1 DEF NoRow, Row, Reason, Finished
<1> QED BY <1>1, <1>2 DEF NewJob, DoneJob, Job

LEMMA Going ==
    ASSUME job \in [Try -> [Handler -> Job]], NEW c \in Try, NEW h \in Handler, NEW s \in Step \cup {"done"},
           Goto(c, h, s)
    PROVE  /\ s = "done" => Ends(c, h)
           /\ s # "done" => Goes(c, h, s)
<1> DEFINE j == IF s = "done" THEN DoneJob ELSE [job[c][h] EXCEPT !.at = s]
<1>0. job[c][h] \in Job
    OBVIOUS
<1>1. j \in Job
    BY <1>0, Blanks DEF Job
<1>2. job' = [job EXCEPT ![c][h] = j]
    BY DEF Goto
<1>3. /\ s = "done" => j = DoneJob
      /\ s # "done" => /\ j.at = s /\ j.seen = job[c][h].seen /\ j.prev = job[c][h].prev
                       /\ j.head = job[c][h].head /\ j.plain = job[c][h].plain
    BY <1>0 DEF Job
<1> HIDE DEF j
<1>4. Turns(c, h) /\ job'[c][h] = j
    BY <1>1, <1>2, Slot
<1> QED BY <1>3, <1>4 DEF Ends, Goes

(* A newest try, of a set that has one at all. *)
LEMMA NewestIn ==
    ASSUME TypeOK, NEW S \in SUBSET Try, S # {}
    PROVE  Newest(S) \in S /\ \A d \in S : row[d].at <= row[Newest(S)].at
<1> DEFINE N == Cardinality(Try)
<1> DEFINE T == {N - row[d].at : d \in S}
<1>m. N \in Nat /\ \A d \in S : row[d].at \in Nat /\ row[d].at <= N
    BY Blanks DEF TypeOK, Row
<1> HIDE DEF N
<1>1. T \subseteq Nat /\ T # {}
    BY <1>m
<1> HIDE DEF T
<1>2. PICK x \in T : \A y \in T : <<y, x>> \notin OpToRel(<, Nat)
    BY <1>1, NatLessThanWellFounded, WFMin
<1>3. \A y \in T : ~(y < x)
    BY <1>1, <1>2 DEF OpToRel
<1>4. PICK k \in S : x = N - row[k].at
    BY DEF T
<1>5. ASSUME NEW d \in S PROVE row[d].at <= row[k].at
  <2>1. N - row[d].at \in T
      BY DEF T
  <2> QED BY <2>1, <1>3, <1>4, <1>m
<1> QED BY <1>5 DEF Newest

-----------------------------------------------------------------------------
(* What each step makes of the slot of its handler. *)
LinksTo(c, j, at, plain) ==
    /\ j.at = at /\ j.plain = plain /\ j.prev \in Try
    /\ row[j.prev].at > 0 /\ ~row[j.prev].hid
    /\ j.head = Root(row[j.prev], j.prev)

(* Where a handler goes when its copy is done with. *)
After(c, h) == IF h = "route" /\ ~job[c][h].plain THEN Goes(c, h, "fold") ELSE Ends(c, h)

LEMMA RouteCreateMoves ==
    ASSUME TypeOK, NEW c \in Try, RouteCreate(c)
    PROVE  IF job[c]["route"].prev = None THEN Goes(c, "route", "decide") ELSE Goes(c, "route", "root")
<1>1. job \in [Try -> [Handler -> Job]] /\ job[c]["route"] \in Job /\ "route" \in Handler
    BY DEF TypeOK, Handler
<1> QED BY <1>1, Going DEF RouteCreate, At, Continue, Following, Step, AfterMirror, After

LEMMA RouteSendMoves ==
    ASSUME TypeOK, NEW c \in Try, RouteSend(c)
    PROVE  Ends(c, "route")
<1>1. job \in [Try -> [Handler -> Job]] /\ job[c]["route"] \in Job /\ "route" \in Handler
    BY DEF TypeOK, Handler
<1> QED BY <1>1, Going DEF RouteSend, At, Continue, Following, Step, AfterMirror, After

LEMMA RouteRefuseMoves ==
    ASSUME TypeOK, NEW c \in Try, RouteRefuse(c)
    PROVE  Goes(c, "route", "read")
<1>1. job \in [Try -> [Handler -> Job]] /\ job[c]["route"] \in Job /\ "route" \in Handler
    BY DEF TypeOK, Handler
<1> QED BY <1>1, Going DEF RouteRefuse, At, Continue, Following, Step, AfterMirror, After

LEMMA LinkRootMoves ==
    ASSUME TypeOK, NEW c \in Try, LinkRoot(c)
    PROVE  Goes(c, "route", "hide")
<1>1. job \in [Try -> [Handler -> Job]] /\ job[c]["route"] \in Job /\ "route" \in Handler
    BY DEF TypeOK, Handler
<1> QED BY <1>1, Going DEF LinkRoot, At, Continue, Following, Step, AfterMirror, After

LEMMA LinkHideMoves ==
    ASSUME TypeOK, NEW c \in Try, LinkHide(c)
    PROVE  Goes(c, "route", "drop")
<1>1. job \in [Try -> [Handler -> Job]] /\ job[c]["route"] \in Job /\ "route" \in Handler
    BY DEF TypeOK, Handler
<1> QED BY <1>1, Going DEF LinkHide, At, Continue, Following, Step, AfterMirror, After

LEMMA LinkDropMoves ==
    ASSUME TypeOK, NEW c \in Try, LinkDrop(c)
    PROVE  IF job[c]["route"].plain THEN Goes(c, "route", "read") ELSE Goes(c, "route", "decide")
<1>1. job \in [Try -> [Handler -> Job]] /\ job[c]["route"] \in Job /\ "route" \in Handler
    BY DEF TypeOK, Handler
<1> QED BY <1>1, Going DEF LinkDrop, At, Continue, Following, Step, AfterMirror, After

LEMMA HeldRememberMoves ==
    ASSUME TypeOK, NEW c \in Try, HeldRemember(c)
    PROVE  Ends(c, "held")
<1>1. job \in [Try -> [Handler -> Job]] /\ job[c]["held"] \in Job /\ "held" \in Handler
    BY DEF TypeOK, Handler
<1> QED BY <1>1, Going DEF HeldRemember, At, Continue, Following, Step, AfterMirror, After

LEMMA SaveWholeMoves ==
    ASSUME TypeOK, NEW c \in Try, NEW h \in Handler, SaveWhole(c, h)
    PROVE  Goes(c, h, "read")
<1>1. job \in [Try -> [Handler -> Job]] /\ job[c][h] \in Job /\ h \in Handler
    BY DEF TypeOK, Handler
<1> QED BY <1>1, Going DEF SaveWhole, At, Continue, Following, Step, AfterMirror, After

LEMMA SweepSaveMoves ==
    ASSUME TypeOK, NEW c \in Try, SweepSave(c)
    PROVE  Goes(c, "sweep", "read")
<1>1. job \in [Try -> [Handler -> Job]] /\ job[c]["sweep"] \in Job /\ "sweep" \in Handler
    BY DEF TypeOK, Handler
<1> QED BY <1>1, Going DEF SweepSave, At, Continue, Following, Step, AfterMirror, After

LEMMA MirrorWriteMoves ==
    ASSUME TypeOK, NEW c \in Try, NEW h \in Handler, MirrorWrite(c, h)
    PROVE  Goes(c, h, "check")
<1>1. job \in [Try -> [Handler -> Job]] /\ job[c][h] \in Job /\ h \in Handler
    BY DEF TypeOK, Handler
<1> QED BY <1>1, Going DEF MirrorWrite, At, Continue, Following, Step, AfterMirror, After

LEMMA MirrorCheckMoves ==
    ASSUME TypeOK, NEW c \in Try, NEW h \in Handler, MirrorCheck(c, h)
    PROVE  IF row[c].hid THEN Goes(c, h, "clear") ELSE After(c, h)
<1>1. job \in [Try -> [Handler -> Job]] /\ job[c][h] \in Job /\ h \in Handler
    BY DEF TypeOK, Handler
<1> QED BY <1>1, Going DEF MirrorCheck, At, Continue, Following, Step, AfterMirror, After

LEMMA MirrorClearMoves ==
    ASSUME TypeOK, NEW c \in Try, NEW h \in Handler, MirrorClear(c, h)
    PROVE  After(c, h)
<1>1. job \in [Try -> [Handler -> Job]] /\ job[c][h] \in Job /\ h \in Handler
    BY DEF TypeOK, Handler
<1> QED BY <1>1, Going DEF MirrorClear, At, Continue, Following, Step, AfterMirror, After

LEMMA MirrorFailsMoves ==
    ASSUME TypeOK, NEW c \in Try, NEW h \in Handler, MirrorFails(c, h)
    PROVE  After(c, h)
<1>1. job \in [Try -> [Handler -> Job]] /\ job[c][h] \in Job /\ h \in Handler
    BY DEF TypeOK, Handler
<1> QED BY <1>1, Going DEF MirrorFails, At, Continue, Following, Step, AfterMirror, After

LEMMA KilledMoves ==
    ASSUME TypeOK, NEW c \in Try, NEW h \in Handler, Killed(c, h)
    PROVE  Ends(c, h)
<1>1. job \in [Try -> [Handler -> Job]] /\ job[c][h] \in Job /\ h \in Handler
    BY DEF TypeOK, Handler
<1> QED BY <1>1, Going DEF Killed, At, Continue, Following, Step, AfterMirror, After

LEMMA MirrorReadMoves ==
    ASSUME TypeOK, NEW c \in Try, NEW h \in Handler, MirrorRead(c, h)
    PROVE  IF row[c].st \in Finished /\ ~row[c].hid
           THEN /\ Turns(c, h) /\ job'[c][h].at = "write" /\ job'[c][h].seen = row[c]
                /\ job'[c][h].prev = job[c][h].prev /\ job'[c][h].plain = job[c][h].plain
           ELSE IF row[c].st \in Finished THEN Goes(c, h, "clear") ELSE After(c, h)
<1>0. job \in [Try -> [Handler -> Job]] /\ job[c][h] \in Job /\ row[c] \in Row
    BY DEF TypeOK
<1>1. CASE row[c].st \in Finished /\ ~row[c].hid
  <2> DEFINE j == [job[c][h] EXCEPT !.seen = row[c], !.at = "write"]
  <2>1. j \in Job /\ j.at = "write" /\ j.seen = row[c] /\ j.prev = job[c][h].prev /\ j.plain = job[c][h].plain
      BY <1>0 DEF Job, Step
  <2>2. job' = [job EXCEPT ![c][h] = j]
      BY <1>1, <1>0 DEF MirrorRead, Job
  <2> HIDE DEF j
  <2>3. Turns(c, h) /\ job'[c][h] = j
      BY <2>1, <2>2, <1>0, Slot
  <2> QED BY <2>1, <2>3, <1>1
<1>2. CASE ~(row[c].st \in Finished /\ ~row[c].hid)
    BY <1>0, <1>2, Going DEF MirrorRead, Step, AfterMirror, After
<1> QED BY <1>1, <1>2

LEMMA RouteFindMoves ==
    ASSUME TypeOK, NEW c \in Try, RouteFind(c)
    PROVE  /\ Turns(c, "route")
           /\ LET j == job'[c]["route"] IN
              \/ j.at = "create" /\ j.prev = None /\ ~j.plain
              \/ LinksTo(c, j, "create", FALSE)
<1> DEFINE S == {d \in Try : row[d].at > 0 /\ ~row[d].hid}
<1>0. job \in [Try -> [Handler -> Job]] /\ "route" \in Handler
    BY DEF TypeOK, Handler
<1>1. PICK prev \in FindPrev(S) :
        job' = [job EXCEPT ![c]["route"] =
                  [NewJob EXCEPT !.at = "create", !.prev = prev,
                                 !.head = IF prev = None THEN None ELSE Root(row[prev], prev)]]
    BY DEF RouteFind
<1> DEFINE j == [NewJob EXCEPT !.at = "create", !.prev = prev,
                               !.head = IF prev = None THEN None ELSE Root(row[prev], prev)]
<1>2. prev = None \/ prev \in S
    BY NewestIn DEF FindPrev
<1>3. prev # None => prev \in Try /\ Root(row[prev], prev) \in Try
    BY <1>2 DEF TypeOK, Row, Root
<1>4. j \in Job
    BY <1>3, Blanks DEF Job, NewJob, Step
<1>5. job' = [job EXCEPT ![c]["route"] = j]
    BY <1>1
<1>6. (j.at = "create" /\ j.prev = None /\ ~j.plain) \/ LinksTo(c, j, "create", FALSE)
  <2>1. CASE prev = None
      BY <2>1 DEF NewJob
  <2>2. CASE prev # None
      BY <2>2, <1>2, <1>3 DEF LinksTo, NewJob
  <2> QED BY <2>1, <2>2
<1> HIDE DEF j
<1>7. Turns(c, "route") /\ job'[c]["route"] = j
    BY <1>0, <1>4, <1>5, Slot
<1> QED BY <1>6, <1>7

LEMMA RouteFoldMoves ==
    ASSUME TypeOK, NEW c \in Try, RouteFold(c)
    PROVE  \/ Ends(c, "route")
           \/ /\ Turns(c, "route") /\ job[c]["route"].prev = None
              /\ LET j == job'[c]["route"] IN LinksTo(c, j, "root", TRUE) /\ row[j.prev].at < row[c].at
<1> DEFINE S == {d \in Before(c) : ~row[d].hid /\ row[d].why = "refused"}
<1> DEFINE prev == Newest(S)
<1>0. job \in [Try -> [Handler -> Job]] /\ "route" \in Handler /\ job[c]["route"] \in Job
    BY DEF TypeOK, Handler
<1>1. CASE job[c]["route"].prev = None /\ S # {}
  <2> DEFINE j == [job[c]["route"] EXCEPT !.at = "root", !.plain = TRUE, !.prev = prev, !.head = Root(row[prev], prev)]
  <2>1. job' = [job EXCEPT ![c]["route"] = j]
      BY <1>1 DEF RouteFold
  <2>s. S \in SUBSET Try
      BY DEF Before
  <2>p. prev \in S
      BY <1>1, <2>s, NewestIn
  <2>2. prev \in Try /\ row[prev].at > 0 /\ row[prev].at < row[c].at /\ ~row[prev].hid
      BY <2>p DEF Before, TypeOK, Row
  <2> HIDE DEF prev
  <2>3. Root(row[prev], prev) \in Try
      BY <2>2 DEF TypeOK, Row, Root
  <2>4. j \in Job
      BY <1>0, <2>2, <2>3 DEF Job, Step
  <2>5. LinksTo(c, j, "root", TRUE) /\ j.prev = prev
      BY <2>2, <2>3, <1>0, TryAssumption DEF LinksTo, Job
  <2> HIDE DEF j
  <2>6. Turns(c, "route") /\ job'[c]["route"] = j
      BY <1>0, <2>1, <2>4, Slot
  <2> QED BY <1>1, <2>2, <2>5, <2>6
<1>2. CASE ~(job[c]["route"].prev = None /\ S # {})
  <2>1. Goto(c, "route", "done")
      BY <1>2 DEF RouteFold
  <2> QED BY <2>1, <1>0, Going
<1> QED BY <1>1, <1>2

LEMMA StartMoves ==
    ASSUME TypeOK, NEW c \in Try, NEW h \in Handler, NEW seen \in Row, Start(c, h, seen)
    PROVE  Starts(c, h, "save", seen)
<1> DEFINE j == [NewJob EXCEPT !.at = "save", !.seen = seen]
<1>1. j \in Job /\ j.at = "save" /\ j.seen = seen /\ j.prev = None /\ j.head = None /\ j.plain = FALSE
    BY Blanks DEF Job, NewJob, Step
<1>2. job' = [job EXCEPT ![c][h] = j]
    BY DEF Start
<1>3. job \in [Try -> [Handler -> Job]]
    BY DEF TypeOK
<1> HIDE DEF j
<1>4. Turns(c, h) /\ job'[c][h] = j
    BY <1>1, <1>2, <1>3, Slot
<1> QED BY <1>1, <1>4 DEF Starts

LEMMA WorkerTakeMoves ==
    ASSUME TypeOK, NEW c \in Try, WorkerTake(c)
    PROVE  Starts(c, "worker", "read", NoRow)
<1> DEFINE j == [NewJob EXCEPT !.at = "read"]
<1>1. j \in Job /\ j.at = "read" /\ j.seen = NoRow /\ j.prev = None /\ j.head = None /\ j.plain = FALSE
    BY Blanks DEF Job, NewJob, Step
<1>2. job' = [job EXCEPT ![c]["worker"] = j]
    BY DEF WorkerTake
<1>3. job \in [Try -> [Handler -> Job]] /\ "worker" \in Handler
    BY DEF TypeOK, Handler
<1> HIDE DEF j
<1>4. Turns(c, "worker") /\ job'[c]["worker"] = j
    BY <1>1, <1>2, <1>3, Slot
<1> QED BY <1>1, <1>4 DEF Starts

(* A report reads a row, and saves a finished one of the same try. *)
OfRow(r, c) == r \in Row /\ r.at = row[c].at /\ r.root = row[c].root /\ r.hid = row[c].hid

LEMMA EndReadMoves ==
    ASSUME TypeOK, NEW c \in Try, NEW h \in Handler, EndRead(c, h)
    PROVE  \E r \in Row : /\ OfRow(r, c) /\ r.st \in Finished
                          /\ Starts(c, h, "save", r)
<1>1. row[c] \in Row /\ dial[c] \in DialEnd
    BY DEF TypeOK, EndRead, DialEnd
<1>2. ASSUME NEW why \in Reason
      PROVE  OfRow(Missed(row[c], why), c) /\ Missed(row[c], why).st \in Finished
    BY <1>1 DEF Missed, OfRow, Row, Finished
<1>3. OfRow(Answered(row[c], "swept"), c) /\ Answered(row[c], "swept").st \in Finished
    BY <1>1 DEF Answered, OfRow, Row, Finished, Reason
<1>4. PICK r : Start(c, h, r) /\ (r = Answered(row[c], "swept") \/ (dial[c] # "talk" /\ r = Missed(row[c], dial[c])))
    BY DEF EndRead
<1>5. dial[c] # "talk" => dial[c] \in Reason
    BY <1>1 DEF DialEnd, Reason
<1>6. OfRow(r, c) /\ r.st \in Finished
    BY <1>2, <1>3, <1>4, <1>5
<1>7. r \in Row
    BY <1>6 DEF OfRow
<1>8. Starts(c, h, "save", r)
    BY <1>4, <1>7, StartMoves
<1> QED BY <1>6, <1>7, <1>8

LEMMA HeldReadMoves ==
    ASSUME TypeOK, NEW c \in Try, HeldRead(c)
    PROVE  \/ UNCHANGED job
           \/ \E r \in Row : OfRow(r, c) /\ Starts(c, "held", "save", r)
<1>1. row[c] \in Row /\ "held" \in Handler
    BY DEF TypeOK, Handler
<1>2. OfRow(row[c], c)
    BY <1>1 DEF OfRow
<1>3. OfRow(Answered(row[c], "Not Connected"), c)
    BY <1>1 DEF Answered, OfRow, Row, Finished, Reason
<1>4. UNCHANGED job \/ Start(c, "held", row[c]) \/ Start(c, "held", Answered(row[c], "Not Connected"))
    BY DEF HeldRead
<1>5. row[c] \in Row /\ Answered(row[c], "Not Connected") \in Row
    BY <1>2, <1>3 DEF OfRow
<1> QED BY <1>1, <1>2, <1>3, <1>4, <1>5, StartMoves

LEMMA SweepReadMoves ==
    ASSUME TypeOK, NEW c \in Try, SweepRead(c)
    PROVE  Starts(c, "sweep", "save", row[c])
<1>1. row[c] \in Row /\ "sweep" \in Handler
    BY DEF TypeOK, Handler
<1> QED BY <1>1, StartMoves DEF SweepRead

-----------------------------------------------------------------------------
(* The steps that leave every row. *)
RowKept(c, h) ==
    \/ RouteFind(c) \/ RouteFold(c) \/ LinkDrop(c)
    \/ HeldRead(c) \/ HeldRemember(c) \/ SweepRead(c) \/ WorkerTake(c) \/ EndRead(c, h)
    \/ MirrorRead(c, h) \/ MirrorWrite(c, h) \/ MirrorCheck(c, h) \/ MirrorClear(c, h)
    \/ MirrorFails(c, h) \/ Killed(c, h)

LEMMA RowKeptKeeps == ASSUME NEW c, NEW h, RowKept(c, h) PROVE row' = row
  BY DEF RowKept, RouteFind, RouteFold, LinkDrop, HeldRead, HeldRemember, SweepRead, WorkerTake, EndRead,
         MirrorRead, MirrorWrite, MirrorCheck, MirrorClear, MirrorFails, Killed

(* A row is created as the newest of all. *)
LEMMA Creating ==
    ASSUME TypeOK, HandlersInv, NEW c \in Try, RouteCreate(c)
    PROVE  /\ row[c] = NoRow /\ row[c].at = 0 /\ row[c].root = None /\ row'[c] \in Row /\ row' \in [Try -> Row]
           /\ row'[c].at = 1 + Cardinality(Created) /\ Cardinality(Created) \in Nat
           /\ row'[c].st = "ringing" /\ row'[c].root = None /\ ~row'[c].hid
           /\ \A d \in Try \ {c} : row'[d] = row[d]
           /\ Created' = Created \cup {c} /\ Cardinality(Created') = 1 + Cardinality(Created)
<1>0. row \in [Try -> Row]
    BY DEF TypeOK
<1>1. row[c] = NoRow
    BY DEF HandlersInv, Begins, RouteCreate, At
<1>a. row[c].at = 0 /\ row[c].root = None
    BY <1>1, BlankRow
<1>2. c \notin Created /\ Created \in SUBSET Try
    BY <1>a DEF Created
<1>3. IsFiniteSet(Created) /\ IsFiniteSet(Created \cup {c})
    BY <1>2, TryAssumption, FS_Subset, FS_AddElement
<1>4. /\ Cardinality(Created) \in Nat /\ Cardinality(Created \cup {c}) = 1 + Cardinality(Created)
      /\ Cardinality(Created \cup {c}) <= Cardinality(Try) /\ Cardinality(Try) \in Nat
    BY <1>2, <1>3, TryAssumption, FS_Subset, FS_AddElement, FS_CardinalityType
<1>5. Cardinality({d \in Try : row[d].at > 0}) = Cardinality(Created)
    BY DEF Created
<1>6. row' = [row EXCEPT ![c] = [NoRow EXCEPT !.st = "ringing", !.at = 1 + Cardinality(Created)]]
    BY <1>5 DEF RouteCreate
<1> DEFINE r == [NoRow EXCEPT !.st = "ringing", !.at = 1 + Cardinality(Created)]
<1>7. r \in Row /\ r.at = 1 + Cardinality(Created) /\ r.st = "ringing" /\ r.root = None /\ ~r.hid
  <2>1. 1 + Cardinality(Created) \in 0 .. Cardinality(Try)
      BY <1>4
  <2>2. r.at = 1 + Cardinality(Created) /\ r.st = "ringing" /\ r.root = None /\ ~r.hid
      BY DEF NoRow
  <2> QED BY <2>1, <2>2, Blanks DEF Row
<1> HIDE DEF r
<1>8. row'[c] = r /\ row' \in [Try -> Row] /\ \A d \in Try \ {c} : row'[d] = row[d]
    BY <1>0, <1>6, <1>7 DEF r
<1>9. Created' = Created \cup {c}
    BY <1>4, <1>7, <1>8 DEF Created
<1> QED BY <1>1, <1>a, <1>4, <1>7, <1>8, <1>9

(* A finished row is saved whole: but for its outcome it is the row there. *)
LEMMA SavingWhole ==
    ASSUME TypeOK, HandlersInv, NEW c \in Try, NEW h \in Handler, SaveWhole(c, h)
    PROVE  /\ h \in Whole /\ At(c, h, "save") /\ job[c][h].seen \in Row
           /\ row' \in [Try -> Row]
           /\ row'[c] = job[c][h].seen /\ row'[c].st \in Finished
           /\ row'[c].at = row[c].at /\ row'[c].root = row[c].root
           /\ \A d \in Try \ {c} : row'[d] = row[d]
<1>1. h \in Whole /\ At(c, h, "save") /\ job[c][h].seen \in Row
    BY DEF SaveWhole, Whole, TypeOK, Job
<1>2. job[c][h].seen.at = row[c].at /\ job[c][h].seen.root = row[c].root
    BY <1>1 DEF HandlersInv, Reads, ReadsAt, At
<1>3. row' = [row EXCEPT ![c] = job[c][h].seen] /\ job[c][h].seen.st \in Finished
    BY DEF SaveWhole
<1> QED BY <1>1, <1>2, <1>3 DEF TypeOK

(* What the other saves leave of the rows. *)
LEMMA Sending ==
    ASSUME TypeOK, NEW c \in Try, RouteSend(c) \/ RouteRefuse(c) \/ SweepSave(c)
    PROVE  /\ row' \in [Try -> Row]
           /\ row'[c].st \in Finished \cup {"ringing"}
           /\ RouteRefuse(c) \/ SweepSave(c) => row'[c].st \in Finished
           /\ row'[c].at = row[c].at /\ row'[c].root = row[c].root /\ row'[c].hid = row[c].hid
           /\ \A d \in Try \ {c} : row'[d] = row[d]
<1>1. row \in [Try -> Row]
    BY DEF TypeOK
<1>2. CASE RouteSend(c)
  <2>1. row' = [row EXCEPT ![c].st = "ringing"] /\ ~RouteRefuse(c) /\ (SweepSave(c) => FALSE)
      BY <1>2, <1>1 DEF RouteSend, RouteRefuse, SweepSave, Row
  <2> QED BY <1>1, <2>1 DEF Row
<1>3. CASE RouteRefuse(c)
  <2>1. row' = [row EXCEPT ![c].st = "no_answer", ![c].why = "refused"]
      BY <1>3 DEF RouteRefuse
  <2> QED BY <1>1, <2>1 DEF Row, Finished, Reason
<1>4. CASE SweepSave(c)
  <2>1. row' = [row EXCEPT ![c].st = "no_answer", ![c].why = "swept"]
      BY <1>4 DEF SweepSave
  <2> QED BY <1>1, <2>1 DEF Row, Finished, Reason
<1> QED BY <1>2, <1>3, <1>4

LEMMA Rooting ==
    ASSUME TypeOK, HandlersInv, NEW c \in Try, LinkRoot(c)
    PROVE  /\ row' \in [Try -> Row]
           /\ job[c]["route"].head \in Try /\ row[c].root = None
           /\ row'[c] = [row[c] EXCEPT !.root = job[c]["route"].head]
           /\ row'[c].root = job[c]["route"].head
           /\ row'[c].at = row[c].at /\ row'[c].hid = row[c].hid /\ row'[c].st = row[c].st
           /\ \A d \in Try \ {c} : row'[d] = row[d]
<1>1. row \in [Try -> Row] /\ job[c]["route"] \in Job
    BY DEF TypeOK, Handler
<1>2. job[c]["route"].head \in Try /\ row[c].root = None
    BY <1>1 DEF LinkRoot, At, HandlersInv, Links, Job
<1> QED BY <1>1, <1>2 DEF LinkRoot, Row

LEMMA Hiding ==
    ASSUME TypeOK, HandlersInv, NEW c \in Try, LinkHide(c)
    PROVE  LET p == job[c]["route"].prev IN
           /\ row' \in [Try -> Row]
           /\ p \in Try /\ row[p].at > 0 /\ row[p].at < row[c].at
           /\ row'[p] = [row[p] EXCEPT !.hid = TRUE]
           /\ row'[p].hid /\ row'[p].st = row[p].st /\ row'[p].at = row[p].at /\ row'[p].root = row[p].root
           /\ \A d \in Try \ {p} : row'[d] = row[d]
<1>1. row \in [Try -> Row] /\ job[c]["route"] \in Job
    BY DEF TypeOK, Handler
<1>2. job[c]["route"].prev \in Try /\ row[job[c]["route"].prev].at > 0
          /\ row[job[c]["route"].prev].at < row[c].at
    BY <1>1 DEF LinkHide, At, HandlersInv, Links, Job
<1> QED BY <1>1, <1>2 DEF LinkHide, Row

(* No step changes the number of a created row or takes back a root. *)
LEMMA Steady ==
    ASSUME TypeOK, HandlersInv, [Next]_vars
    PROVE  /\ row' \in [Try -> Row]
           /\ \A e \in Try : /\ row[e].at > 0 => row'[e].at = row[e].at
                             /\ row[e].root # None => row'[e].root = row[e].root
<1> DEFINE G == /\ row' \in [Try -> Row]
                /\ \A e \in Try : /\ row[e].at > 0 => row'[e].at = row[e].at
                                  /\ row[e].root # None => row'[e].root = row[e].root
<1>0. row \in [Try -> Row]
    BY DEF TypeOK
<1>1. ASSUME NEW c \in Try, RouteCreate(c) PROVE G
  <2>1. /\ row' \in [Try -> Row] /\ row[c].at = 0 /\ row[c].root = None
        /\ \A d \in Try \ {c} : row'[d] = row[d]
      BY <1>1, Creating
  <2>2. ~(row[c].at > 0)
      BY <2>1
  <2> QED BY <2>1, <2>2
<1>2. ASSUME NEW c \in Try, RouteSend(c) \/ RouteRefuse(c) \/ SweepSave(c) PROVE G
    BY <1>0, <1>2, Sending
<1>3. ASSUME NEW c \in Try, LinkRoot(c) PROVE G
    BY <1>0, <1>3, Rooting
<1>4. ASSUME NEW c \in Try, LinkHide(c) PROVE G
    BY <1>0, <1>4, Hiding
<1>5. ASSUME NEW c \in Try, NEW h \in Handler, SaveWhole(c, h) PROVE G
    BY <1>0, <1>5, SavingWhole
<1>6. ASSUME NEW c \in Try, NEW h \in Handler, RowKept(c, h) PROVE G
    BY <1>0, <1>6, RowKeptKeeps
<1>7. ASSUME UNCHANGED vars PROVE G
    BY <1>0, <1>7 DEF vars
<1> HIDE DEF G
<1>8. "route" \in Handler
    BY DEF Handler
<1>9. G
  <2>1. CASE Next
    <3>1. PICK c \in Try : Next!(c)
        BY <2>1 DEF Next
    <3> QED BY <1>1, <1>2, <1>3, <1>4, <1>5, <1>6, <1>8, <3>1 DEF RowKept
  <2> QED BY <2>1, <1>7 DEF vars
<1> QED BY <1>9 DEF G

LEMMA TypeStep == TypeOK /\ HandlersInv /\ [Next]_vars => TypeOK'
<1> SUFFICES ASSUME TypeOK, HandlersInv, [Next]_vars PROVE TypeOK'
    OBVIOUS
<1>r. row' \in [Try -> Row]
    BY Steady
<1>h. {"route", "held", "sweep", "worker"} \subseteq Handler
    BY DEF Handler
<1>c. /\ MaxAgain \in Nat /\ MaxHeld \in Nat /\ MaxSwept \in Nat /\ MaxFails \in Nat
      /\ again \in Nat /\ relays \in Nat /\ swept \in Nat /\ fails \in Nat
    BY BoundsAssumption DEF TypeOK
<1>1. ASSUME NEW c \in Try, NEW h \in Handler, Goes(c, h, job'[c][h].at) \/ Ends(c, h) \/ Turns(c, h)
      PROVE  job' \in [Try -> [Handler -> Job]]
    BY <1>1 DEF Goes, Ends, Turns
<1>2. ASSUME NEW c \in Try, RouteFind(c) PROVE TypeOK'
    BY <1>2, <1>r, RouteFindMoves DEF Turns, RouteFind, TypeOK, bounds
<1>3. ASSUME NEW c \in Try, RouteCreate(c) PROVE TypeOK'
    BY <1>3, <1>r, RouteCreateMoves DEF Goes, Turns, RouteCreate, TypeOK, bounds
<1>4. ASSUME NEW c \in Try, RouteSend(c) PROVE TypeOK'
  <2>1. dial' \in [Try -> DialEnd \cup {"none"}]
      BY <1>4 DEF RouteSend, TypeOK
  <2> QED BY <1>4, <2>1, <1>r, RouteSendMoves DEF Ends, Turns, RouteSend, TypeOK, bounds
<1>5. ASSUME NEW c \in Try, RouteRefuse(c) PROVE TypeOK'
    BY <1>5, <1>r, RouteRefuseMoves DEF Goes, Turns, RouteRefuse, TypeOK, bounds
<1>6. ASSUME NEW c \in Try, RouteFold(c) PROVE TypeOK'
    BY <1>6, <1>r, RouteFoldMoves DEF Ends, Turns, RouteFold, TypeOK, bounds
<1>7. ASSUME NEW c \in Try, LinkRoot(c) PROVE TypeOK'
    BY <1>7, <1>r, LinkRootMoves DEF Goes, Turns, LinkRoot, TypeOK, bounds
<1>8. ASSUME NEW c \in Try, LinkHide(c) PROVE TypeOK'
    BY <1>8, <1>r, LinkHideMoves DEF Goes, Turns, LinkHide, TypeOK, bounds
<1>9. ASSUME NEW c \in Try, NEW p \in Try, Clear(p)
      PROVE  copy' \in [Try -> Copy] /\ late' \subseteq Try
    BY <1>9 DEF Clear, TypeOK, NoCopy, Copy
<1>10. ASSUME NEW c \in Try, LinkDrop(c) PROVE TypeOK'
  <2>1. job[c]["route"].prev \in Try
      BY <1>10, <1>h DEF LinkDrop, HandlersInv, Links, At, TypeOK, Job
  <2>2. copy' \in [Try -> Copy] /\ late' \subseteq Try
      BY <1>9, <1>10, <2>1 DEF LinkDrop
  <2> QED BY <1>10, <2>2, <1>r, LinkDropMoves DEF Goes, Turns, LinkDrop, TypeOK, bounds
<1>11. ASSUME NEW c \in Try, HeldRead(c) PROVE TypeOK'
  <2>1. job' \in [Try -> [Handler -> Job]]
      BY <1>11, HeldReadMoves DEF Starts, Turns, TypeOK
  <2>2. /\ relays < MaxHeld /\ relays' = relays + 1
        /\ UNCHANGED <<row, copy, dial, held, queued, again, swept, fails, late, cut, twice>>
      BY <1>11, Zenon DEF HeldRead
  <2>3. relays' \in 0 .. MaxHeld
      BY <2>2, <1>c
  <2> QED BY <1>r, <2>1, <2>2, <2>3 DEF TypeOK
<1>12. ASSUME NEW c \in Try, HeldRemember(c) PROVE TypeOK'
    BY <1>12, <1>r, HeldRememberMoves DEF Ends, Turns, HeldRemember, TypeOK, bounds
<1>13. ASSUME NEW c \in Try, SweepRead(c) PROVE TypeOK'
  <2>1. job' \in [Try -> [Handler -> Job]]
      BY <1>13, SweepReadMoves DEF Starts, Turns
  <2>2. swept' \in 0 .. MaxSwept /\ UNCHANGED <<row, copy, dial, held, queued, again, relays, fails, late, cut, twice>>
      BY <1>13, <1>c DEF SweepRead
  <2> QED BY <1>r, <2>1, <2>2 DEF TypeOK
<1>14. ASSUME NEW c \in Try, SweepSave(c) PROVE TypeOK'
    BY <1>14, <1>r, SweepSaveMoves DEF Goes, Turns, SweepSave, TypeOK, bounds
<1>15. ASSUME NEW c \in Try, WorkerTake(c) PROVE TypeOK'
    BY <1>15, <1>r, WorkerTakeMoves DEF Starts, Turns, WorkerTake, TypeOK, bounds
<1>16. ASSUME NEW c \in Try, NEW h \in Handler, EndRead(c, h) PROVE TypeOK'
  <2>1. job' \in [Try -> [Handler -> Job]]
      BY <1>16, EndReadMoves DEF Starts, Turns
  <2>2. held' \in [Try -> BOOLEAN]
      BY <1>16 DEF EndRead, TypeOK
  <2> QED BY <1>16, <1>r, <1>c, <2>1, <2>2 DEF EndRead, TypeOK
<1>17. ASSUME NEW c \in Try, NEW h \in Handler, SaveWhole(c, h) PROVE TypeOK'
    BY <1>17, <1>r, SaveWholeMoves DEF Goes, Turns, SaveWhole, TypeOK, bounds
<1>18. ASSUME NEW c \in Try, NEW h \in Handler, After(c, h) PROVE job' \in [Try -> [Handler -> Job]]
    BY <1>18 DEF After, Goes, Ends, Turns
<1>19. ASSUME NEW c \in Try, NEW h \in Handler, MirrorRead(c, h) PROVE TypeOK'
  <2>1. job' \in [Try -> [Handler -> Job]]
      BY <1>19, <1>18, MirrorReadMoves DEF Goes, Turns
  <2> QED BY <1>19, <1>r, <2>1 DEF MirrorRead, TypeOK, bounds
<1>20. ASSUME NEW c \in Try, NEW h \in Handler, MirrorWrite(c, h) PROVE TypeOK'
  <2>1. job[c][h].seen \in Row /\ job[c][h].seen.st \in Finished
      BY <1>20 DEF MirrorWrite, At, HandlersInv, Reads, ReadsAt, TypeOK, Job
  <2>2. View(job[c][h].seen) \in Copy
      BY <2>1 DEF View, Copy, Row
  <2>3. copy' \in [Try -> Copy] /\ late' \subseteq Try
      BY <1>20, <2>2 DEF MirrorWrite, TypeOK
  <2> QED BY <1>20, <1>r, <2>3, MirrorWriteMoves DEF Goes, Turns, MirrorWrite, TypeOK, bounds
<1>21. ASSUME NEW c \in Try, NEW h \in Handler, MirrorCheck(c, h) PROVE TypeOK'
  <2>1. job' \in [Try -> [Handler -> Job]]
      BY <1>21, <1>18, MirrorCheckMoves DEF Goes, Turns
  <2> QED BY <1>21, <1>r, <2>1 DEF MirrorCheck, TypeOK, bounds
<1>22. ASSUME NEW c \in Try, NEW h \in Handler, MirrorClear(c, h) PROVE TypeOK'
  <2>1. job' \in [Try -> [Handler -> Job]]
      BY <1>22, <1>18, MirrorClearMoves
  <2>2. copy' \in [Try -> Copy] /\ late' \subseteq Try
      BY <1>9, <1>22 DEF MirrorClear
  <2> QED BY <1>22, <1>r, <2>1, <2>2 DEF MirrorClear, TypeOK, bounds
<1>23. ASSUME NEW c \in Try, NEW h \in Handler, MirrorFails(c, h) PROVE TypeOK'
  <2>1. job' \in [Try -> [Handler -> Job]]
      BY <1>23, <1>18, MirrorFailsMoves
  <2>2. queued' \subseteq Try /\ cut' \subseteq Try
      BY <1>23 DEF MirrorFails, TypeOK
  <2> QED BY <1>23, <1>r, <1>c, <2>1, <2>2 DEF MirrorFails, TypeOK
<1>24. ASSUME NEW c \in Try, NEW h \in Handler, Killed(c, h) PROVE TypeOK'
  <2>1. job[c][h].prev \in Try \cup {None}
      BY DEF TypeOK, Job
  <2>2. cut' \subseteq Try
      BY <1>24, <2>1 DEF Killed, TypeOK
  <2> QED BY <1>24, <1>r, <1>c, <2>2, KilledMoves DEF Ends, Turns, Killed, TypeOK
<1>25. ASSUME UNCHANGED vars PROVE TypeOK'
    BY <1>25 DEF vars, bounds, TypeOK
<1> QED BY <1>2, <1>3, <1>4, <1>5, <1>6, <1>7, <1>8, <1>10, <1>11, <1>12, <1>13, <1>14, <1>15, <1>16, <1>17,
           <1>19, <1>20, <1>21, <1>22, <1>23, <1>24, <1>25 DEF Next

-----------------------------------------------------------------------------
(* Being of one call is an equivalence, and lasts. *)

LEMMA RootIn == ASSUME TypeOK, NEW e \in Try PROVE Root(row[e], e) \in Try
  BY DEF TypeOK, Row, Root

LEMMA SameCallSelf == ASSUME NEW c \in Try PROVE SameCall(c, c)
  BY DEF SameCall

LEMMA SameCallBack ==
    ASSUME TypeOK, NEW c \in Try, NEW d \in Try, SameCall(c, d)
    PROVE  SameCall(d, c)
<1> SUFFICES ASSUME NEW S \in SUBSET Try, d \in S, Closed(S), c \notin S PROVE FALSE
    BY DEF SameCall
<1>1. c \in Try \ S /\ Closed(Try \ S)
    BY RootIn DEF Closed
<1> QED BY <1>1 DEF SameCall

LEMMA SameCallOn ==
    ASSUME NEW c \in Try, NEW d \in Try, NEW e \in Try, SameCall(c, d), SameCall(d, e)
    PROVE  SameCall(c, e)
  BY DEF SameCall

LEMMA SameCallRoot ==
    ASSUME TypeOK, NEW c \in Try
    PROVE  SameCall(c, Root(row[c], c)) /\ SameCall(Root(row[c], c), c)
<1>1. SameCall(c, Root(row[c], c))
    BY DEF SameCall, Closed
<1> QED BY <1>1, RootIn, SameCallBack

LEMMA SameCallLasts ==
    ASSUME \A e \in Try : row[e].root # None => row'[e].root = row[e].root,
           NEW c \in Try, NEW d \in Try, SameCall(c, d)
    PROVE  SameCall(c, d)'
<1>1. ASSUME NEW S \in SUBSET Try, Closed(S)' PROVE Closed(S)
    BY <1>1 DEF Closed, Root
<1> QED BY <1>1 DEF SameCall

LEMMA Lasting ==
    ASSUME TypeOK, HandlersInv, [Next]_vars, NEW c \in Try, NEW d \in Try, SameCall(c, d)
    PROVE  SameCall(c, d)'
  BY Steady, SameCallLasts

-----------------------------------------------------------------------------
(* Begins is kept by a step that creates no row and dials none. *)
LEMMA BeginsFrame ==
    ASSUME TypeOK, HandlersInv, NEW c \in Try, NEW h \in Handler, Turns(c, h),
           \A d \in Try : row'[d].at = row[d].at /\ (row[d].at = 0 => row'[d] = row[d]),
           dial' = dial,
           h = "route" => /\ job[c][h].at \in {"new", "create"} <=> job'[c][h].at \in {"new", "create"}
                          /\ job[c][h].at = "done" => job'[c][h].at = "done",
           h = "sweep" /\ row[c].at = 0 => job'[c][h].at = "new",
           h \in Whole /\ dial[c] = "none" => job'[c][h].at = "new"
    PROVE  \A e \in Try : Begins(e)'
<1> SUFFICES ASSUME NEW e \in Try PROVE Begins(e)'
    OBVIOUS
<1>1. Created' = Created
    BY DEF Created
<1>2. Begins(e) /\ Begins(c) /\ {"route", "sweep"} \cup Whole \subseteq Handler
    BY DEF HandlersInv, Handler, Whole
<1>3. (row[e].at <= Cardinality(Created))'
    BY <1>1, <1>2 DEF Begins
<1>4. (job[e]["route"].at \in {"new", "create"} <=> row[e].at = 0)'
    BY <1>2 DEF Begins, Turns
<1>5. (row[e].at = 0 => row[e] = NoRow /\ job[e]["sweep"].at = "new")'
    BY <1>2 DEF Begins, Turns
<1>6. (dial[e] # "none" => At(e, "route", "done"))'
    BY <1>2 DEF Begins, Turns, At
<1>7. (dial[e] = "none" => \A k \in Whole : At(e, k, "new"))'
    BY <1>2 DEF Begins, Turns, At
<1> QED BY <1>3, <1>4, <1>5, <1>6, <1>7 DEF Begins

(* Reads is kept by a step that leaves what reports have read in place. *)
LEMMA ReadsFrame ==
    ASSUME TypeOK, HandlersInv, NEW c \in Try, NEW h \in Handler, Turns(c, h), ReadsAt(c, h)',
           \A d \in Try : dial[d] # "none" =>
               /\ row'[d].at = row[d].at /\ row'[d].root = row[d].root
               /\ row[d].st \in Finished => row'[d].st \in Finished
    PROVE  \A e \in Try : Reads(e)'
<1> SUFFICES ASSUME NEW e \in Try, NEW k \in Handler, e # c \/ k # h PROVE ReadsAt(e, k)'
    BY DEF Reads
<1>1. job'[e][k] = job[e][k] /\ ReadsAt(e, k) /\ Begins(e)
    BY DEF Turns, HandlersInv, Reads
<1>2. CASE dial[e] # "none"
    BY <1>1, <1>2 DEF ReadsAt
<1>3. CASE dial[e] = "none"
  <2>1. k \in Whole => job[e][k].at = "new"
      BY <1>1, <1>3 DEF Begins, At
  <2> QED BY <1>1, <2>1 DEF ReadsAt, Whole
<1> QED BY <1>2, <1>3

(* Links is kept by a step that gives no try a root. *)
LEMMA LinksFrame ==
    ASSUME TypeOK, HandlersInv, [Next]_vars, NEW c \in Try, NEW h \in Handler, Turns(c, h),
           \A d \in Try : d # c => row'[d].root = row[d].root,
           h # "route" => row'[c].root = row[c].root,
           h = "route" => Links(c)'
    PROVE  \A e \in Try : Links(e)'
<1> SUFFICES ASSUME NEW e \in Try, e # c \/ h # "route" PROVE Links(e)'
    OBVIOUS
<1>1. "route" \in Handler /\ Links(e) /\ Begins(e)
    BY DEF Handler, HandlersInv
<1>2. job'[e]["route"] = job[e]["route"] /\ job[e]["route"] \in Job
    BY <1>1 DEF Turns, TypeOK
<1>3. row'[e].root = row[e].root
    OBVIOUS
<1>4. row[e].root \in Try \cup {None} /\ job[e]["route"].prev \in Try \cup {None}
          /\ job[e]["route"].head \in Try \cup {None}
    BY <1>2 DEF TypeOK, Row, Job
<1>5. \A d \in Try : row[d].at \in Nat /\ (row[d].at > 0 => row'[d].at = row[d].at)
    BY Steady DEF TypeOK, Row
<1>6. row[e].at = 0 => job[e]["route"].at \in {"new", "create"}
    BY <1>1 DEF Begins
<1>7. (row[e].root # None => row[row[e].root].at > 0)'
    BY <1>1, <1>3, <1>4, <1>5 DEF Links
<1>8. \A x, y \in Try : SameCall(x, y) => SameCall(x, y)'
    BY Lasting
<1> DEFINE j == job[e]["route"]
<1>9. (j.at \in {"create", "root", "hide", "drop"} /\ j.prev # None =>
          /\ row[j.prev].at > 0
          /\ j.head # None /\ row[j.head].at > 0
          /\ SameCall(j.head, j.prev)
          /\ j.at # "create" => row[j.prev].at < row[e].at)'
    BY <1>1, <1>2, <1>4, <1>5, <1>6, <1>8 DEF Links
<1>10. (j.at \in {"hide", "drop"} => SameCall(e, j.prev))'
    BY <1>1, <1>2, <1>4, <1>8 DEF Links
<1> QED BY <1>1, <1>2, <1>3, <1>7, <1>9, <1>10 DEF Links

(* What the steps do to the rows of a dialled try. *)
LEMMA Dialled ==
    ASSUME TypeOK, HandlersInv, NEW c \in Try
    PROVE  /\ row[c].at \in Nat
           /\ \A h \in Whole : ~At(c, h, "new") => dial[c] # "none"
           /\ dial[c] # "none" => At(c, "route", "done") /\ row[c].at > 0
           /\ ~At(c, "sweep", "new") => row[c].at > 0
           /\ ~At(c, "route", "new") /\ ~At(c, "route", "create") => row[c].at > 0
           /\ row[c].at > 0 => ~At(c, "route", "new") /\ ~At(c, "route", "create")
           /\ row[c].at = 0 => row[c] = NoRow
<1>1. row[c].at \in Nat /\ Begins(c)
    BY DEF TypeOK, Row, HandlersInv
<1> QED BY <1>1 DEF Begins, At

(* After a copy is done with, the handler reads nothing more. *)
LEMMA AfterFrame ==
    ASSUME TypeOK, HandlersInv, [Next]_vars, NEW c \in Try, NEW h \in Handler, After(c, h),
           row' = row, dial' = dial,
           job[c][h].at \in {"read", "write", "check", "clear"}
    PROVE  HandlersInv'
<1>1. Turns(c, h) /\ job[c][h] \in Job
    BY DEF After, Goes, Ends, TypeOK
<1>2. /\ job'[c][h].at \in {"fold", "done"} /\ (job'[c][h].at = "fold" => h = "route")
    BY BlankJobs DEF After, Goes, Ends
<1>3. Begins(c) /\ Links(c) /\ Reads(c)
    BY DEF HandlersInv
<1>4. \A e \in Try : Begins(e)'
  <2>1. h = "sweep" => row[c].at # 0
      BY <1>3 DEF Begins
  <2>2. h \in Whole => dial[c] # "none"
      BY <1>3 DEF Begins, At
  <2> QED BY <1>1, <1>2, <2>1, <2>2, BeginsFrame
<1>5. \A e \in Try : Reads(e)'
  <2>1. ReadsAt(c, h)'
      BY <1>2 DEF ReadsAt
  <2> QED BY <1>1, <2>1, ReadsFrame
<1>6. \A e \in Try : Links(e)'
  <2>1. h = "route" => Links(c)'
    <3> SUFFICES ASSUME h = "route" PROVE Links(c)'
        OBVIOUS
    <3>1. job'[c]["route"].at \in {"fold", "done"}
            /\ (job'[c]["route"].at = "fold" => job'[c]["route"].prev = job[c]["route"].prev)
        BY <1>2, BlankJobs DEF After, Goes, Ends
    <3> QED BY <1>3, <3>1 DEF Links
  <2> QED BY <1>1, <2>1, LinksFrame
<1> QED BY <1>4, <1>5, <1>6 DEF HandlersInv

(* So is a handler that is through, or another than the route request. *)
LEMMA EndsFrame ==
    ASSUME TypeOK, HandlersInv, [Next]_vars, NEW c \in Try, NEW h \in Handler, Ends(c, h),
           row' = row, dial' = dial, job[c][h].at \notin {"new", "create"}
    PROVE  HandlersInv'
<1>1. Turns(c, h) /\ job[c][h] \in Job
    BY DEF Ends, TypeOK
<1>2. job'[c][h].at = "done" /\ job'[c][h].prev = None
    BY BlankJobs DEF Ends
<1>3. Begins(c) /\ Links(c) /\ Reads(c)
    BY DEF HandlersInv
<1>4. \A e \in Try : Begins(e)'
  <2>1. h = "sweep" => row[c].at # 0
      BY <1>3 DEF Begins
  <2>2. h \in Whole => dial[c] # "none"
      BY <1>3 DEF Begins, At
  <2> QED BY <1>1, <1>2, <2>1, <2>2, BeginsFrame
<1>5. \A e \in Try : Reads(e)'
  <2>1. ReadsAt(c, h)'
      BY <1>2 DEF ReadsAt
  <2> QED BY <1>1, <2>1, ReadsFrame
<1>6. \A e \in Try : Links(e)'
  <2>1. h = "route" => Links(c)'
      BY <1>2, <1>3 DEF Links
  <2> QED BY <1>1, <2>1, LinksFrame
<1> QED BY <1>4, <1>5, <1>6 DEF HandlersInv

(* A handler other than the route request that goes on to a statement      *)
(* after it has begun. *)
LEMMA OtherFrame ==
    ASSUME TypeOK, HandlersInv, [Next]_vars, NEW c \in Try, NEW h \in Handler, Turns(c, h),
           \A d \in Try : /\ row'[d].at = row[d].at /\ row'[d].root = row[d].root
                          /\ row[d].at = 0 => row'[d] = row[d]
                          /\ row[d].st \in Finished => row'[d].st \in Finished,
           dial' = dial, h # "route", ReadsAt(c, h)',
           h = "sweep" => row[c].at > 0,
           h \in Whole => dial[c] # "none"
    PROVE  HandlersInv'
<1>1. row[c].at \in Nat
    BY Dialled
<1>2. \A e \in Try : Begins(e)'
    BY <1>1, BeginsFrame
<1>3. \A e \in Try : Reads(e)'
    BY ReadsFrame
<1>4. \A e \in Try : Links(e)'
    BY LinksFrame
<1> QED BY <1>2, <1>3, <1>4 DEF HandlersInv

-----------------------------------------------------------------------------
LEMMA CreateHandlers ==
    ASSUME TypeOK, HandlersInv, [Next]_vars, NEW c \in Try, RouteCreate(c)
    PROVE  HandlersInv'
<1> DEFINE s == IF job[c]["route"].prev = None THEN "decide" ELSE "root"
<1>1. Goes(c, "route", s) /\ At(c, "route", "create") /\ dial' = dial /\ "route" \in Handler
    BY RouteCreateMoves DEF RouteCreate, Handler
<1>2. /\ row[c].at = 0 /\ row[c].root = None /\ row'[c].root = None
      /\ row'[c].at = 1 + Cardinality(Created) /\ Cardinality(Created) \in Nat
      /\ \A d \in Try \ {c} : row'[d] = row[d]
      /\ Cardinality(Created') = 1 + Cardinality(Created)
    BY Creating
<1>3. Turns(c, "route") /\ dial[c] = "none" /\ \A e \in Try : row[e].at \in Nat
    BY <1>1, <1>2, Dialled DEF Goes
<1>4. ASSUME NEW e \in Try PROVE Begins(e)'
  <2>1. Begins(e) /\ Begins(c) /\ {"route", "sweep"} \cup Whole \subseteq Handler
      BY DEF HandlersInv, Handler, Whole
  <2>2. CASE e = c
    <3>1. job'[c]["route"].at \in {"decide", "root"} /\ \A k \in Handler : k # "route" => job'[c][k] = job[c][k]
        BY <1>1, <1>3 DEF Goes, Turns
    <3> QED BY <1>1, <1>2, <1>3, <2>1, <2>2, <3>1 DEF Begins, At, Whole
  <2>3. CASE e # c
    <3>1. \A k \in Handler : job'[e][k] = job[e][k]
        BY <1>3, <2>3 DEF Turns
    <3>2. row'[e] = row[e] /\ row[e].at <= Cardinality(Created')
        BY <1>2, <1>3, <2>1, <2>3 DEF Begins
    <3> QED BY <1>1, <2>1, <3>1, <3>2 DEF Begins, At, Whole
  <2> QED BY <2>2, <2>3
<1>5. \A e \in Try : Reads(e)'
  <2>1. ReadsAt(c, "route")'
      BY <1>1 DEF Goes, ReadsAt, Whole
  <2>2. \A d \in Try : dial[d] # "none" => row'[d] = row[d]
      BY <1>2, <1>3
  <2> QED BY <1>1, <1>3, <2>1, <2>2, ReadsFrame
<1>6. \A e \in Try : Links(e)'
  <2>1. Links(c) /\ job[c]["route"].prev \in Try \cup {None} /\ job[c]["route"].head \in Try \cup {None}
      BY <1>1 DEF HandlersInv, TypeOK, Job
  <2>2. \A x, y \in Try : SameCall(x, y) => SameCall(x, y)'
      BY Lasting
  <2>3. \A x \in Try : row[x].at > 0 => row'[x].at = row[x].at /\ row'[x].at < row'[c].at
    <3>1. \A x \in Try : row[x].at <= Cardinality(Created)
        BY DEF HandlersInv, Begins
    <3> QED BY <1>2, <1>3, <3>1
  <2> HIDE DEF s
  <2>s. /\ s = "root" => job[c]["route"].prev # None
        /\ s \in {"decide", "root"}
      BY DEF s
  <2>4. Links(c)'
    <3>1. PICK p \in Try \cup {None}, q \in Try \cup {None} : p = job[c]["route"].prev /\ q = job[c]["route"].head
        BY <2>1
    <3>2. p # None => /\ p \in Try /\ row[p].at > 0 /\ q \in Try /\ row[q].at > 0 /\ SameCall(q, p)
        BY <1>1, <2>1, <3>1 DEF Links, At
    <3>3. job'[c]["route"].at = s /\ job'[c]["route"].prev = p /\ job'[c]["route"].head = q
        BY <1>1, <3>1 DEF Goes
    <3>4. p # None => /\ row'[p].at > 0 /\ row'[q].at > 0 /\ row'[p].at < row'[c].at
                      /\ SameCall(q, p)' /\ q # None
        BY <1>3, <2>2, <2>3, <3>2, TryAssumption
    <3> QED BY <1>2, <2>s, <3>1, <3>3, <3>4 DEF Links
  <2> QED BY <1>1, <1>2, <1>3, <2>4, LinksFrame
<1> QED BY <1>4, <1>5, <1>6 DEF HandlersInv

LEMMA SendHandlers ==
    ASSUME TypeOK, HandlersInv, [Next]_vars, NEW c \in Try, RouteSend(c)
    PROVE  HandlersInv'
<1>1. /\ Ends(c, "route") /\ At(c, "route", "decide") /\ "route" \in Handler
      /\ job'[c]["route"].at = "done" /\ job'[c]["route"].prev = None
    BY RouteSendMoves, BlankJobs DEF RouteSend, Handler, Ends
<1>2. /\ row'[c].at = row[c].at /\ row'[c].root = row[c].root
      /\ \A d \in Try \ {c} : row'[d] = row[d]
    BY Sending
<1>3. Turns(c, "route") /\ row[c].at > 0 /\ dial[c] = "none" /\ row[c].at \in Nat
    BY <1>1, Dialled DEF At, Ends
<1>4. dial'[c] # "none" /\ \A d \in Try \ {c} : dial'[d] = dial[d]
    BY DEF RouteSend, TypeOK, DialEnd
<1>5. ASSUME NEW e \in Try PROVE Begins(e)'
  <2>1. Begins(e) /\ Begins(c) /\ {"route", "sweep"} \cup Whole \subseteq Handler
      BY DEF HandlersInv, Handler, Whole
  <2>2. Created' = Created /\ \A k \in Handler : e # c \/ k # "route" => job'[e][k] = job[e][k]
      BY <1>2, <1>3 DEF Created, Turns
  <2>3. CASE e = c
      BY <1>1, <1>2, <1>3, <1>4, <2>1, <2>2, <2>3 DEF Begins, At
  <2>4. CASE e # c
      BY <1>2, <1>4, <2>1, <2>2, <2>4 DEF Begins, At
  <2> QED BY <2>3, <2>4
<1>6. \A e \in Try : Reads(e)'
  <2>1. ReadsAt(c, "route")'
      BY <1>1 DEF ReadsAt, Whole
  <2>2. \A d \in Try : dial[d] # "none" => row'[d] = row[d]
      BY <1>2, <1>3
  <2> QED BY <1>1, <1>3, <2>1, <2>2, ReadsFrame
<1>7. \A e \in Try : Links(e)'
  <2>1. Links(c)' 
    <3>1. Links(c) /\ row[c].root \in Try \cup {None} /\ \A d \in Try : row'[d].at = row[d].at
        BY <1>2 DEF HandlersInv, TypeOK, Row
    <3> QED BY <1>1, <1>2, <3>1 DEF Links
  <2> QED BY <1>1, <1>2, <1>3, <2>1, LinksFrame
<1> QED BY <1>5, <1>6, <1>7 DEF HandlersInv

(* The route request goes on, and saves no more than its own row's root. *)
LEMMA RouteFrame ==
    ASSUME TypeOK, HandlersInv, [Next]_vars, NEW c \in Try, Turns(c, "route"),
           \A d \in Try : /\ row'[d].at = row[d].at
                          /\ d # c => row'[d].root = row[d].root
                          /\ row[d].at = 0 => row'[d] = row[d]
                          /\ dial[d] # "none" => row'[d].root = row[d].root
                                                 /\ (row[d].st \in Finished => row'[d].st \in Finished),
           dial' = dial, job[c]["route"].at # "done",
           job[c]["route"].at \in {"new", "create"} <=> job'[c]["route"].at \in {"new", "create"},
           ReadsAt(c, "route")', Links(c)'
    PROVE  HandlersInv'
<1>1. "route" \in Handler /\ "route" \notin Whole
    BY DEF Handler, Whole
<1>2. \A e \in Try : Begins(e)'
    BY <1>1, BeginsFrame
<1>3. \A e \in Try : Reads(e)'
    BY <1>1, ReadsFrame
<1>4. \A e \in Try : Links(e)'
    BY <1>1, LinksFrame
<1> QED BY <1>2, <1>3, <1>4 DEF HandlersInv

LEMMA FindHandlers ==
    ASSUME TypeOK, HandlersInv, [Next]_vars, NEW c \in Try, RouteFind(c)
    PROVE  HandlersInv'
<1>1. /\ Turns(c, "route") /\ row' = row /\ dial' = dial /\ At(c, "route", "new")
      /\ job'[c]["route"].at = "create"
      /\ \/ job'[c]["route"].prev = None
         \/ LinksTo(c, job'[c]["route"], "create", FALSE)
    BY RouteFindMoves DEF RouteFind, Fresh, LinksTo
<1>2. Links(c) /\ row \in [Try -> Row]
    BY DEF HandlersInv, TypeOK
<1>3. Links(c)'
  <2>1. row'[c].root = None
      BY <1>1, <1>2 DEF Links, At
  <2>2. CASE job'[c]["route"].prev = None
      BY <1>1, <2>1, <2>2 DEF Links
  <2>3. CASE LinksTo(c, job'[c]["route"], "create", FALSE)
    <3>1. PICK p, q : /\ p \in Try /\ p = job'[c]["route"].prev /\ q = job'[c]["route"].head
                              /\ row[p].at > 0 /\ q = Root(row[p], p)
        BY <2>3 DEF LinksTo
    <3>2. q \in Try /\ SameCall(q, p)
        BY <3>1, SameCallRoot, RootIn
    <3>3. SameCall(q, p)' /\ q # None
        BY <3>1, <3>2, Lasting, TryAssumption
    <3>4. row[q].at > 0
        BY <3>1, HandlersInv DEF HandlersInv, Links, Root
    <3> QED BY <1>1, <2>1, <3>1, <3>3, <3>4 DEF Links
  <2> QED BY <1>1, <2>2, <2>3
<1>4. ReadsAt(c, "route")'
    BY <1>1 DEF ReadsAt, Whole
<1> QED BY <1>1, <1>2, <1>3, <1>4, RouteFrame DEF At

LEMMA RefuseHandlers ==
    ASSUME TypeOK, HandlersInv, [Next]_vars, NEW c \in Try, RouteRefuse(c)
    PROVE  HandlersInv'
<1>1. Goes(c, "route", "read") /\ At(c, "route", "decide") /\ dial' = dial /\ row \in [Try -> Row]
    BY RouteRefuseMoves DEF RouteRefuse, TypeOK
<1>2. /\ row'[c].at = row[c].at /\ row'[c].root = row[c].root /\ row'[c].st \in Finished
      /\ \A d \in Try \ {c} : row'[d] = row[d]
    BY Sending
<1>3. row[c].at > 0 /\ row[c].at \in Nat /\ row[c].root \in Try \cup {None}
    BY <1>1, Dialled DEF At, Row
<1>4. Links(c)'
  <2>1. Links(c) /\ \A d \in Try : row'[d].at = row[d].at
      BY <1>2 DEF HandlersInv
  <2> QED BY <1>1, <1>2, <1>3, <2>1 DEF Links, Goes, At
<1>5. ReadsAt(c, "route")'
    BY <1>1 DEF ReadsAt, Whole, Goes
<1>6. \A d \in Try : row'[d].at = row[d].at /\ row'[d].root = row[d].root /\ (row[d].at = 0 => row'[d] = row[d])
                     /\ (row[d].st \in Finished => row'[d].st \in Finished)
    BY <1>2, <1>3
<1> QED BY <1>1, <1>4, <1>5, <1>6, RouteFrame DEF At, Goes

LEMMA FoldHandlers ==
    ASSUME TypeOK, HandlersInv, [Next]_vars, NEW c \in Try, RouteFold(c)
    PROVE  HandlersInv'
<1>1. row' = row /\ dial' = dial /\ At(c, "route", "fold") /\ "route" \in Handler
    BY DEF RouteFold, Handler
<1>2. CASE Ends(c, "route")
    BY <1>1, <1>2, EndsFrame DEF At
<1>3. CASE ~Ends(c, "route")
  <2>1. /\ Turns(c, "route") /\ job[c]["route"].prev = None
        /\ LinksTo(c, job'[c]["route"], "root", TRUE) /\ row[job'[c]["route"].prev].at < row[c].at
      BY <1>3, RouteFoldMoves
  <2>2. PICK p, q : /\ p \in Try /\ p = job'[c]["route"].prev /\ q = job'[c]["route"].head
                            /\ row[p].at > 0 /\ q = Root(row[p], p) /\ row[p].at < row[c].at
      BY <2>1 DEF LinksTo
  <2>3. q \in Try /\ SameCall(q, p)
      BY <2>2, SameCallRoot, RootIn
  <2>4. SameCall(q, p)' /\ q # None /\ p # None
      BY <2>2, <2>3, Lasting, TryAssumption
  <2>5. row[q].at > 0 /\ row[c].root = None
      BY <2>1, <2>2, <1>1, HandlersInv DEF HandlersInv, Links, Root, At
  <2>6. job'[c]["route"].at = "root"
      BY <2>1 DEF LinksTo
  <2>7. Links(c)'
      BY <1>1, <2>2, <2>4, <2>5, <2>6 DEF Links
  <2>8. ReadsAt(c, "route")'
      BY <2>6 DEF ReadsAt, Whole
  <2> QED BY <1>1, <2>1, <2>6, <2>7, <2>8, RouteFrame DEF At
<1> QED BY <1>2, <1>3

LEMMA RootHandlers ==
    ASSUME TypeOK, HandlersInv, [Next]_vars, NEW c \in Try, LinkRoot(c)
    PROVE  HandlersInv' /\ SameCall(c, job[c]["route"].prev)'
<1>1. Goes(c, "route", "hide") /\ At(c, "route", "root") /\ dial' = dial
    BY LinkRootMoves DEF LinkRoot
<1>2. /\ row' \in [Try -> Row]
      /\ job[c]["route"].head \in Try
      /\ row'[c].root = job[c]["route"].head
      /\ row'[c].at = row[c].at /\ row'[c].st = row[c].st
      /\ \A d \in Try \ {c} : row'[d] = row[d]
    BY Rooting
<1>3. row[c].at > 0 /\ row[c].at \in Nat /\ dial[c] = "none"
    BY <1>1, Dialled DEF At
<1>4. job[c]["route"].prev \in Try \cup {None}
    BY DEF TypeOK, Job, Handler
<1>5. PICK p \in Try, q \in Try :
         /\ p = job[c]["route"].prev /\ q = job[c]["route"].head /\ p # None /\ q # None
         /\ row[p].at > 0 /\ row[q].at > 0 /\ row[p].at < row[c].at /\ SameCall(q, p)
    BY <1>1, <1>2, <1>4, TryAssumption DEF HandlersInv, Links, At
<1>6. SameCall(c, p)'
  <2>1. SameCall(q, p)'
      BY <1>5, Lasting
  <2>2. SameCall(c, q)'
    <3>1. row'[c].root = q /\ q # None
        BY <1>2, <1>5
    <3> QED BY <3>1 DEF SameCall, Closed, Root
  <2> QED BY <2>1, <2>2 DEF SameCall
<1>7. /\ job'[c]["route"].at = "hide" /\ job'[c]["route"].prev = p /\ job'[c]["route"].head = q
      /\ row'[p].at > 0 /\ row'[q].at > 0 /\ row'[p].at < row'[c].at /\ row'[c].root = q
    BY <1>1, <1>2, <1>3, <1>5 DEF Goes
<1>8. SameCall(q, p)'
    BY <1>5, Lasting
<1>9. Links(c)'
    BY <1>5, <1>6, <1>7, <1>8 DEF Links
<1>10. ReadsAt(c, "route")'
    BY <1>7 DEF ReadsAt, Whole
<1>11. \A d \in Try : /\ row'[d].at = row[d].at /\ (d # c => row'[d].root = row[d].root)
                      /\ (row[d].at = 0 => row'[d] = row[d])
                      /\ (dial[d] # "none" => row'[d] = row[d])
    BY <1>2, <1>3
<1>12. HandlersInv'
    BY <1>1, <1>7, <1>9, <1>10, <1>11, RouteFrame DEF At, Goes
<1> QED BY <1>5, <1>6, <1>7, <1>12 DEF SameCall

LEMMA HideHandlers ==
    ASSUME TypeOK, HandlersInv, [Next]_vars, NEW c \in Try, LinkHide(c)
    PROVE  HandlersInv'
<1> DEFINE p == job[c]["route"].prev
<1>1. Goes(c, "route", "drop") /\ At(c, "route", "hide") /\ dial' = dial
    BY LinkHideMoves DEF LinkHide
<1>2. \A d \in Try : /\ row'[d].at = row[d].at /\ row'[d].root = row[d].root /\ row'[d].st = row[d].st
                     /\ (row[d].at = 0 => row'[d] = row[d])
  <2>1. /\ p \in Try /\ row[p].at > 0 /\ row'[p].st = row[p].st /\ row'[p].at = row[p].at /\ row'[p].root = row[p].root
        /\ \A d \in Try \ {p} : row'[d] = row[d]
      BY Hiding
  <2> HIDE DEF p
  <2> QED BY <2>1
<1>3. Links(c)'
  <2>1. Links(c) /\ row[c].root \in Try \cup {None} /\ p \in Try \cup {None} /\ job[c]["route"].head \in Try \cup {None}
      BY DEF HandlersInv, TypeOK, Row, Job, Handler
  <2>2. \A x, y \in Try : SameCall(x, y) => SameCall(x, y)'
      BY Lasting
  <2>3. PICK y \in Try \cup {None}, q \in Try \cup {None} : y = p /\ q = job[c]["route"].head
      BY <2>1
  <2>4. /\ y \in Try /\ y # None /\ row[y].at > 0 /\ row[y].at < row[c].at /\ q \in Try /\ q # None /\ row[q].at > 0
        /\ SameCall(q, y) /\ SameCall(c, y)
      BY <1>1, <2>1, <2>3 DEF Links, At
  <2>5. job'[c]["route"].at = "drop" /\ job'[c]["route"].prev = y /\ job'[c]["route"].head = q
      BY <1>1, <2>3 DEF Goes
  <2> QED BY <1>2, <2>1, <2>2, <2>4, <2>5 DEF Links
<1>4. ReadsAt(c, "route")'
    BY <1>1 DEF ReadsAt, Whole, Goes
<1> QED BY <1>1, <1>2, <1>3, <1>4, RouteFrame DEF At, Goes

LEMMA DropHandlers ==
    ASSUME TypeOK, HandlersInv, [Next]_vars, NEW c \in Try, LinkDrop(c)
    PROVE  HandlersInv'
<1>1. /\ Goes(c, "route", "read") \/ Goes(c, "route", "decide")
      /\ At(c, "route", "drop") /\ dial' = dial /\ row' = row
    BY LinkDropMoves DEF LinkDrop
<1>2. Links(c)'
  <2>1. Links(c)
      BY DEF HandlersInv
  <2>2. job[c]["route"].prev # None /\ job'[c]["route"].prev = job[c]["route"].prev
      BY <1>1, <2>1 DEF Links, At, Goes
  <2>3. job'[c]["route"].at \in {"read", "decide"}
      BY <1>1 DEF Goes
  <2> QED BY <1>1, <2>1, <2>2, <2>3 DEF Links, At
<1>3. ReadsAt(c, "route")'
    BY <1>1 DEF ReadsAt, Whole, Goes
<1> QED BY <1>1, <1>2, <1>3, RouteFrame DEF At, Goes

-----------------------------------------------------------------------------
LEMMA HandlersStep == TypeOK /\ HandlersInv /\ [Next]_vars => HandlersInv'
<1> SUFFICES ASSUME TypeOK, HandlersInv, [Next]_vars PROVE HandlersInv'
    OBVIOUS
<1>h. {"route", "held", "sweep", "worker"} \cup Whole \subseteq Handler
    BY DEF Handler, Whole
<1>r. \A c \in Try : Reads(c)
    BY DEF HandlersInv
<1>1. ASSUME NEW c \in Try, HeldRead(c) PROVE HandlersInv'
  <2>1. row' = row /\ dial' = dial /\ dial[c] # "none" /\ At(c, "held", "new")
      BY <1>1, Zenon DEF HeldRead, Fresh
  <2>2. CASE UNCHANGED job
    <3>1. Created' = Created
        BY <2>1 DEF Created
    <3>2. \A x, y \in Try : SameCall(x, y) => SameCall(x, y)'
        BY Lasting
    <3>3. ASSUME NEW e \in Try PROVE Begins(e)' /\ Reads(e)'
        BY <2>1, <2>2, <3>1 DEF HandlersInv, Begins, Reads, ReadsAt, At
    <3>4. ASSUME NEW e \in Try PROVE Links(e)'
      <4>1. Links(e)
          BY DEF HandlersInv
      <4>2. \A x, y : SameCall(x, y)' <=> SameCall(x, y)
          BY <2>1 DEF SameCall, Closed
      <4> QED BY <2>1, <2>2, <4>1, <4>2 DEF Links
    <3> QED BY <3>3, <3>4 DEF HandlersInv
  <2>3. CASE ~UNCHANGED job
    <3>1. PICK r \in Row : OfRow(r, c) /\ Starts(c, "held", "save", r)
        BY <1>1, <2>3, HeldReadMoves
    <3>2. ReadsAt(c, "held")'
        BY <2>1, <3>1 DEF ReadsAt, Starts, OfRow, Whole
    <3> QED BY <2>1, <3>1, <3>2, <1>h, OtherFrame DEF Starts
  <2> QED BY <2>2, <2>3
<1>2. ASSUME NEW c \in Try, NEW h \in Handler, EndRead(c, h) PROVE HandlersInv'
  <2>1. row' = row /\ dial' = dial /\ dial[c] # "none" /\ h \in Whole /\ h # "route" /\ h # "sweep"
      BY <1>2 DEF EndRead, Whole
  <2>2. PICK r \in Row : OfRow(r, c) /\ r.st \in Finished /\ Starts(c, h, "save", r)
      BY <1>2, EndReadMoves
  <2>3. ReadsAt(c, h)'
      BY <2>1, <2>2 DEF ReadsAt, Starts, OfRow, Whole
  <2> QED BY <2>1, <2>2, <2>3, OtherFrame DEF Starts
<1>3. ASSUME NEW c \in Try, SweepRead(c) PROVE HandlersInv'
  <2>1. row' = row /\ dial' = dial /\ row[c].st = "ringing" /\ row[c].at \in Nat
      BY <1>3, Dialled DEF SweepRead
  <2>2. row[c].at > 0
    <3>1. row[c].at = 0 => row[c] = NoRow
        BY Dialled
    <3> QED BY <2>1, <3>1, BlankRow
  <2>3. Starts(c, "sweep", "save", row[c])
      BY <1>3, SweepReadMoves
  <2>4. ReadsAt(c, "sweep")'
      BY <2>3 DEF ReadsAt, Starts, Whole
  <2> QED BY <2>1, <2>2, <2>3, <2>4, <1>h, OtherFrame DEF Starts, Whole
<1>4. ASSUME NEW c \in Try, SweepSave(c) PROVE HandlersInv'
  <2>1. Goes(c, "sweep", "read") /\ dial' = dial /\ row[c].at > 0
      BY <1>4, SweepSaveMoves, Dialled DEF SweepSave, At
  <2>2. /\ row'[c].at = row[c].at /\ row'[c].root = row[c].root /\ row'[c].st \in Finished
        /\ \A d \in Try \ {c} : row'[d] = row[d]
      BY <1>4, Sending
  <2>3. ReadsAt(c, "sweep")'
      BY <2>1 DEF ReadsAt, Goes, Whole
  <2>4. \A d \in Try : row'[d].at = row[d].at /\ row'[d].root = row[d].root /\ (row[d].at = 0 => row'[d] = row[d])
                       /\ (row[d].st \in Finished => row'[d].st \in Finished)
      BY <2>1, <2>2
  <2> QED BY <2>1, <2>3, <2>4, <1>h, OtherFrame DEF Goes, Whole
<1>5. ASSUME NEW c \in Try, WorkerTake(c) PROVE HandlersInv'
  <2>1. row' = row /\ dial' = dial /\ Starts(c, "worker", "read", NoRow)
      BY <1>5, WorkerTakeMoves DEF WorkerTake
  <2>2. ReadsAt(c, "worker")'
      BY <2>1 DEF ReadsAt, Starts, Whole
  <2> QED BY <2>1, <2>2, <1>h, OtherFrame DEF Starts, Whole
<1>6. ASSUME NEW c \in Try, NEW h \in Handler, SaveWhole(c, h) PROVE HandlersInv'
  <2>1. /\ Goes(c, h, "read") /\ h \in Whole /\ At(c, h, "save") /\ dial' = dial
        /\ h # "route" /\ h # "sweep"
      BY <1>6, SaveWholeMoves DEF SaveWhole, Whole
  <2>2. /\ row'[c].at = row[c].at /\ row'[c].root = row[c].root /\ row'[c].st \in Finished
        /\ \A d \in Try \ {c} : row'[d] = row[d]
      BY <1>6, SavingWhole
  <2>3. dial[c] # "none" /\ row[c].at > 0
      BY <2>1, Dialled DEF At
  <2>4. ReadsAt(c, h)'
      BY <2>1, <2>2 DEF ReadsAt, Goes, Whole
  <2>5. \A d \in Try : row'[d].at = row[d].at /\ row'[d].root = row[d].root /\ (row[d].at = 0 => row'[d] = row[d])
                       /\ (row[d].st \in Finished => row'[d].st \in Finished)
      BY <2>2, <2>3
  <2> QED BY <2>1, <2>3, <2>4, <2>5, <1>h, OtherFrame DEF Goes
<1>7. ASSUME NEW c \in Try, NEW h \in Handler, job[c][h].at \in {"read", "write", "check"},
             row' = row, dial' = dial, Turns(c, h), job'[c][h].at \in {"write", "check", "clear"},
             job'[c][h].at = "write" => job'[c][h].seen.st \in Finished,
             h = "route" => job'[c][h].prev = job[c][h].prev
      PROVE  HandlersInv'
  <2>1. ReadsAt(c, h)'
      BY <1>7 DEF ReadsAt, Whole
  <2>2. CASE h = "route"
    <3>1. Links(c)'
      <4>1. Links(c)
          BY DEF HandlersInv
      <4> QED BY <1>7, <2>2, <4>1 DEF Links
    <3> QED BY <1>7, <2>1, <2>2, <3>1, RouteFrame
  <2>3. CASE h # "route"
    <3>1. (h = "sweep" => row[c].at > 0) /\ (h \in Whole => dial[c] # "none")
        BY <1>7, Dialled DEF At
    <3> QED BY <1>7, <2>1, <2>3, <3>1, OtherFrame
  <2> QED BY <2>2, <2>3
<1>8. ASSUME NEW c \in Try, NEW h \in Handler, MirrorRead(c, h) PROVE HandlersInv'
  <2>1. row' = row /\ dial' = dial /\ job[c][h].at = "read"
      BY <1>8 DEF MirrorRead, At
  <2>2. CASE After(c, h)
      BY <2>1, <2>2, AfterFrame
  <2>3. CASE ~After(c, h)
    <3>1. /\ Turns(c, h) /\ job'[c][h].at \in {"write", "clear"} /\ job'[c][h].prev = job[c][h].prev
          /\ job'[c][h].at = "write" => job'[c][h].seen.st \in Finished
        BY <1>8, <2>3, MirrorReadMoves DEF Goes
    <3> QED BY <2>1, <3>1, <1>7
  <2> QED BY <2>2, <2>3
<1>9. ASSUME NEW c \in Try, NEW h \in Handler, MirrorWrite(c, h) PROVE HandlersInv'
  <2>1. Goes(c, h, "check")
      BY <1>9, MirrorWriteMoves
  <2> QED BY <1>9, <2>1, <1>7 DEF MirrorWrite, At, Goes
<1>10. ASSUME NEW c \in Try, NEW h \in Handler, MirrorCheck(c, h) PROVE HandlersInv'
  <2>1. Goes(c, h, "clear") \/ After(c, h)
      BY <1>10, MirrorCheckMoves
  <2>2. CASE After(c, h)
      BY <1>10, <2>2, AfterFrame DEF MirrorCheck, At
  <2>3. CASE Goes(c, h, "clear")
      BY <1>10, <2>3, <1>7 DEF MirrorCheck, At, Goes
  <2> QED BY <2>1, <2>2, <2>3
<1>11. ASSUME NEW c \in Try, NEW h \in Handler, MirrorClear(c, h) PROVE HandlersInv'
    BY <1>11, MirrorClearMoves, AfterFrame DEF MirrorClear, At
<1>12. ASSUME NEW c \in Try, NEW h \in Handler, MirrorFails(c, h) PROVE HandlersInv'
    BY <1>12, MirrorFailsMoves, AfterFrame DEF MirrorFails, At
<1>13. ASSUME NEW c \in Try, NEW h \in Handler, Killed(c, h) PROVE HandlersInv'
    BY <1>13, KilledMoves, EndsFrame DEF Killed, Idle, At
<1>14. ASSUME NEW c \in Try, HeldRemember(c) PROVE HandlersInv'
    BY <1>14, <1>h, HeldRememberMoves, EndsFrame DEF HeldRemember, At
<1>15. CASE UNCHANGED vars
  <2>1. row' = row /\ job' = job /\ dial' = dial
      BY <1>15 DEF vars
  <2>2. \A x, y : SameCall(x, y)' <=> SameCall(x, y)
      BY <2>1 DEF SameCall, Closed
  <2>3. ASSUME NEW e \in Try PROVE Begins(e)' /\ Reads(e)'
      BY <2>1 DEF HandlersInv, Begins, Reads, ReadsAt, At, Created
  <2>4. ASSUME NEW e \in Try PROVE Links(e)'
      BY <2>1, <2>2 DEF HandlersInv, Links
  <2> QED BY <2>3, <2>4 DEF HandlersInv
<1> QED BY <1>1, <1>2, <1>3, <1>4, <1>5, <1>6, <1>8, <1>9, <1>10, <1>11, <1>12, <1>13, <1>14, <1>15,
           CreateHandlers, SendHandlers, FindHandlers, RefuseHandlers, FoldHandlers, RootHandlers,
           HideHandlers, DropHandlers DEF Next

-----------------------------------------------------------------------------
(* The reports.  A step leaves the row and the copy of another try; only    *)
(* the try before it hears of it, when the request drops its copy.          *)

AboutToRead(c) ==
    /\ dial[c] # "none" /\ row[c].st \in Finished
    /\ c \in queued \/ \E h \in Handler : At(c, h, "read")
Reported(c) == Hidden(c) /\ Copied(c)

LEMMA OtherReports ==
    ASSUME ReportsInv, NEW c \in Try, NEW h \in Handler, Turns(c, h), NEW e \in Try, e # c,
           row'[e] = row[e], copy'[e] = copy[e], dial'[e] = dial[e],
           e \in queued => e \in queued', e \in cut => e \in cut', e \in late => e \in late',
           h # "route" \/ ~At(c, "route", "drop") \/ job[c]["route"].prev # e
    PROVE  Reported(e)'
<1>1. Hidden(e) /\ Copied(e) /\ "route" \in Handler
    BY DEF ReportsInv, Handler
<1>2. \A k \in Handler : job'[e][k] = job[e][k]
    BY DEF Turns
<1>3. ASSUME NEW d \in Try, At(d, "route", "drop"), job[d]["route"].prev = e
      PROVE  (At(d, "route", "drop") /\ job[d]["route"].prev = e)'
    BY <1>1, <1>3 DEF Turns, At
<1>4. Hidden(e)'
    BY <1>1, <1>2, <1>3 DEF Hidden, At
<1>5. Copied(e)'
    BY <1>1, <1>2 DEF Copied, Shown, View
<1> QED BY <1>4, <1>5 DEF Reported

LEMMA OwnHidden ==
    ASSUME TypeOK, HandlersInv, ReportsInv, NEW c \in Try, NEW h \in Handler, Turns(c, h),
           row'[c].hid => row[c].hid, copy'[c] = copy[c], c \in cut => c \in cut',
           ~At(c, h, "check"), ~At(c, h, "clear"), AboutToRead(c) => AboutToRead(c)'
    PROVE  Hidden(c)'
<1>1. Hidden(c) /\ "route" \in Handler /\ row[c].at \in Nat
    BY DEF ReportsInv, Handler, TypeOK, Row
<1>2. ASSUME NEW d \in Try, At(d, "route", "drop"), job[d]["route"].prev = c
      PROVE  (At(d, "route", "drop") /\ job[d]["route"].prev = c)'
  <2>1. row[c].at < row[d].at
      BY <1>2, TryAssumption DEF HandlersInv, Links, At
  <2>2. d # c
      BY <2>1, <1>1
  <2> QED BY <1>1, <1>2, <2>2 DEF Turns, At
<1>3. ASSUME NEW k \in Handler, job[c][k].at \in {"check", "clear"}
      PROVE  job'[c][k].at \in {"check", "clear"}
    BY <1>3 DEF Turns, At
<1> QED BY <1>1, <1>2, <1>3 DEF Hidden, AboutToRead

LEMMA OwnCopied ==
    ASSUME ReportsInv, NEW c \in Try, NEW h \in Handler, Turns(c, h),
           row'[c] = row[c], copy'[c] = copy[c], c \in queued => c \in queued',
           c \in cut => c \in cut', c \in late => c \in late',
           job[c][h].at \notin {"read", "write", "hide", "drop", "decide"}
    PROVE  Copied(c)'
<1>1. Copied(c) /\ "route" \in Handler
    BY DEF ReportsInv, Handler
<1>2. ASSUME NEW k \in Handler, job[c][k].at \in {"read", "write", "hide", "drop", "decide"}
      PROVE  job'[c][k] = job[c][k]
    BY <1>2 DEF Turns
<1> QED BY <1>1, <1>2 DEF Copied, Shown, View

(* A handler begins, remembers or looks: the row and the copy stay. *)
LEMMA QuietReports ==
    ASSUME TypeOK, HandlersInv, ReportsInv, NEW c \in Try, NEW h \in Handler, Turns(c, h),
           row' = row, copy' = copy, dial' = dial, queued \subseteq queued', cut' = cut, late' = late,
           job[c][h].at \in {"new", "done", "fold", "save"}
    PROVE  ReportsInv'
<1>1. AboutToRead(c) => AboutToRead(c)'
    BY DEF AboutToRead, At, Turns
<1>2. Hidden(c)'
    BY <1>1, OwnHidden DEF At
<1>3. Copied(c)'
    BY OwnCopied
<1>4. \A e \in Try : e # c => Reported(e)'
    BY OtherReports DEF At
<1> QED BY <1>2, <1>3, <1>4 DEF ReportsInv, Reported

(* A row's own save leaves the other rows, and starts a mirror, or leaves  *)
(* the row unfinished. *)
LEMMA SaveReports ==
    ASSUME TypeOK, HandlersInv, ReportsInv, NEW c \in Try, NEW h \in Handler, Turns(c, h),
           \A d \in Try \ {c} : row'[d] = row[d] /\ dial'[d] = dial[d],
           copy' = copy, queued' = queued, cut' = cut, late' = late,
           ~At(c, h, "check"), ~At(c, h, "clear"), ~At(c, h, "drop"),
           row'[c].hid => row[c].hid \/ AboutToRead(c)',
           AboutToRead(c) => AboutToRead(c)',
           row'[c].st \in Finished => job'[c][h].at = "read" \/ (h = "route" /\ job'[c][h].at = "hide")
    PROVE  ReportsInv'
<1>1. Hidden(c)'
  <2>1. CASE row'[c].hid => row[c].hid
      BY <2>1, OwnHidden
  <2>2. CASE AboutToRead(c)'
      BY <2>2 DEF Hidden, AboutToRead
  <2> QED BY <2>1, <2>2
<1>2. Copied(c)'
    BY DEF Copied
<1>3. \A e \in Try : e # c => Reported(e)'
    BY OtherReports
<1> QED BY <1>1, <1>2, <1>3 DEF ReportsInv, Reported

LEMMA LinkReports ==
    ASSUME TypeOK, HandlersInv, ReportsInv, NEW c \in Try, LinkHide(c) \/ LinkDrop(c)
    PROVE  ReportsInv'
<1>1. PICK p \in Try : /\ p = job[c]["route"].prev
                       /\ row[p].at < row[c].at /\ row[p].at \in Nat /\ p # c
    BY TryAssumption DEF LinkHide, LinkDrop, At, HandlersInv, Links, TypeOK, Job, Handler, Row
<1>h. "route" \in Handler /\ row \in [Try -> Row] /\ copy \in [Try -> Copy]
    BY DEF Handler, TypeOK
<1>2. CASE LinkHide(c)
  <2>1. /\ Goes(c, "route", "drop") /\ At(c, "route", "hide")
        /\ copy' = copy /\ dial' = dial /\ queued' = queued /\ late' = late /\ cut' = cut
      BY <1>2, LinkHideMoves DEF LinkHide
  <2>2. row'[p].hid /\ \A d \in Try \ {p} : row'[d] = row[d]
      BY <1>1, <1>2, Hiding
  <2>3. Turns(c, "route") /\ AboutToRead(c) => AboutToRead(c)'
      BY <1>1, <2>1, <2>2 DEF AboutToRead, At, Turns, Goes
  <2>4. Hidden(c)'
      BY <1>1, <1>h, <2>1, <2>2, <2>3, OwnHidden DEF Goes, At
  <2>5. Copied(c)'
      BY <1>h, <2>1 DEF Goes, Copied
  <2>6. Hidden(p)'
    <3>1. (At(c, "route", "drop") /\ job[c]["route"].prev = p)'
        BY <1>1, <2>1 DEF Goes, At
    <3> QED BY <3>1 DEF Hidden
  <2>7. Copied(p)'
      BY <2>2 DEF Copied, Shown
  <2>8. ASSUME NEW e \in Try, e # c, e # p PROVE Reported(e)'
      BY <1>h, <2>1, <2>2, <2>8, OtherReports DEF Goes, At
  <2> QED BY <2>4, <2>5, <2>6, <2>7, <2>8 DEF ReportsInv, Reported
<1>3. CASE LinkDrop(c)
  <2>1. /\ Goes(c, "route", "read") \/ Goes(c, "route", "decide")
        /\ At(c, "route", "drop") /\ Clear(p)
        /\ row' = row /\ dial' = dial /\ queued' = queued /\ cut' = cut
      BY <1>1, <1>3, LinkDropMoves DEF LinkDrop
  <2>2. copy'[p] = NoCopy /\ (~row[p].hid => p \in late') /\ \A d \in Try \ {p} : copy'[d] = copy[d]
      BY <1>h, <2>1 DEF Clear
  <2>3. Turns(c, "route") /\ AboutToRead(c) => AboutToRead(c)'
      BY <1>1, <2>1 DEF AboutToRead, At, Turns, Goes
  <2>4. Hidden(c)'
      BY <1>1, <1>h, <2>1, <2>2, <2>3, OwnHidden DEF Goes, At
  <2>5. Copied(c)'
      BY <1>h, <2>1 DEF Goes, Copied
  <2>6. Hidden(p)' /\ Copied(p)'
      BY <2>1, <2>2 DEF Hidden, Copied, Shown
  <2>7. \A e \in Try \ {p} : e \in late => e \in late'
      BY <2>1 DEF Clear
  <2>8. ASSUME NEW e \in Try, e # c, e # p PROVE Reported(e)'
      BY <1>h, <1>1, <2>1, <2>2, <2>7, <2>8, OtherReports DEF Goes, At
  <2> QED BY <2>4, <2>5, <2>6, <2>8 DEF ReportsInv, Reported
<1> QED BY <1>2, <1>3

LEMMA MirrorReports ==
    ASSUME TypeOK, HandlersInv, ReportsInv, NEW c \in Try, NEW h \in Handler,
           \/ MirrorRead(c, h) \/ MirrorWrite(c, h) \/ MirrorCheck(c, h) \/ MirrorClear(c, h)
           \/ MirrorFails(c, h) \/ Killed(c, h)
    PROVE  ReportsInv'
<1>h. row \in [Try -> Row] /\ copy \in [Try -> Copy] /\ cut \subseteq Try /\ late \subseteq Try /\ row' = row /\ dial' = dial
    BY DEF TypeOK, MirrorRead, MirrorWrite, MirrorCheck, MirrorClear, MirrorFails, Killed
<1>a. ASSUME After(c, h) PROVE Turns(c, h) /\ job'[c][h].at \in {"fold", "done"}
    BY <1>a, BlankJobs DEF After, Goes, Ends
<1>e. ASSUME Turns(c, h), \A e \in Try \ {c} : copy'[e] = copy[e] /\ (e \in late => e \in late'),
             queued \subseteq queued', cut \subseteq cut', Reported(c)',
             \A e \in Try : At(c, "route", "drop") /\ h = "route" /\ job[c]["route"].prev = e => e \in cut'
      PROVE  ReportsInv'
  <2>1. ASSUME NEW e \in Try, e # c PROVE Reported(e)'
    <3>1. CASE e \in cut'
        BY <3>1 DEF Reported, Hidden, Copied
    <3>2. CASE e \notin cut'
      <4>1. h # "route" \/ ~At(c, "route", "drop") \/ job[c]["route"].prev # e
          BY <1>e, <3>2
      <4> QED BY <1>h, <1>e, <2>1, <4>1, OtherReports
    <3> QED BY <3>1, <3>2
  <2> QED BY <1>e, <2>1 DEF ReportsInv, Reported
<1>1. CASE MirrorRead(c, h)
  <2>1. At(c, h, "read") /\ copy' = copy /\ queued' = queued /\ cut' = cut /\ late' = late
      BY <1>1 DEF MirrorRead
  <2>2. \/ /\ Turns(c, h) /\ row[c].st \in Finished /\ ~row[c].hid /\ job'[c][h].at = "write"
        \/ /\ Turns(c, h) /\ row[c].st \in Finished /\ row[c].hid /\ job'[c][h].at = "clear"
        \/ /\ Turns(c, h) /\ row[c].st \notin Finished
      BY <1>1, <1>a, MirrorReadMoves DEF Goes
  <2>3. Copied(c)'
      BY <1>h, <2>2 DEF Copied, Shown
  <2>4. Hidden(c)'
    <3>1. CASE ~row[c].hid \/ job'[c][h].at = "clear"
        BY <1>h, <3>1 DEF Hidden
    <3>2. CASE row[c].st \notin Finished
        BY <1>h, <2>1, <2>2, <3>2, OwnHidden DEF AboutToRead, At
    <3> QED BY <2>2, <3>1, <3>2
  <2> QED BY <2>1, <2>2, <2>3, <2>4, <1>e DEF Reported, At
<1>2. CASE MirrorWrite(c, h)
  <2>1. Goes(c, h, "check") /\ At(c, h, "write") /\ queued' = queued /\ cut' = cut
      BY <1>2, MirrorWriteMoves DEF MirrorWrite
  <2>2. /\ copy' = [copy EXCEPT ![c] = View(job[c][h].seen)]
        /\ late' = IF View(row[c]) = View(job[c][h].seen) THEN late \ {c} ELSE late \cup {c}
      BY <1>2 DEF MirrorWrite
  <2>3. /\ copy'[c] = View(row[c]) \/ c \in late'
        /\ \A e \in Try \ {c} : copy'[e] = copy[e] /\ (e \in late => e \in late')
      BY <1>h, <2>2
  <2>4. Hidden(c)' /\ Copied(c)'
      BY <1>h, <2>1, <2>3 DEF Hidden, Copied, Goes, View
  <2> QED BY <2>1, <2>3, <2>4, <1>e DEF Reported, At, Goes
<1>3. CASE MirrorCheck(c, h)
  <2>1. At(c, h, "check") /\ copy' = copy /\ queued' = queued /\ cut' = cut /\ late' = late
      BY <1>3 DEF MirrorCheck
  <2>2. Turns(c, h) /\ (row[c].hid => job'[c][h].at = "clear")
      BY <1>3, <1>a, MirrorCheckMoves DEF Goes
  <2>3. Hidden(c)'
      BY <1>h, <2>2 DEF Hidden
  <2>4. Copied(c)'
      BY <1>h, <2>1, <2>2, OwnCopied DEF At
  <2> QED BY <2>1, <2>2, <2>3, <2>4, <1>e DEF Reported, At
<1>4. CASE MirrorClear(c, h)
  <2>1. At(c, h, "clear") /\ Clear(c) /\ queued' = queued /\ cut' = cut
      BY <1>4 DEF MirrorClear
  <2>2. Turns(c, h)
      BY <1>4, <1>a, MirrorClearMoves
  <2>3. /\ copy'[c] = NoCopy /\ (~row[c].hid => c \in late')
        /\ \A e \in Try \ {c} : copy'[e] = copy[e] /\ (e \in late => e \in late')
      BY <1>h, <2>1 DEF Clear
  <2>4. Hidden(c)' /\ Copied(c)'
      BY <1>h, <2>3 DEF Hidden, Copied, Shown
  <2> QED BY <2>1, <2>2, <2>3, <2>4, <1>e DEF Reported, At
<1>5. CASE MirrorFails(c, h)
  <2>1. /\ At(c, h, "read") \/ At(c, h, "write")
        /\ copy' = copy /\ late' = late /\ queued \subseteq queued' /\ cut \subseteq cut'
        /\ c \in cut' \/ c \in queued'
      BY <1>5 DEF MirrorFails
  <2>2. Turns(c, h)
      BY <1>5, <1>a, MirrorFailsMoves
  <2>3. CASE c \in cut'
    <3>1. Hidden(c)' /\ Copied(c)'
        BY <2>3 DEF Hidden, Copied
    <3> QED BY <2>1, <2>2, <3>1, <1>e DEF Reported, At
  <2>4. CASE c \in queued'
    <3>1. Copied(c)'
        BY <2>4 DEF Copied
    <3>2. AboutToRead(c) => AboutToRead(c)'
        BY <1>h, <2>4 DEF AboutToRead
    <3>3. Hidden(c)'
        BY <1>h, <2>1, <2>2, <3>2, OwnHidden DEF At
    <3> QED BY <2>1, <2>2, <3>1, <3>3, <1>e DEF Reported, At
  <2> QED BY <2>1, <2>3, <2>4
<1>6. CASE Killed(c, h)
  <2>1. copy' = copy /\ late' = late /\ queued' = queued /\ cut' = cut \cup ({c, job[c][h].prev} \ {None})
      BY <1>6 DEF Killed
  <2>2. Ends(c, h)
      BY <1>6, KilledMoves
  <2>3. c \in cut'
      BY <2>1, TryAssumption
  <2>4. Hidden(c)' /\ Copied(c)'
      BY <2>3 DEF Hidden, Copied
  <2>5. \A e \in Try : h = "route" /\ job[c]["route"].prev = e => e \in cut'
      BY <2>1, TryAssumption
  <2> QED BY <2>1, <2>2, <2>4, <2>5, <1>e DEF Reported, Ends
<1> QED BY <1>1, <1>2, <1>3, <1>4, <1>5, <1>6

LEMMA ReportsStep == TypeOK /\ HandlersInv /\ ReportsInv /\ [Next]_vars => ReportsInv'
<1> SUFFICES ASSUME TypeOK, HandlersInv, ReportsInv, [Next]_vars PROVE ReportsInv'
    OBVIOUS
<1>h. {"route", "held", "sweep", "worker"} \cup Whole \subseteq Handler /\ row \in [Try -> Row]
    BY DEF Handler, Whole, TypeOK
<1>1. ASSUME NEW c \in Try, RouteFind(c) PROVE ReportsInv'
    BY <1>1, <1>h, RouteFindMoves, QuietReports DEF RouteFind, Fresh, At
<1>2. ASSUME NEW c \in Try, RouteFold(c) PROVE ReportsInv'
  <2>1. Turns(c, "route")
      BY <1>2, RouteFoldMoves DEF Ends
  <2> QED BY <1>2, <1>h, <2>1, QuietReports DEF RouteFold, At
<1>3. ASSUME NEW c \in Try, NEW h \in Handler,
             \A d \in Try \ {c} : row'[d] = row[d] /\ dial'[d] = dial[d],
             UNCHANGED <<copy, queued, cut, late>>, Turns(c, h),
             job[c][h].at \in {"create", "decide", "root", "save"}, dial[c] = "none" \/ AboutToRead(c)',
             row'[c].hid => row[c].hid \/ AboutToRead(c)',
             row'[c].st \in Finished => job'[c][h].at = "read" \/ (h = "route" /\ job'[c][h].at = "hide")
      PROVE  ReportsInv'
  <2>1. AboutToRead(c) => AboutToRead(c)'
      BY <1>3 DEF AboutToRead
  <2> QED BY <1>3, <2>1, SaveReports DEF At
<1>4. ASSUME NEW c \in Try, RouteCreate(c) PROVE ReportsInv'
  <2>1. /\ ~row'[c].hid /\ row'[c].st \notin Finished /\ dial[c] = "none"
        /\ \A d \in Try \ {c} : row'[d] = row[d]
      BY <1>4, Creating, Dialled DEF Finished
  <2>2. Turns(c, "route") /\ At(c, "route", "create") /\ UNCHANGED <<copy, dial, queued, cut, late>>
      BY <1>4, RouteCreateMoves DEF Goes, RouteCreate
  <2> QED BY <1>h, <2>1, <2>2, <1>3 DEF At
<1>5. ASSUME NEW c \in Try, RouteSend(c) PROVE ReportsInv'
  <2>1. row'[c].hid = row[c].hid /\ \A d \in Try \ {c} : row'[d] = row[d]
      BY <1>5, Sending
  <2>2. Ends(c, "route") /\ At(c, "route", "decide") /\ dial[c] = "none" /\ UNCHANGED <<copy, queued, cut, late>>
      BY <1>5, RouteSendMoves, Dialled DEF RouteSend, At
  <2>3. row'[c].st \notin Finished /\ \A d \in Try \ {c} : dial'[d] = dial[d]
      BY <1>5, <1>h DEF RouteSend, TypeOK, Finished, Row
  <2> QED BY <1>h, <2>1, <2>2, <2>3, <1>3 DEF At, Ends
<1>6. ASSUME NEW c \in Try, RouteRefuse(c) PROVE ReportsInv'
  <2>1. row'[c].hid = row[c].hid /\ \A d \in Try \ {c} : row'[d] = row[d]
      BY <1>6, Sending
  <2>2. /\ Goes(c, "route", "read") /\ At(c, "route", "decide") /\ dial[c] = "none"
        /\ UNCHANGED <<copy, dial, queued, cut, late>>
      BY <1>6, RouteRefuseMoves, Dialled DEF RouteRefuse, At
  <2> QED BY <1>h, <2>1, <2>2, <1>3 DEF At, Goes
<1>7. ASSUME NEW c \in Try, LinkRoot(c) PROVE ReportsInv'
  <2>1. row'[c].hid = row[c].hid /\ \A d \in Try \ {c} : row'[d] = row[d]
      BY <1>7, Rooting
  <2>2. /\ Goes(c, "route", "hide") /\ At(c, "route", "root") /\ dial[c] = "none"
        /\ UNCHANGED <<copy, dial, queued, cut, late>>
      BY <1>7, LinkRootMoves, Dialled DEF LinkRoot, At
  <2> QED BY <1>h, <2>1, <2>2, <1>3 DEF At, Goes
<1>8. ASSUME NEW c \in Try, SweepSave(c) PROVE ReportsInv'
  <2>1. /\ row'[c].hid = row[c].hid /\ row'[c].st \in Finished
        /\ \A d \in Try \ {c} : row'[d] = row[d]
      BY <1>8, Sending
  <2>2. /\ Goes(c, "sweep", "read") /\ At(c, "sweep", "save") /\ UNCHANGED <<copy, dial, queued, cut, late>>
      BY <1>8, SweepSaveMoves DEF SweepSave
  <2>3. dial[c] = "none" \/ AboutToRead(c)'
      BY <1>h, <2>1, <2>2 DEF AboutToRead, Goes, At
  <2> QED BY <1>h, <2>1, <2>2, <2>3, <1>3 DEF At, Goes
<1>9. ASSUME NEW c \in Try, NEW h \in Handler, SaveWhole(c, h) PROVE ReportsInv'
  <2>1. h \in Whole /\ row'[c].st \in Finished /\ \A d \in Try \ {c} : row'[d] = row[d]
      BY <1>9, SavingWhole
  <2>2. Goes(c, h, "read") /\ At(c, h, "save") /\ UNCHANGED <<copy, dial, queued, cut, late>>
      BY <1>9, SaveWholeMoves DEF SaveWhole
  <2>3. dial[c] # "none"
      BY <2>1, <2>2, Dialled DEF At
  <2>4. AboutToRead(c)'
      BY <2>1, <2>2, <2>3 DEF AboutToRead, Goes, At
  <2> QED BY <2>1, <2>2, <2>4, <1>3 DEF At, Goes
<1>10. ASSUME NEW c \in Try, HeldRead(c) PROVE ReportsInv'
  <2>1. At(c, "held", "new") /\ UNCHANGED <<row, copy, dial, queued, cut, late>>
      BY <1>10, Zenon DEF HeldRead, Fresh
  <2>2. CASE UNCHANGED job
      BY <2>1, <2>2 DEF ReportsInv, Hidden, Copied, At, Shown, View
  <2>3. CASE ~UNCHANGED job
    <3>1. Turns(c, "held")
        BY <1>10, <2>3, HeldReadMoves DEF Starts
    <3> QED BY <1>h, <2>1, <3>1, QuietReports DEF At
  <2> QED BY <2>2, <2>3
<1>11. ASSUME NEW c \in Try, HeldRemember(c) PROVE ReportsInv'
  <2>1. Ends(c, "held")
      BY <1>11, HeldRememberMoves
  <2> QED BY <1>11, <1>h, <2>1, QuietReports DEF HeldRemember, At, Ends
<1>12. ASSUME NEW c \in Try, SweepRead(c) PROVE ReportsInv'
  <2>1. Turns(c, "sweep")
      BY <1>12, SweepReadMoves DEF Starts
  <2> QED BY <1>12, <1>h, <2>1, QuietReports DEF SweepRead, Fresh, At
<1>13. ASSUME NEW c \in Try, NEW h \in Handler, EndRead(c, h) PROVE ReportsInv'
  <2>1. Turns(c, h)
      BY <1>13, EndReadMoves DEF Starts
  <2> QED BY <1>13, <2>1, QuietReports DEF EndRead, Fresh, At
<1>14. ASSUME NEW c \in Try, WorkerTake(c) PROVE ReportsInv'
  <2>1. /\ Starts(c, "worker", "read", NoRow) /\ Idle(c, "worker")
        /\ queued' = queued \ {c} /\ UNCHANGED <<row, copy, dial, cut, late>>
      BY <1>14, WorkerTakeMoves DEF WorkerTake
  <2>2. Copied(c)'
      BY <1>h, <2>1 DEF Copied, Starts
  <2>3. AboutToRead(c) => AboutToRead(c)'
      BY <1>h, <2>1 DEF AboutToRead, Starts, At
  <2>4. Hidden(c)'
      BY <1>h, <2>1, <2>3, OwnHidden DEF Starts, Idle, At
  <2>5. ASSUME NEW e \in Try, e # c PROVE Reported(e)'
      BY <1>h, <2>1, <2>5, OtherReports DEF Starts
  <2> QED BY <2>2, <2>4, <2>5 DEF ReportsInv, Reported
<1>15. CASE UNCHANGED vars
    BY <1>15 DEF vars, ReportsInv, Hidden, Copied, At, Shown, View
<1> QED BY <1>1, <1>2, <1>4, <1>5, <1>6, <1>7, <1>8, <1>9, <1>10, <1>11, <1>12, <1>13, <1>14, <1>15,
           LinkReports, MirrorReports DEF Next

-----------------------------------------------------------------------------
(* A try stays shown, or a later one of its call is shown by now. *)
Passed(p) == \E d \in Shown' : row[p].at < row'[d].at /\ SameCall(p, d)'

LEMMA WasCreated ==
    ASSUME TypeOK, HandlersInv, NEW e \in Try, Was(e)
    PROVE  row[e].at > 0
<1>1. row[e].at \in Nat /\ (row[e].at = 0 => row[e] = NoRow)
    BY Dialled
<1>2. ASSUME NEW h \in Whole, At(e, h, "save") PROVE row[e].at > 0
    BY <1>2, Dialled DEF At
<1> QED BY <1>1, <1>2, BlankRow DEF Was

LEMMA KeptFrame ==
    ASSUME TypeOK, HandlersInv, KeptInv, [Next]_vars, NEW p \in Try,
           \A e \in Try : e # p => (Was(e)' => Was(e)) /\ (e \in Shown => e \in Shown'),
           \/ (Was(p)' => Was(p)) /\ (p \in Shown => p \in Shown')
           \/ row[p].at > 0 /\ Passed(p)
    PROVE  KeptInv'
<1>1. ASSUME NEW e \in Try, row[e].at > 0 PROVE row'[e].at = row[e].at /\ row[e].at \in Nat
    BY <1>1, Steady DEF TypeOK, Row
<1>2. ASSUME NEW e \in Try, Was(e), ~Passed(p) \/ e # p PROVE Passed(e)
  <2>1. PICK d \in Shown : row[e].at < row[d].at /\ SameCall(e, d)
      BY <1>2 DEF KeptInv, Kept
  <2>2. d \in Try /\ row'[d].at = row[d].at /\ SameCall(e, d)' /\ row[d].at \in Nat /\ row[e].at \in Nat /\ row[e].at > 0
      BY <2>1, <1>1, <1>2, Lasting, WasCreated DEF Shown
  <2>3. CASE d \in Shown'
      BY <2>1, <2>2, <2>3 DEF Passed
  <2>4. CASE d \notin Shown'
    <3>1. d = p /\ Passed(p)
        BY <2>1, <2>2, <2>4
    <3>2. PICK g \in Shown' : row[d].at < row'[g].at /\ SameCall(d, g)'
        BY <3>1 DEF Passed
    <3>3. SameCall(e, g)'
        BY <2>2, <3>2 DEF SameCall
    <3>4. row'[g].at \in Nat
        BY <3>2, Steady DEF Shown, Row
    <3> QED BY <2>1, <2>2, <3>2, <3>3, <3>4 DEF Passed
  <2> QED BY <2>3, <2>4
<1>3. ASSUME NEW e \in Try, Was(e)' PROVE Kept(e)'
  <2>1. Passed(e) /\ row[e].at > 0
    <3>1. CASE e # p
        BY <1>2, <1>3, <3>1, WasCreated
    <3>2. CASE e = p
        BY <1>2, <1>3, <3>2, WasCreated
    <3> QED BY <3>1, <3>2
  <2>2. row'[e].at = row[e].at
      BY <1>1, <2>1
  <2> QED BY <2>1, <2>2 DEF Passed, Kept
<1> QED BY <1>3 DEF KeptInv, Kept

LEMMA KeptStep == TypeOK /\ HandlersInv /\ KeptInv /\ [Next]_vars => KeptInv'
<1> SUFFICES ASSUME TypeOK, HandlersInv, KeptInv, [Next]_vars PROVE KeptInv'
    OBVIOUS
<1>h. {"route", "held", "sweep", "worker"} \cup Whole \subseteq Handler /\ row \in [Try -> Row] /\ "route" \notin Whole
          /\ "sweep" \notin Whole /\ "worker" \notin Whole
    BY DEF Handler, Whole, TypeOK
<1>1. ASSUME NEW c \in Try, NEW h \in Handler, Turns(c, h),
             \A d \in Try : /\ row'[d].hid = row[d].hid
                            /\ row[d].at > 0 => row'[d].at > 0,
             h \in Whole /\ (At(c, h, "save"))' => (At(c, h, "save") /\ UNCHANGED job[c][h].seen)
                                                   \/ job'[c][h].seen.hid = row[c].hid
      PROVE  KeptInv'
  <2>1. ASSUME NEW e \in Try, Was(e)' PROVE Was(e)
    <3>1. CASE row'[e].hid
        BY <1>1, <3>1 DEF Was
    <3>2. CASE ~row'[e].hid
      <4>1. PICK k \in Whole : (At(e, k, "save") /\ job[e][k].seen.hid)'
          BY <2>1, <3>2 DEF Was
      <4>2. CASE e = c /\ k = h
          BY <1>1, <4>1, <4>2 DEF Was, At
      <4>3. CASE e # c \/ k # h
        <5>1. job'[e][k] = job[e][k]
            BY <1>1, <1>h, <4>3 DEF Turns
        <5> QED BY <4>1, <5>1 DEF Was, At
      <4> QED BY <4>2, <4>3
    <3> QED BY <3>1, <3>2
  <2>2. \A e \in Try : e \in Shown => e \in Shown'
      BY <1>1 DEF Shown
  <2> QED BY <2>1, <2>2, KeptFrame
<1>2. \A d \in Try : row[d].at > 0 => row'[d].at = row[d].at
    BY Steady
<1>3. ASSUME NEW c \in Try, NEW h \in Handler, Turns(c, h), row' = row, h \notin Whole \/ ~(At(c, h, "save"))'
      PROVE  KeptInv'
    BY <1>1, <1>2, <1>3
<1>4. ASSUME NEW c \in Try, RouteFind(c) \/ RouteFold(c) \/ LinkDrop(c) PROVE KeptInv'
  <2>1. Turns(c, "route") /\ row' = row
      BY <1>4, RouteFindMoves, RouteFoldMoves, LinkDropMoves DEF Ends, Goes, RouteFind, RouteFold, LinkDrop
  <2> QED BY <1>h, <1>3, <2>1
<1>5. ASSUME NEW c \in Try, RouteCreate(c) PROVE KeptInv'
  <2>1. row[c].hid = FALSE /\ ~row'[c].hid /\ \A d \in Try \ {c} : row'[d] = row[d]
    <3>1. row[c] = NoRow /\ ~row'[c].hid /\ \A d \in Try \ {c} : row'[d] = row[d]
        BY <1>5, Creating
    <3> QED BY <3>1, BlankRow
  <2>2. Turns(c, "route")
      BY <1>5, RouteCreateMoves DEF Goes
  <2>3. \A d \in Try : row'[d].hid = row[d].hid
    <3>1. row'[c].hid = FALSE
        BY <1>5, BlankRow DEF RouteCreate, TypeOK, NoRow
    <3> QED BY <2>1, <3>1
  <2> QED BY <1>h, <1>1, <1>2, <2>2, <2>3
<1>6. ASSUME NEW c \in Try, RouteSend(c) \/ RouteRefuse(c) \/ LinkRoot(c) \/ SweepSave(c) PROVE KeptInv'
  <2>1. \A d \in Try : row'[d].hid = row[d].hid
    <3>1. row'[c].hid = row[c].hid /\ \A d \in Try \ {c} : row'[d] = row[d]
        BY <1>6, Sending, Rooting
    <3> QED BY <3>1
  <2>2. Turns(c, "route") \/ Turns(c, "sweep")
      BY <1>6, RouteSendMoves, RouteRefuseMoves, LinkRootMoves, SweepSaveMoves DEF Goes, Ends
  <2> QED BY <1>h, <1>1, <1>2, <2>1, <2>2
<1>7. ASSUME NEW c \in Try, LinkHide(c) PROVE KeptInv'
  <2>1. PICK p \in Try : /\ p = job[c]["route"].prev
                         /\ row[p].at > 0 /\ row[p].at < row[c].at /\ row[p].at \in Nat /\ row[c].at \in Nat
                         /\ SameCall(c, p)
    <3>1. job[c]["route"].prev \in Try
        BY <1>7, Hiding
    <3>2. Links(c) /\ \A d \in Try : row[d].at \in Nat
        BY <1>h DEF HandlersInv, Row
    <3> QED BY <1>7, <3>1, <3>2, TryAssumption DEF LinkHide, At, Links
  <2>2. /\ row'[p].hid /\ \A d \in Try \ {p} : row'[d] = row[d]
        /\ Goes(c, "route", "drop")
      BY <1>7, <2>1, Hiding, LinkHideMoves
  <2>3. \A e \in Try : e # p => (Was(e)' => Was(e)) /\ (e \in Shown => e \in Shown')
    <3>1. \A e \in Try, k \in Whole : job'[e][k] = job[e][k]
        BY <1>h, <2>2 DEF Goes, Turns
    <3> QED BY <2>2, <3>1 DEF Was, At, Shown
  <2>4. Passed(p)
    <3>1. SameCall(p, c) /\ p # c
        BY <2>1, SameCallBack
    <3>2. CASE c \in Shown
      <4>1. c \in Shown' /\ row'[c].at = row[c].at /\ SameCall(p, c)'
          BY <2>2, <2>3, <3>1, <3>2, Lasting
      <4> QED BY <2>1, <4>1 DEF Passed
    <3>3. CASE c \notin Shown
      <4>1. Was(c)
          BY <2>1, <3>3 DEF Was, Shown
      <4>2. PICK d \in Shown : row[c].at < row[d].at /\ SameCall(c, d)
          BY <4>1 DEF KeptInv, Kept
      <4>3. d \in Try /\ row[d].at \in Nat
          BY <4>2, <1>h DEF Shown, Row
      <4>4. d # p /\ SameCall(p, d)
          BY <2>1, <3>1, <4>2, <4>3, SameCallOn
      <4>5. d \in Shown' /\ row'[d].at = row[d].at /\ SameCall(p, d)'
          BY <2>2, <2>3, <4>2, <4>3, <4>4, Lasting
      <4> QED BY <2>1, <4>2, <4>3, <4>5 DEF Passed
    <3> QED BY <3>2, <3>3
  <2> QED BY <2>1, <2>3, <2>4, KeptFrame
<1>8. ASSUME NEW c \in Try, NEW h \in Handler, SaveWhole(c, h) PROVE KeptInv'
  <2>1. /\ h \in Whole /\ At(c, h, "save") /\ Goes(c, h, "read") /\ row'[c] = job[c][h].seen
        /\ row'[c].at = row[c].at /\ \A d \in Try \ {c} : row'[d] = row[d]
      BY <1>8, SavingWhole, SaveWholeMoves
  <2>2. \A e \in Try : Was(e)' => Was(e)
    <3>1. \A e \in Try, k \in Whole : (At(e, k, "save"))' => job'[e][k] = job[e][k]
        BY <1>h, <2>1 DEF Goes, Turns, At
    <3> QED BY <2>1, <3>1 DEF Was, At
  <2>3. \A e \in Try : e # c => (e \in Shown => e \in Shown')
      BY <2>1 DEF Shown
  <2>4. CASE c \in Shown => c \in Shown'
      BY <2>2, <2>3, <2>4, KeptFrame
  <2>5. CASE c \in Shown /\ c \notin Shown'
    <3>1. Was(c) /\ row[c].at > 0 /\ row[c].at \in Nat
        BY <1>h, <2>1, <2>5 DEF Was, Shown, Row
    <3>2. PICK d \in Shown : row[c].at < row[d].at /\ SameCall(c, d)
        BY <3>1 DEF KeptInv, Kept
    <3>3. d \in Try /\ d # c
        BY <3>1, <3>2 DEF Shown
    <3>4. d \in Shown' /\ row'[d] = row[d] /\ SameCall(c, d)'
        BY <2>1, <2>3, <3>2, <3>3, Lasting
    <3>5. Passed(c)
        BY <3>2, <3>4 DEF Passed
    <3> QED BY <2>2, <2>3, <3>1, <3>5, KeptFrame
  <2> QED BY <2>4, <2>5
<1>9. ASSUME NEW c \in Try, HeldRead(c) PROVE KeptInv'
  <2>1. row' = row
      BY <1>9, Zenon DEF HeldRead
  <2>2. CASE UNCHANGED job
    <3>1. \A e \in Try : (Was(e)' => Was(e)) /\ (e \in Shown => e \in Shown')
        BY <2>1, <2>2 DEF Was, At, Shown
    <3> QED BY <3>1, KeptFrame
  <2>3. CASE ~UNCHANGED job
    <3>1. Turns(c, "held") /\ job'[c]["held"].seen.hid = row[c].hid
        BY <1>9, <2>3, HeldReadMoves DEF Starts, OfRow
    <3> QED BY <1>h, <1>1, <2>1, <3>1
  <2> QED BY <2>2, <2>3
<1>10. ASSUME NEW c \in Try, NEW h \in Handler, EndRead(c, h) PROVE KeptInv'
  <2>1. row' = row /\ Turns(c, h) /\ job'[c][h].seen.hid = row[c].hid
      BY <1>10, EndReadMoves DEF EndRead, Starts, OfRow
  <2> QED BY <1>1, <2>1
<1>11. ASSUME NEW c \in Try, HeldRemember(c) \/ SweepRead(c) \/ WorkerTake(c) PROVE KeptInv'
  <2>1. row' = row
      BY <1>11 DEF HeldRemember, SweepRead, WorkerTake
  <2>2. \/ Turns(c, "held") /\ ~(At(c, "held", "save"))'
        \/ Turns(c, "sweep") \/ Turns(c, "worker")
      BY <1>11, HeldRememberMoves, SweepReadMoves, WorkerTakeMoves, BlankJobs DEF Ends, Starts, At
  <2> QED BY <1>h, <1>3, <2>1, <2>2
<1>12. ASSUME NEW c \in Try, NEW h \in Handler,
             \/ MirrorRead(c, h) \/ MirrorWrite(c, h) \/ MirrorCheck(c, h) \/ MirrorClear(c, h)
             \/ MirrorFails(c, h) \/ Killed(c, h)
       PROVE  KeptInv'
  <2>1. row' = row
      BY <1>12 DEF MirrorRead, MirrorWrite, MirrorCheck, MirrorClear, MirrorFails, Killed
  <2>2. ASSUME After(c, h) PROVE Turns(c, h) /\ job'[c][h].at # "save"
      BY <2>2, BlankJobs DEF After, Goes, Ends
  <2>3. Turns(c, h) /\ job'[c][h].at # "save"
      BY <1>12, <2>2, BlankJobs, MirrorReadMoves, MirrorWriteMoves, MirrorCheckMoves, MirrorClearMoves,
         MirrorFailsMoves, KilledMoves DEF Goes, Ends
  <2> QED BY <1>3, <2>1, <2>3 DEF At
<1>13. CASE UNCHANGED vars
  <2>1. \A e \in Try : (Was(e)' => Was(e)) /\ (e \in Shown => e \in Shown')
      BY <1>13 DEF vars, Was, At, Shown
  <2>2. CASE Try = {}
      BY <2>2 DEF KeptInv
  <2> QED BY <2>1, <2>2, KeptFrame
<1> QED BY <1>4, <1>5, <1>6, <1>7, <1>8, <1>9, <1>10, <1>11, <1>12, <1>13 DEF Next

-----------------------------------------------------------------------------
(* How many tries of a call are shown. *)

LEMMA CallClosed == ASSUME TypeOK, NEW c \in Try PROVE Closed(CallOf(c)) /\ c \in CallOf(c)
<1>1. ASSUME NEW e \in Try PROVE SameCall(c, e) <=> SameCall(c, Root(row[e], e))
    BY SameCallRoot, SameCallOn, RootIn
<1> QED BY <1>1, SameCallSelf, RootIn DEF Closed, CallOf

LEMMA CallsSame ==
    ASSUME \A e \in Try : row'[e].root = row[e].root
    PROVE  \A c : CallOf(c)' = CallOf(c)
<1>1. \A S : Closed(S)' <=> Closed(S)
    BY DEF Closed, Root
<1> QED BY <1>1 DEF CallOf, SameCall

LEMMA SizesIn ==
    ASSUME NEW A \in SUBSET Try, NEW B \in SUBSET A
    PROVE  /\ Cardinality(A) \in Nat /\ Cardinality(B) \in Nat /\ Cardinality(B) <= Cardinality(A)
           /\ IsFiniteSet(A)
  BY TryAssumption, FS_Subset, FS_CardinalityType

LEMMA SingleFrame ==
    ASSUME NEW e \in Try, Single(e), CallOf(e)' = CallOf(e), twice \subseteq twice', cut \subseteq cut',
           \/ CallOf(e) \cap (twice' \cup cut') # {}
           \/ /\ CallOf(e) \cap Shown' \subseteq CallOf(e) \cap Shown
              /\ CallOf(e) \cap Linking \subseteq CallOf(e) \cap Linking'
    PROVE  Single(e)'
<1> SUFFICES ASSUME CallOf(e) \cap (twice' \cup cut') = {}
             PROVE  Cardinality(CallOf(e) \cap Shown') <= 1 + Cardinality(CallOf(e) \cap Linking')
    BY DEF Single
<1>1. /\ CallOf(e) \cap Shown \in SUBSET Try /\ CallOf(e) \cap Linking' \in SUBSET Try
      /\ CallOf(e) \cap Shown' \in SUBSET (CallOf(e) \cap Shown)
      /\ CallOf(e) \cap Linking \in SUBSET (CallOf(e) \cap Linking')
    BY DEF CallOf, Shown, Linking
<1>2. Cardinality(CallOf(e) \cap Shown) <= 1 + Cardinality(CallOf(e) \cap Linking)
    BY DEF Single
<1> DEFINE s == CallOf(e) \cap Shown  t == CallOf(e) \cap Shown'
           l == CallOf(e) \cap Linking  k == CallOf(e) \cap Linking'
<1> HIDE DEF s, t, l, k
<1>3. /\ Cardinality(s) \in Nat /\ Cardinality(t) \in Nat /\ Cardinality(t) <= Cardinality(s)
      /\ Cardinality(k) \in Nat /\ Cardinality(l) \in Nat /\ Cardinality(l) <= Cardinality(k)
    BY <1>1, SizesIn DEF s, t, l, k
<1>4. Cardinality(s) <= 1 + Cardinality(l)
    BY <1>2 DEF s, l
<1>5. Cardinality(t) <= 1 + Cardinality(k)
    BY <1>3, <1>4
<1> QED BY <1>5 DEF t, k

(* No root is given, the tries shown and the links under way are the same,  *)
(* or there are fewer shown, or the call is one of those two met in.        *)
LEMMA SinglesFrame ==
    ASSUME TypeOK, SingleInv, NEW c \in Try,
           \A d \in Try : row'[d].root = row[d].root,
           \A d \in Try : d # c => (d \in Shown' => d \in Shown) /\ (d \in Linking => d \in Linking'),
           c \in twice' \cup cut' \/ ((c \in Shown' => c \in Shown) /\ (c \in Linking => c \in Linking')),
           twice \subseteq twice', cut \subseteq cut'
    PROVE  SingleInv'
<1> SUFFICES ASSUME NEW e \in Try PROVE Single(e)'
    BY DEF SingleInv
<1>1. CallOf(e)' = CallOf(e) /\ Single(e)
    BY CallsSame DEF SingleInv
<1>2. CallOf(e) \subseteq Try /\ Shown' \subseteq Try /\ Linking \subseteq Try
    BY DEF CallOf, Shown, Linking
<1> QED BY <1>1, <1>2, SingleFrame

(* The routes under way change only where a link moves. *)
LEMMA LinkingKept ==
    ASSUME NEW c \in Try, NEW h \in Handler, Turns(c, h), h # "route" \/ ~At(c, "route", "hide")
    PROVE  \A d \in Try : d \in Linking => d \in Linking'
<1>1. "route" \in Handler
    BY DEF Handler
<1> QED BY <1>1 DEF Linking, At, Turns

LEMMA CreateSingle ==
    ASSUME TypeOK, HandlersInv, SingleInv, [Next]_vars, NEW c \in Try, RouteCreate(c)
    PROVE  SingleInv'
<1>h. "route" \in Handler
    BY DEF Handler
<1>1. /\ row[c].at = 0 /\ row[c].root = None /\ row'[c].root = None
      /\ row' \in [Try -> Row] /\ \A d \in Try \ {c} : row'[d] = row[d]
    BY Creating
<1>2. Goes(c, "route", "decide") \/ Goes(c, "route", "root")
    BY RouteCreateMoves
<1>3. At(c, "route", "create") /\ twice' = twice /\ cut' = cut
    BY DEF RouteCreate
<1>4. \A d \in Try : row'[d].root = row[d].root
    BY <1>1
<1>5. \A d \in Try : d \in Linking => d \in Linking'
    BY <1>h, <1>2, <1>3, LinkingKept DEF Goes, At
<1>6. \A e \in Try : row[e].root # c
    BY <1>1, TryAssumption DEF HandlersInv, Links
<1>7. CallOf(c) = {c}
  <2>1. Closed({c})
      BY <1>1, <1>6 DEF Closed, Root
  <2> QED BY <2>1, SameCallSelf DEF CallOf, SameCall
<1>8. ASSUME NEW e \in Try PROVE Single(e)'
  <2>1. CallOf(e)' = CallOf(e) /\ CallOf(e) \subseteq Try
      BY <1>4, CallsSame DEF CallOf
  <2>2. CASE c \in CallOf(e)
    <3>1. CallOf(e) = {c}
      <4>1. SameCall(e, c)
          BY <2>2 DEF CallOf
      <4>2. e \in CallOf(c)
          BY <4>1, SameCallBack DEF CallOf
      <4> QED BY <1>7, <4>2
    <3>2. Cardinality({c}) = 1 /\ IsFiniteSet({c}) /\ {c} \in SUBSET Try
        BY FS_Singleton
    <3>3. {c} \cap Shown' \in SUBSET {c} /\ {c} \cap Linking' \in SUBSET {c}
        OBVIOUS
    <3>4. /\ Cardinality({c} \cap Shown') \in Nat /\ Cardinality({c} \cap Shown') <= 1
          /\ Cardinality({c} \cap Linking') \in Nat
      <4> DEFINE x == {c} \cap Shown'  y == {c} \cap Linking'
      <4>1. x \in SUBSET {c} /\ y \in SUBSET {c}
          OBVIOUS
      <4> HIDE DEF x, y
      <4>2. Cardinality(x) \in Nat /\ Cardinality(x) <= 1 /\ Cardinality(y) \in Nat
          BY <3>2, <4>1, SizesIn
      <4> QED BY <4>2 DEF x, y
    <3>5. Cardinality({c} \cap Shown') <= 1 + Cardinality({c} \cap Linking')
        BY <3>4
    <3> QED BY <2>1, <3>1, <3>5 DEF Single
  <2>3. CASE c \notin CallOf(e)
    <3>1. CallOf(e) \cap Shown' \subseteq CallOf(e) \cap Shown
        BY <1>1, <2>1, <2>3 DEF Shown
    <3>2. CallOf(e) \cap Linking \subseteq CallOf(e) \cap Linking'
        BY <1>5, <2>1
    <3> QED BY <1>3, <2>1, <3>1, <3>2, SingleFrame DEF SingleInv
  <2> QED BY <2>2, <2>3
<1> QED BY <1>8 DEF SingleInv

LEMMA HideSingle ==
    ASSUME TypeOK, HandlersInv, SingleInv, [Next]_vars, NEW c \in Try, LinkHide(c)
    PROVE  SingleInv'
<1>1. PICK p \in Try : /\ p = job[c]["route"].prev /\ SameCall(c, p)
                       /\ row[p].at > 0
                       /\ row'[p].hid /\ \A d \in Try : row'[d].root = row[d].root
                       /\ \A d \in Try \ {p} : row'[d] = row[d]
  <2>1. job[c]["route"].prev \in Try
      BY Hiding
  <2>2. SameCall(c, job[c]["route"].prev)
      BY DEF LinkHide, At, HandlersInv, Links
  <2>3. PICK p \in Try : p = job[c]["route"].prev
      BY <2>1
  <2>4. /\ row'[p].hid /\ row'[p].root = row[p].root /\ row[p].at > 0
        /\ \A d \in Try \ {p} : row'[d] = row[d]
      BY <2>3, Hiding
  <2> QED BY <2>2, <2>3, <2>4
<1>2. Goes(c, "route", "drop") /\ At(c, "route", "hide") /\ cut' = cut /\ "route" \in Handler
    BY LinkHideMoves DEF LinkHide, Handler
<1>3. twice' = IF row[p].hid THEN twice \cup {c} ELSE twice
    BY <1>1 DEF LinkHide
<1>4. Shown' = Shown \ {p}
    BY <1>1 DEF Shown
<1>5. Linking' = Linking \ {c} /\ c \in Linking
    BY <1>2 DEF Linking, Goes, Turns, At
<1>6. ASSUME NEW e \in Try PROVE Single(e)'
  <2>1. CallOf(e)' = CallOf(e) /\ CallOf(e) \subseteq Try /\ Single(e)
      BY <1>1, CallsSame DEF CallOf, SingleInv
  <2>2. CASE c \notin CallOf(e)
    <3>1. CallOf(e) \cap Shown' \subseteq CallOf(e) \cap Shown
        BY <1>4
    <3>2. CallOf(e) \cap Linking \subseteq CallOf(e) \cap Linking'
        BY <1>5, <2>2
    <3> QED BY <1>2, <1>3, <2>1, <3>1, <3>2, SingleFrame
  <2>3. CASE c \in CallOf(e) /\ row[p].hid
    <3>1. CallOf(e) \cap (twice' \cup cut') # {}
        BY <1>3, <2>3
    <3> QED BY <1>2, <1>3, <2>1, <3>1, SingleFrame
  <2>4. CASE c \in CallOf(e) /\ ~row[p].hid
    <3> SUFFICES ASSUME CallOf(e) \cap (twice \cup cut) = {}
                 PROVE  Cardinality(CallOf(e) \cap Shown') <= 1 + Cardinality(CallOf(e) \cap Linking')
        BY <1>2, <1>3, <2>1, <2>4 DEF Single
    <3>1. p \in CallOf(e)
        BY <1>1, <2>4, SameCallOn DEF CallOf
    <3>2. p \in CallOf(e) \cap Shown /\ c \in CallOf(e) \cap Linking
        BY <1>1, <1>5, <2>4, <3>1 DEF Shown
    <3> DEFINE s == CallOf(e) \cap Shown  l == CallOf(e) \cap Linking
    <3>3. CallOf(e) \cap Shown' = s \ {p} /\ CallOf(e) \cap Linking' = l \ {c}
        BY <1>4, <1>5
    <3>4. s \in SUBSET Try /\ l \in SUBSET Try /\ p \in s /\ c \in l
        BY <2>1, <3>2
    <3>5. Cardinality(s) <= 1 + Cardinality(l)
        BY <2>1 DEF Single
    <3> HIDE DEF s, l
    <3>6. IsFiniteSet(s) /\ IsFiniteSet(l) /\ Cardinality(s) \in Nat /\ Cardinality(l) \in Nat
        BY <3>4, SizesIn
    <3>7. Cardinality(s \ {p}) = Cardinality(s) - 1 /\ Cardinality(l \ {c}) = Cardinality(l) - 1
        BY <3>4, <3>6, FS_RemoveElement
    <3>8. Cardinality(s \ {p}) <= 1 + Cardinality(l \ {c})
        BY <3>5, <3>6, <3>7
    <3> QED BY <3>3, <3>8
  <2> QED BY <2>2, <2>3, <2>4
<1> QED BY <1>6 DEF SingleInv

(* The root makes one call of two, and one link more is under way in it.  *)
LEMMA RootSingle ==
    ASSUME TypeOK, HandlersInv, SingleInv, [Next]_vars, NEW c \in Try, LinkRoot(c)
    PROVE  SingleInv'
<1>1. PICK q \in Try : q = job[c]["route"].head
    BY Rooting
<1>2. /\ row' \in [Try -> Row] /\ row[c].root = None /\ row'[c].root = q
      /\ row'[c].at = row[c].at /\ row'[c].hid = row[c].hid
      /\ \A d \in Try \ {c} : row'[d] = row[d]
    BY <1>1, Rooting
<1>3. Goes(c, "route", "hide") /\ At(c, "route", "root") /\ twice' = twice /\ cut' = cut /\ "route" \in Handler
    BY LinkRootMoves DEF LinkRoot, Handler
<1>4. Shown' = Shown
    BY <1>2 DEF Shown
<1>5. Linking' = Linking \cup {c} /\ c \notin Linking
    BY <1>3 DEF Linking, Goes, Turns, At
<1>a. PICK A : A = CallOf(c)
    OBVIOUS
<1>b. PICK B : B = CallOf(q)
    OBVIOUS
<1>6. Closed(A) /\ Closed(B) /\ c \in A /\ q \in B /\ A \subseteq Try /\ B \subseteq Try
  <2>1. Closed(CallOf(c)) /\ c \in CallOf(c) /\ Closed(CallOf(q)) /\ q \in CallOf(q)
      BY CallClosed
  <2> QED BY <1>a, <1>b, <2>1 DEF CallOf
<1>7. \A x, y \in Try : SameCall(x, y) => SameCall(x, y)'
    BY Lasting
<1>8. SameCall(c, q)' /\ SameCall(q, c)'
  <2>1. ASSUME NEW S, Closed(S)' PROVE c \in S <=> q \in S
      BY <2>1, <1>2, TryAssumption DEF Closed, Root
  <2> QED BY <2>1 DEF SameCall
<1>9. Closed(A \cup B)'
  <2>1. ASSUME NEW e \in Try PROVE e \in A \cup B <=> Root(row'[e], e) \in A \cup B
    <3>1. CASE e = c
        BY <1>2, <1>6, <3>1, TryAssumption DEF Root
    <3>2. CASE e # c
      <4>1. Root(row'[e], e) = Root(row[e], e)
          BY <1>2, <3>2 DEF Root
      <4> QED BY <1>6, <4>1 DEF Closed
    <3> QED BY <3>1, <3>2
  <2> QED BY <2>1 DEF Closed
<1>o. \A x, y, z \in Try : SameCall(x, y)' /\ SameCall(y, z)' => SameCall(x, z)'
    BY DEF SameCall
<1>10. ASSUME NEW e \in A \cup B PROVE CallOf(e)' = A \cup B
  <2>1. e \in Try
      BY <1>6
  <2>2. ASSUME NEW d \in Try, SameCall(e, d)' PROVE d \in A \cup B
    <3>1. A \cup B \in SUBSET Try
        BY <1>6
    <3> QED BY <1>9, <2>2, <3>1 DEF SameCall
  <2>3. SameCall(e, c)'
    <3>1. CASE e \in A
      <4>1. SameCall(e, c)
          BY <1>a, <2>1, <3>1, SameCallBack DEF CallOf
      <4> QED BY <1>7, <2>1, <4>1
    <3>2. CASE e \in B
      <4>1. SameCall(e, q)
          BY <1>b, <2>1, <3>2, SameCallBack DEF CallOf
      <4> QED BY <1>7, <1>8, <1>o, <2>1, <4>1
    <3> QED BY <3>1, <3>2
  <2>4. ASSUME NEW d \in A \cup B PROVE d \in Try /\ SameCall(c, d)'
    <3>1. d \in Try
        BY <1>6
    <3>2. CASE d \in A
      <4>1. SameCall(c, d)
          BY <1>a, <3>2 DEF CallOf
      <4> QED BY <1>7, <3>1, <4>1
    <3>3. CASE d \in B
      <4>1. SameCall(q, d)
          BY <1>b, <3>3 DEF CallOf
      <4> QED BY <1>7, <1>8, <1>o, <3>1, <4>1
    <3> QED BY <3>1, <3>2, <3>3
  <2>5. ASSUME NEW d \in A \cup B PROVE d \in Try /\ SameCall(e, d)'
      BY <1>o, <2>1, <2>3, <2>4
  <2> QED BY <2>2, <2>5 DEF CallOf
<1>11. ASSUME NEW e \in Try, e \notin A \cup B PROVE CallOf(e)' = CallOf(e)
  <2>1. PICK S \in SUBSET Try : S = CallOf(e)
      BY DEF CallOf
  <2>2. Closed(S) /\ e \in S
      BY <2>1, CallClosed
  <2>3. c \notin S /\ q \notin S
    <3>1. c \in S => SameCall(e, c)
        BY <2>1 DEF CallOf
    <3>2. q \in S => SameCall(e, q)
        BY <2>1 DEF CallOf
    <3>3. c \in S => e \in A
        BY <1>a, <3>1, SameCallBack DEF CallOf
    <3>4. q \in S => e \in B
        BY <1>b, <3>2, SameCallBack DEF CallOf
    <3> QED BY <1>11, <3>3, <3>4
  <2>4. Closed(S)'
    <3>1. ASSUME NEW x \in Try PROVE x \in S <=> Root(row'[x], x) \in S
        BY <1>2, <2>2, <2>3, TryAssumption DEF Closed, Root
    <3> QED BY <3>1 DEF Closed
  <2>5. ASSUME NEW d \in Try, SameCall(e, d)' PROVE d \in S
      BY <2>2, <2>4, <2>5 DEF SameCall
  <2>6. ASSUME NEW d \in S PROVE SameCall(e, d)'
      BY <1>7, <2>1 DEF CallOf
  <2>7. CallOf(e)' = S
      BY <2>5, <2>6 DEF CallOf
  <2> QED BY <2>1, <2>7
<1>12. Single(c) /\ Single(q)
    BY DEF SingleInv
<1>13. PICK Z : Z = Shown
    OBVIOUS
<1>14. PICK L : L = Linking
    OBVIOUS
<1>15. Z \subseteq Try /\ L \subseteq Try /\ c \notin L /\ Shown' = Z /\ Linking' = L \cup {c}
    BY <1>4, <1>5, <1>13, <1>14 DEF Shown, Linking
<1>16. ASSUME (A \cup B) \cap (twice \cup cut) = {}
       PROVE  Cardinality((A \cup B) \cap Z) <= 1 + Cardinality((A \cup B) \cap (L \cup {c}))
  <2>1. /\ Cardinality(A \cap Z) <= 1 + Cardinality(A \cap L)
        /\ Cardinality(B \cap Z) <= 1 + Cardinality(B \cap L)
      BY <1>a, <1>b, <1>12, <1>13, <1>14, <1>16 DEF Single
  <2>2. (A \cup B) \cap (L \cup {c}) = ((A \cup B) \cap L) \cup {c}
      BY <1>6
  <2>3. PICK k : k = (A \cup B) \cap L
      OBVIOUS
  <2>4. IsFiniteSet(k) /\ Cardinality(k) \in Nat /\ c \notin k /\ k \in SUBSET Try
    <3>1. k \in SUBSET Try /\ c \notin k
        BY <1>15, <2>3
    <3> QED BY <3>1, SizesIn
  <2>5. Cardinality(k \cup {c}) = Cardinality(k) + 1
      BY <2>4, FS_AddElement
  <2>6. CASE A = B
    <3>1. A \cup B = A /\ k = A \cap L
        BY <2>3, <2>6
    <3>2. PICK s : s = A \cap Z
        OBVIOUS
    <3>3. s \in SUBSET Try
        BY <1>15, <3>2
    <3>4. Cardinality(s) \in Nat
        BY <3>3, SizesIn
    <3>5. Cardinality(s) <= 1 + Cardinality(k \cup {c})
        BY <2>1, <2>4, <2>5, <3>1, <3>2, <3>4
    <3> QED BY <2>2, <2>3, <3>1, <3>2, <3>5
  <2>7. CASE A # B
    <3>1. A \cap B = {}
      <4> SUFFICES ASSUME NEW d \in A, d \in B PROVE A = B
          BY <2>7
      <4>1. d \in Try /\ SameCall(c, d) /\ SameCall(q, d)
          BY <1>a, <1>b DEF CallOf
      <4>2. SameCall(d, c) /\ SameCall(d, q)
          BY <4>1, SameCallBack
      <4>3. SameCall(c, q) /\ SameCall(q, c)
          BY <4>1, <4>2, SameCallOn
      <4> QED BY <1>a, <1>b, <4>3, SameCallOn DEF CallOf
    <3>2. PICK s : s = A \cap Z
        OBVIOUS
    <3>3. PICK t : t = B \cap Z
        OBVIOUS
    <3>4. PICK l : l = A \cap L
        OBVIOUS
    <3>5. PICK m : m = B \cap L
        OBVIOUS
    <3>6. /\ s \in SUBSET Try /\ t \in SUBSET Try /\ l \in SUBSET Try /\ m \in SUBSET Try
          /\ s \cap t = {} /\ l \cap m = {} /\ (A \cup B) \cap Z = s \cup t /\ k = l \cup m
        BY <1>6, <2>3, <3>1, <3>2, <3>3, <3>4, <3>5
    <3>7. /\ IsFiniteSet(s) /\ IsFiniteSet(t) /\ IsFiniteSet(l) /\ IsFiniteSet(m)
          /\ Cardinality(s) \in Nat /\ Cardinality(t) \in Nat /\ Cardinality(l) \in Nat /\ Cardinality(m) \in Nat
        BY <3>6, SizesIn
    <3>8. Cardinality(s \cap t) = 0 /\ Cardinality(l \cap m) = 0
        BY <3>6, FS_EmptySet
    <3>9. /\ Cardinality(s \cup t) = Cardinality(s) + Cardinality(t) - Cardinality(s \cap t)
          /\ Cardinality(l \cup m) = Cardinality(l) + Cardinality(m) - Cardinality(l \cap m)
        BY <3>7, FS_Union
    <3>a. Cardinality(s) <= 1 + Cardinality(l) /\ Cardinality(t) <= 1 + Cardinality(m)
        BY <2>1, <3>2, <3>3, <3>4, <3>5
    <3>b. Cardinality(k) = Cardinality(l) + Cardinality(m)
        BY <3>6, <3>7, <3>8, <3>9
    <3>c. Cardinality(s \cup t) <= 1 + Cardinality(k \cup {c})
        BY <2>5, <3>7, <3>8, <3>9, <3>a, <3>b
    <3> QED BY <2>2, <2>3, <3>6, <3>c
  <2> QED BY <2>6, <2>7
<1>17. ASSUME NEW e \in Try PROVE Single(e)'
  <2>1. CASE e \in A \cup B
    <3>1. CallOf(e)' = A \cup B
        BY <1>10, <2>1
    <3> QED BY <1>3, <1>15, <1>16, <3>1 DEF Single
  <2>2. CASE e \notin A \cup B
    <3>1. CallOf(e)' = CallOf(e)
        BY <1>11, <2>2
    <3>2. Single(e) /\ Linking \subseteq Linking'
        BY <1>5 DEF SingleInv
    <3> QED BY <1>3, <1>4, <3>1, <3>2, SingleFrame
  <2> QED BY <2>1, <2>2
<1> QED BY <1>17 DEF SingleInv

LEMMA SingleStep == TypeOK /\ HandlersInv /\ SingleInv /\ [Next]_vars => SingleInv'
<1> SUFFICES ASSUME TypeOK, HandlersInv, SingleInv, [Next]_vars PROVE SingleInv'
    OBVIOUS
<1>h. {"route", "held", "sweep", "worker"} \cup Whole \subseteq Handler /\ row \in [Try -> Row] /\ "route" \notin Whole
    BY DEF Handler, Whole, TypeOK
<1>1. ASSUME NEW c \in Try, NEW h \in Handler, Turns(c, h), h # "route" \/ ~At(c, "route", "hide"),
             \A d \in Try : row'[d].root = row[d].root /\ (d \in Shown' => d \in Shown),
             twice \subseteq twice', cut \subseteq cut'
      PROVE  SingleInv'
    BY <1>1, LinkingKept, SinglesFrame
<1>2. ASSUME NEW c \in Try, RouteSend(c) \/ RouteRefuse(c) \/ SweepSave(c) PROVE SingleInv'
  <2>1. \A d \in Try : /\ row'[d].at = row[d].at /\ row'[d].root = row[d].root /\ row'[d].hid = row[d].hid
    <3>1. /\ row'[c].at = row[c].at /\ row'[c].root = row[c].root /\ row'[c].hid = row[c].hid
          /\ \A d \in Try \ {c} : row'[d] = row[d]
        BY <1>2, Sending
    <3> QED BY <3>1
  <2>2. \A d \in Try : d \in Shown' => d \in Shown
      BY <2>1 DEF Shown
  <2>3. (Turns(c, "route") /\ ~At(c, "route", "hide")) \/ Turns(c, "sweep")
      BY <1>2, RouteSendMoves, RouteRefuseMoves, SweepSaveMoves DEF Goes, Ends, RouteSend, RouteRefuse, At
  <2>4. twice' = twice /\ cut' = cut
      BY <1>2 DEF RouteSend, RouteRefuse, SweepSave
  <2> QED BY <1>h, <1>1, <2>1, <2>2, <2>3, <2>4
<1>3. ASSUME NEW c \in Try, NEW h \in Handler, SaveWhole(c, h) PROVE SingleInv'
  <2>1. /\ h \in Whole /\ row'[c].at = row[c].at /\ row'[c].root = row[c].root
        /\ \A d \in Try \ {c} : row'[d] = row[d]
      BY <1>3, SavingWhole
  <2>2. Turns(c, h) /\ cut' = cut /\ twice' = IF row[c].hid /\ ~row'[c].hid THEN twice \cup {c} ELSE twice
      BY <1>3, SaveWholeMoves DEF Goes, SaveWhole
  <2>3. \A d \in Try : d \in Linking => d \in Linking'
      BY <1>h, <2>1, <2>2, LinkingKept
  <2>4. \A d \in Try : row'[d].root = row[d].root /\ (d # c => (d \in Shown' => d \in Shown))
      BY <2>1 DEF Shown
  <2>5. c \in twice' \/ (c \in Shown' => c \in Shown)
      BY <2>1, <2>2 DEF Shown
  <2> QED BY <2>2, <2>3, <2>4, <2>5, SinglesFrame
<1>4. ASSUME NEW c \in Try, NEW h \in Handler, row' = row, Turns(c, h), h # "route" \/ ~At(c, "route", "hide"),
             twice' = twice, cut \subseteq cut'
      PROVE  SingleInv'
  <2>1. \A d \in Try : row'[d].root = row[d].root /\ (d \in Shown' => d \in Shown)
      BY <1>4 DEF Shown
  <2> QED BY <1>1, <1>4, <2>1
<1>5. ASSUME NEW c \in Try, RouteFind(c) \/ RouteFold(c) \/ LinkDrop(c) PROVE SingleInv'
  <2>1. Turns(c, "route") /\ row' = row /\ ~At(c, "route", "hide") /\ twice' = twice /\ cut' = cut
      BY <1>5, RouteFindMoves, RouteFoldMoves, LinkDropMoves
         DEF Ends, Goes, RouteFind, RouteFold, LinkDrop, At, Fresh
  <2> QED BY <1>h, <1>4, <2>1
<1>6. ASSUME NEW c \in Try, HeldRead(c) PROVE SingleInv'
  <2>1. row' = row /\ twice' = twice /\ cut' = cut
      BY <1>6, Zenon DEF HeldRead
  <2>2. CASE UNCHANGED job
    <3>1. \A d \in Try : row'[d].root = row[d].root /\ (d \in Shown' => d \in Shown) /\ (d \in Linking => d \in Linking')
        BY <2>1, <2>2 DEF Shown, Linking, At
    <3> QED BY <2>1, <3>1, SinglesFrame
  <2>3. CASE ~UNCHANGED job
    <3>1. Turns(c, "held")
        BY <1>6, <2>3, HeldReadMoves DEF Starts
    <3> QED BY <1>h, <1>4, <2>1, <3>1
  <2> QED BY <2>2, <2>3
<1>7. ASSUME NEW c \in Try, NEW h \in Handler, EndRead(c, h) PROVE SingleInv'
  <2>1. Turns(c, h) /\ h # "route" /\ row' = row /\ twice' = twice /\ cut' = cut
      BY <1>7, EndReadMoves DEF Starts, EndRead
  <2> QED BY <1>4, <2>1
<1>8. ASSUME NEW c \in Try, HeldRemember(c) \/ SweepRead(c) \/ WorkerTake(c) PROVE SingleInv'
  <2>1. Turns(c, "held") \/ Turns(c, "sweep") \/ Turns(c, "worker")
      BY <1>8, HeldRememberMoves, SweepReadMoves, WorkerTakeMoves DEF Ends, Starts
  <2>2. row' = row /\ twice' = twice /\ cut' = cut
      BY <1>8 DEF HeldRemember, SweepRead, WorkerTake
  <2> QED BY <1>h, <1>4, <2>1, <2>2
<1>9. ASSUME NEW c \in Try, NEW h \in Handler,
             \/ MirrorRead(c, h) \/ MirrorWrite(c, h) \/ MirrorCheck(c, h) \/ MirrorClear(c, h)
             \/ MirrorFails(c, h)
      PROVE  SingleInv'
  <2>1. /\ row' = row /\ twice' = twice /\ cut \subseteq cut'
        /\ job[c][h].at \in {"read", "write", "check", "clear"}
      BY <1>9 DEF MirrorRead, MirrorWrite, MirrorCheck, MirrorClear, MirrorFails, At
  <2>2. Turns(c, h)
    <3>1. ASSUME After(c, h) PROVE Turns(c, h)
        BY <3>1 DEF After, Goes, Ends
    <3> QED BY <1>9, <3>1, MirrorReadMoves, MirrorWriteMoves, MirrorCheckMoves, MirrorClearMoves,
               MirrorFailsMoves DEF Goes
  <2> QED BY <1>4, <2>1, <2>2 DEF At
<1>10. ASSUME NEW c \in Try, NEW h \in Handler, Killed(c, h) PROVE SingleInv'
  <2>1. row' = row /\ twice' = twice /\ cut' = cut \cup ({c, job[c][h].prev} \ {None})
      BY <1>10 DEF Killed
  <2>2. c \in cut'
      BY <2>1, TryAssumption
  <2>3. \A d \in Try : d # c /\ d \in Linking => d \in Linking'
    <3>1. \A d \in Try : d # c => job'[d]["route"] = job[d]["route"]
        BY <1>h, <1>10, KilledMoves DEF Ends, Turns
    <3> QED BY <3>1 DEF Linking, At
  <2>4. \A d \in Try : row'[d].root = row[d].root /\ (d \in Shown' => d \in Shown)
      BY <2>1 DEF Shown
  <2> QED BY <2>1, <2>2, <2>3, <2>4, SinglesFrame
<1>11. CASE UNCHANGED vars
  <2>1. \A d \in Try : row'[d].root = row[d].root /\ (d \in Shown' => d \in Shown) /\ (d \in Linking => d \in Linking')
      BY <1>11 DEF vars, Shown, Linking, At
  <2>2. twice' = twice /\ cut' = cut
      BY <1>11 DEF vars
  <2>3. CASE Try = {}
      BY <2>3 DEF SingleInv
  <2> QED BY <2>1, <2>2, <2>3, SinglesFrame
<1> QED BY <1>2, <1>3, <1>5, <1>6, <1>7, <1>8, <1>9, <1>10, <1>11, CreateSingle, HideSingle, RootSingle DEF Next

-----------------------------------------------------------------------------
LEMMA Starting == Init => TypeOK /\ HandlersInv /\ ReportsInv /\ KeptInv /\ SingleInv
<1> SUFFICES ASSUME Init PROVE TypeOK /\ HandlersInv /\ ReportsInv /\ KeptInv /\ SingleInv
    OBVIOUS
<1>1. TypeOK
  <2>1. NoCopy \in Copy
      BY DEF NoCopy, Copy
  <2> QED BY <2>1, Blanks, BoundsAssumption DEF Init, TypeOK
<1>2. \A c \in Try : /\ row[c] = NoRow /\ row[c].at = 0 /\ row[c].root = None /\ ~row[c].hid
                     /\ dial[c] = "none" /\ copy[c] = NoCopy
                     /\ \A h \in Handler : job[c][h] = NewJob /\ job[c][h].at = "new"
    BY BlankRow, BlankJobs DEF Init
<1>3. {"route", "sweep"} \cup Whole \subseteq Handler
    BY DEF Handler, Whole
<1>4. Cardinality(Created) \in Nat
  <2>1. Created \in SUBSET Try
      BY DEF Created
  <2> QED BY <2>1, SizesIn
<1>5. HandlersInv
  <2>1. ASSUME NEW c \in Try PROVE Begins(c)
      BY <1>2, <1>3, <1>4 DEF Begins, At
  <2>2. ASSUME NEW c \in Try PROVE Reads(c)
      BY <1>2 DEF Reads, ReadsAt
  <2>3. ASSUME NEW c \in Try PROVE Links(c)
      BY <1>2, <1>3, BlankJobs DEF Links
  <2> QED BY <2>1, <2>2, <2>3 DEF HandlersInv
<1>6. ReportsInv
    BY <1>2 DEF ReportsInv, Hidden, Copied, Shown
<1>7. KeptInv
    BY <1>2, <1>3 DEF KeptInv, Kept, Was, At
<1>8. SingleInv
  <2>1. Shown = {}
      BY <1>2 DEF Shown
  <2>2. ASSUME NEW c \in Try PROVE Single(c)
    <3>1. CallOf(c) \cap Linking \in SUBSET Try
        BY DEF CallOf
    <3>2. PICK k : k = CallOf(c) \cap Linking
        OBVIOUS
    <3>3. Cardinality(k) \in Nat
        BY <3>1, <3>2, SizesIn
    <3>4. CallOf(c) \cap Shown = {}
        BY <2>1
    <3>5. Cardinality({}) = 0
        BY FS_EmptySet
    <3>6. Cardinality(CallOf(c) \cap Shown) = 0
        BY <3>4, <3>5
    <3>7. Cardinality(CallOf(c) \cap Shown) <= 1 + Cardinality(k)
        BY <3>3, <3>6
    <3> QED BY <3>2, <3>7 DEF Single
  <2> QED BY <2>2 DEF SingleInv
<1> QED BY <1>1, <1>5, <1>6, <1>7, <1>8

(* What the handlers hold at each statement, at every step. *)
LEMMA HandlersHold == Spec => [](TypeOK /\ HandlersInv)
<1>1. Init => TypeOK /\ HandlersInv
    BY Starting
<1>2. TypeOK /\ HandlersInv /\ [Next]_vars => (TypeOK /\ HandlersInv)'
    BY TypeStep, HandlersStep
<1> QED BY <1>1, <1>2, PTL DEF Spec

(* Every state is one of the types: what a handler holds, and what the     *)
(* rows and the copies say (routing/models.py, analytics/models.py).  A    *)
(* copy is never written of a row that has no outcome, which takes what    *)
(* the handlers hold.                                                      *)
THEOREM TypesHold == Spec => []TypeOK
  BY HandlersHold, PTL

(* Once the handlers are through, no report counts a hidden try, and a try *)
(* that is shown is in the reports as its row has it, unless a mirror      *)
(* wrote later than the change it had not read (signals.py, "whichever     *)
(* runs last, the copy goes"): for any number of tries and of handlers.    *)
THEOREM ReportsAreCurrent == Spec => []ReportsCurrent
<1>1. Init => ReportsInv
    BY Starting
<1>2. TypeOK /\ HandlersInv /\ ReportsInv /\ [Next]_vars => ReportsInv'
    BY ReportsStep
<1>3. ReportsInv => ReportsCurrent
  <2> SUFFICES ASSUME ReportsInv, Quiet, NEW c \in Try \ cut
               PROVE  /\ row[c].hid => copy[c] = NoCopy
                      /\ c \in Shown \ late /\ row[c].st \in Finished => copy[c] = View(row[c])
      BY DEF ReportsCurrent
  <2>1. Hidden(c) /\ Copied(c) /\ "route" \in Handler
      BY DEF ReportsInv, Handler
  <2>2. c \notin queued /\ \A d \in Try, h \in Handler : job[d][h].at \in {"new", "done"}
      BY DEF Quiet, Idle
  <2> QED BY <2>1, <2>2 DEF Hidden, Copied, At
<1> QED BY <1>1, <1>2, <1>3, HandlersHold, PTL DEF Spec

(* Whatever the redials and the whole-row saves do between each other's    *)
(* statements, a hidden try has a later try of its call shown: the log     *)
(* never loses a call (retry_group.link).                                  *)
THEOREM CallsStayShown == Spec => []CallStaysShown
<1>1. Init => KeptInv
    BY Starting
<1>2. TypeOK /\ HandlersInv /\ KeptInv /\ [Next]_vars => KeptInv'
    BY KeptStep
<1>3. KeptInv => CallStaysShown
    BY DEF KeptInv, Kept, Was, CallStaysShown
<1> QED BY <1>1, <1>2, <1>3, HandlersHold, PTL DEF Spec

(* A call shows two of its tries only when two handlers overlapped on it   *)
(* or one was killed: nothing else undoes the grouping of link.            *)
THEOREM ShownTwiceByOverlapOnly == Spec => []ShownTwiceOnlyByOverlap
<1>1. Init => SingleInv
    BY Starting
<1>2. TypeOK /\ HandlersInv /\ SingleInv /\ [Next]_vars => SingleInv'
    BY SingleStep
<1>3. TypeOK /\ SingleInv => ShownTwiceOnlyByOverlap
  <2> SUFFICES ASSUME TypeOK, SingleInv, Quiet, NEW c \in Shown, NEW d \in Shown, c # d, SameCall(c, d),
                      ~\E e \in twice \cup cut : SameCall(c, e)
               PROVE  FALSE
      BY DEF ShownTwiceOnlyByOverlap
  <2>1. c \in Try /\ d \in Try
      BY DEF Shown
  <2>2. CallOf(c) \cap (twice \cup cut) = {}
      BY DEF CallOf
  <2>3. CallOf(c) \cap Linking = {}
      BY DEF Quiet, Idle, Linking, At, Handler
  <2>4. PICK s : s = CallOf(c) \cap Shown
      OBVIOUS
  <2>5. s \in SUBSET Try /\ {c, d} \in SUBSET s
      BY <2>1, <2>4, SameCallSelf DEF CallOf
  <2>6. Cardinality({c, d}) <= Cardinality(s) /\ Cardinality(s) \in Nat
      BY <2>5, SizesIn
  <2>7. Cardinality({c} \cup {d}) = 2
    <3>1. IsFiniteSet({c}) /\ Cardinality({c}) = 1
        BY FS_Singleton
    <3> QED BY <3>1, FS_AddElement
  <2>8. {c, d} = {c} \cup {d} /\ Cardinality({}) = 0
      BY FS_EmptySet
  <2>9. Cardinality(s) <= 1
      BY <2>1, <2>2, <2>3, <2>4, <2>8 DEF SingleInv, Single
  <2> QED BY <2>6, <2>7, <2>8, <2>9
<1> QED BY <1>1, <1>2, <1>3, HandlersHold, PTL DEF Spec
=============================================================================
