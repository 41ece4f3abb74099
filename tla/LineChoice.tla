------------------------------ MODULE LineChoice ------------------------------
(***************************************************************************)
(* Which line rings for a caller: the calls of one caller to one campaign, *)
(* with duplicate handling, failover, the rotation of a buyer's lines, and *)
(* Server A deciding alone from its journal while Server B is away.        *)
(*                                                                         *)
(* B decides and saves under the workspace's route lock, A under its own   *)
(* file lock, so a decision is one step (RouteLimits has the lock).        *)
(* Server A's avx_fallback.py is written after the engine: both use the    *)
(* same choice here, each on what it knows.                                *)
(***************************************************************************)
EXTENDS Integers, FiniteSets, Sequences, SequencesExt

CONSTANTS
    NCalls,      \* bound: the caller's calls, numbered as they arrive
    Tfn,         \* lines on the buyers' Destinations pages
    Unlisted,    \* numbers that are on no page
    Blank,       \* a destination text without digits
    None,
    Buyer,
    Plans,       \* campaigns to choose from
    MaxTries,    \* FAILOVER_MAX_TRIES
    MaxSent,     \* bound: the lines one call is sent to
    MaxChanges,  \* bound: changes of a line's state
    MaxOutages   \* bound: times B goes away

Call == 1 .. NCalls
Number == Tfn \cup Unlisted \cup {Blank}

(* A campaign: each buyer's lines, oldest first; the active rules by       *)
(* priority, their lines by priority and age.                              *)
RuleLine == [num : Number, buyer : Buyer, phone : BOOLEAN, prio : Nat, weight : Nat]

Rule == [kind : {"priority", "round_robin", "weighted"}, lines : Seq(RuleLine)]
Plan == [page : [Buyer -> Seq(Tfn)], rules : Seq(Rule)]

ASSUME PlansAssumption == Plans \subseteq Plan
ASSUME NumberAssumption == None \notin Number
ASSUME BoundsAssumption == {NCalls, MaxTries, MaxSent} \subseteq Nat \ {0} /\ {MaxChanges, MaxOutages} \subseteq Nat

VARIABLES
    plan, mode,     \* the campaign and its duplicate handling
    state,          \* of each line: open, or switched off, its cap or its CC full
    up,             \* B answers
    row,            \* B's rows of the calls
    jour,           \* A's journal
    sw,             \* the calls at the switch
    talked,         \* calls a buyer answered
    turnB, turnA,   \* buyer_live_rr_<buyer>, at B and at A
    rrB, rrA,       \* round_robin_<rule>
    changes, outages,
    sent,           \* history: the numbers each call was sent to, and whose they were
    refused         \* history: calls refused, or left without a next line

choiceVars == <<plan, mode, state, up, row, jour, sw, talked, turnB, turnA, rrB, rrA, changes, outages,
          sent, refused>>
rotB == <<turnB, rrB>>
rotA == <<turnA, rrA>>

Mode == {"normal", "original", "different", "different_buyer"}
Miss == [num : Number, buyer : Buyer]
Row == [st : {"none", "ringing", "in_progress", "no_answer", "completed"},
        dest : Number \cup {None}, buyer : Buyer \cup {None}, tries : SUBSET Miss]
Entry == [src : {"none", "a", "b"}, dest : Number \cup {None}, buyer : Buyer \cup {None}]

NoRow == [st |-> "none", dest |-> None, buyer |-> None, tries |-> {}]
NoEntry == [src |-> "none", dest |-> None, buyer |-> None]

ChoiceInit ==
    /\ plan \in Plans /\ mode \in Mode
    /\ state = [t \in Tfn |-> "open"]
    /\ up = TRUE
    /\ row = [c \in Call |-> NoRow]
    /\ jour = [c \in Call |-> NoEntry]
    /\ sw = [c \in Call |-> "new"]
    /\ talked = {}
    /\ turnB = [b \in Buyer |-> 0] /\ turnA = turnB
    /\ rrB = [k \in DOMAIN plan.rules |-> 0] /\ rrA = rrB
    /\ changes = 0 /\ outages = 0
    /\ sent = [c \in Call |-> <<>>]
    /\ refused = {}

-----------------------------------------------------------------------------
(* What the duplicate rules say: `only` the line to go back to, `nums` and *)
(* `buyers` the ones to stay away from, `tried` the lines of this call.    *)

Page(b) == ToSet(plan.page[b])
Free(tried) == [only |-> None, nums |-> {}, buyers |-> {}, tried |-> tried]

(* Mutant: only a call that was answered has reached its line. *)
ReachedAnswered ==
    {[num |-> row[c].dest, buyer |-> row[c].buyer] :
        c \in {i \in Call : row[i].st \in {"completed", "in_progress"} /\ row[i].dest # None}}

(* Every line B sent the caller to, the hidden rows of missed lines too.   *)
Reached ==
    {[num |-> row[c].dest, buyer |-> row[c].buyer] : c \in {i \in Call : row[i].dest # None}}
        \cup UNION {row[c].tries : c \in Call}

(* The rows that pin a caller to a line: sent, or answered.                *)
Pins == {c \in Call : row[c].st \in {"completed", "in_progress"} /\ row[c].dest # None}

Newest(calls, dest) ==
    IF calls = {} THEN None
    ELSE LET n == dest[CHOOSE c \in calls : \A d \in calls : d <= c]
         IN IF n = Blank THEN None ELSE n

Different == {"different", "different_buyer"}

Held(only, reached, tried) ==
    [only |-> IF mode = "original" THEN only ELSE None,
     nums |-> IF mode \in Different THEN {m.num : m \in reached} ELSE {},
     buyers |-> IF mode = "different_buyer" THEN {m.buyer : m \in reached} ELSE {},
     tried |-> tried]

HeldB(tried) == Held(Newest(Pins, [c \in Call |-> row[c].dest]), Reached, tried)

(* A knows the calls in its journal, and not which were answered.          *)
Noted == {c \in Call : jour[c].src # "none"}
HeldA == Held(Newest(Noted, [c \in Call |-> jour[c].dest]),
              {[num |-> jour[c].dest, buyer |-> jour[c].buyer] : c \in Noted}, {})

-----------------------------------------------------------------------------
(* The choice of a rule line.  Of a list, its places are handed on.        *)

(* Mutant: a caller held to his line is offered every line. *)
AllowedUnheld(l, x) == l.num \notin x.tried \cup x.nums /\ l.buyer \notin x.buyers

Allowed(l, x) ==
    /\ l.num \notin x.tried
    /\ x.only # None => l.num = x.only
    /\ l.num \notin x.nums
    /\ l.buyer \notin x.buyers

(* Listed, switched on, with room.  A line that names its buyer without a  *)
(* number of ten digits is not looked up.                                  *)
Ready(l) ==
    /\ l.phone /\ l.num # Blank => l.num \in Page(l.buyer)
    /\ l.num \in Page(l.buyer) => state[l.num] = "open"

(* The place in S with m others before it: places count from 0.            *)
Nth(S, m) == {i \in S : Cardinality({j \in S : j < i}) = m}
First(S) == {i \in S : \A j \in S : i <= j}

(* _by_weight: in proportion to weight; the first one when all are zero.   *)
ByWeight(lines, S) ==
    LET heavy == {i \in S : lines[i].weight > 0}
    IN IF heavy = {} THEN First(S) ELSE heavy

(* get_valid_destination: the first priority with a line that can take it. *)
ByPriority(lines, x) ==
    LET able == {i \in DOMAIN lines : Allowed(lines[i], x) /\ Ready(lines[i])}
    IN ByWeight(lines, {i \in able : \E f \in First(able) : lines[i].prio = lines[f].prio})

(* Mutant: the place after the last is one too far. *)
TurnPast(i, n) == (i + 1) % (n + 1)

(* The place in the round after place i, of n.                             *)
Turn(i, n) == (i + 1) % n

(* The choices of one rule, each with the rule's next place in the round.  *)
OfRule(r, place, x) ==
    LET pool == {i \in DOMAIN r.lines : Allowed(r.lines[i], x)}
        n == Cardinality(pool)
        picked == IF r.kind = "priority" THEN ByPriority(r.lines, x)
                  ELSE IF r.kind = "weighted" THEN ByWeight(r.lines, pool)
                  ELSE Nth(pool, place % n)
    IN {[line |-> r.lines[i],
         place |-> IF r.kind = "round_robin" THEN Turn(place, n) ELSE place] : i \in picked}

(* The first rule that has one.                                            *)
RunRules(places, x) ==
    LET able == {k \in DOMAIN plan.rules : OfRule(plan.rules[k], places[k], x) # {}}
    IN UNION {{[line |-> o.line, places |-> [places EXCEPT ![k] = o.place], held |-> x] :
                  o \in OfRule(plan.rules[k], places[k], x)} : k \in First(able)}

(* Mutant: a pinned caller whose line is gone is refused. *)
RoutesPinned(places, x) == RunRules(places, x)

(* route_call: Original forwards like a regular call when its line cannot  *)
(* take the caller; Different never does.                                  *)
Routes(places, x) ==
    IF RunRules(places, x) = {} /\ x.only # None
    THEN RunRules(places, Free(x.tried))
    ELSE RunRules(places, x)

(* pick_live_destination: the buyer's next line in turn, past those whose  *)
(* concurrency is full; if that is every one, the next in turn.            *)
PickLive(b, turns, x) ==
    LET page == plan.page[b]
        rows == {i \in DOMAIN page : state[page[i]] \notin {"off", "full"} /\ page[i] \notin x.nums}
        n == Cardinality(rows)
        Step(i) == Nth(rows, (turns[b] + i) % n)
        free == First({i \in 0 .. n - 1 : \E p \in Step(i) : state[page[p]] # "busy"})
        step == IF free = {} THEN 0 ELSE CHOOSE i \in free : TRUE
    IN IF x.only # None
       THEN [num |-> IF x.only \in Page(b) /\ state[x.only] # "off" THEN x.only ELSE None, turns |-> turns]
       ELSE IF n = 0 THEN [num |-> None, turns |-> turns]
       ELSE [num |-> page[CHOOSE p \in Step(step) : TRUE],
             turns |-> IF n = 1 THEN turns ELSE [turns EXCEPT ![b] = Turn(@ + step, n)]]

(* _send_to_destination: one of the buyer's own numbers is dialled as it   *)
(* is, another is replaced by the buyer's line in turn.                    *)
Dialled(o, turns) ==
    LET l == o.line
        p == PickLive(l.buyer, turns, o.held)
    IN IF l.num \in Page(l.buyer) THEN [num |-> l.num, turns |-> turns]
       ELSE [num |-> IF p.num = None THEN l.num ELSE p.num, turns |-> p.turns]

-----------------------------------------------------------------------------
Send(c, n, b) == sent' = [sent EXCEPT ![c] = Append(@, [num |-> n, buyer |-> b])]

Quiet == UNCHANGED <<plan, mode, state, up, changes, outages>>

(* The row of an incoming call; the calls come one after the other.        *)
Arrive(c) ==
    /\ up /\ sw[c] = "new" /\ \A d \in Call : d < c => sw[d] # "new"
    /\ row' = [row EXCEPT ![c].st = "ringing"]
    /\ sw' = [sw EXCEPT ![c] = "asked"]
    /\ Quiet /\ UNCHANGED <<jour, talked, rotB, rotA, sent, refused>>

(* note_b_call skips its note when the journal is busy. *)
RouteB(c) ==
    /\ sw[c] = "asked"
    /\ \E o \in Routes(rrB, HeldB({})) :
         LET d == Dialled(o, turnB) IN
         /\ row' = [row EXCEPT ![c].st = "in_progress", ![c].dest = d.num, ![c].buyer = o.line.buyer]
         /\ jour' \in {jour, [jour EXCEPT ![c] = [src |-> "b", dest |-> d.num, buyer |-> o.line.buyer]]}
         /\ turnB' = d.turns /\ rrB' = o.places
         /\ Send(c, d.num, o.line.buyer)
    /\ sw' = [sw EXCEPT ![c] = "rings"]
    /\ Quiet /\ UNCHANGED <<talked, rotA, refused>>

RefuseB(c) ==
    /\ sw[c] = "asked"
    /\ Routes(rrB, HeldB({})) = {}
    /\ row' = [row EXCEPT ![c].st = "no_answer"]
    /\ sw' = [sw EXCEPT ![c] = "over"]
    /\ refused' = refused \cup {c}
    /\ Quiet /\ UNCHANGED <<jour, talked, rotB, rotA, sent>>

(* B is away: decide() and the journal.                                    *)
RouteA(c) ==
    /\ ~up /\ sw[c] = "new" /\ \A d \in Call : d < c => sw[d] # "new"
    /\ \E o \in Routes(rrA, HeldA) :
         LET d == Dialled(o, turnA) IN
         /\ jour' = [jour EXCEPT ![c] = [src |-> "a", dest |-> d.num, buyer |-> o.line.buyer]]
         /\ turnA' = d.turns /\ rrA' = o.places
         /\ Send(c, d.num, o.line.buyer)
    /\ sw' = [sw EXCEPT ![c] = "rings"]
    /\ Quiet /\ UNCHANGED <<row, talked, rotB, refused>>

RefuseA(c) ==
    /\ ~up /\ sw[c] = "new" /\ \A d \in Call : d < c => sw[d] # "new"
    /\ Routes(rrA, HeldA) = {}
    /\ sw' = [sw EXCEPT ![c] = "over"]
    /\ Quiet /\ UNCHANGED <<row, jour, talked, rotB, rotA, sent, refused>>

(* push_calls and record_call: a call of A's is written at B.              *)
Push(c) ==
    /\ up /\ jour[c].src = "a" /\ row[c].st = "none"
    /\ row' = [row EXCEPT ![c].st = "in_progress", ![c].dest = jour[c].dest, ![c].buyer = jour[c].buyer]
    /\ Quiet /\ UNCHANGED <<jour, sw, talked, rotB, rotA, sent, refused>>

-----------------------------------------------------------------------------
Answer(c) ==
    /\ sw[c] = "rings"
    /\ sw' = [sw EXCEPT ![c] = "talks"] /\ talked' = talked \cup {c}
    /\ Quiet /\ UNCHANGED <<row, jour, rotB, rotA, sent, refused>>

(* The line does not answer.  Only a call B routed asks for another.       *)
RingsOut(c) ==
    /\ sw[c] = "rings"
    /\ sw' = [sw EXCEPT ![c] = IF jour[c].src # "a" THEN "missed" ELSE "ended"]
    /\ Quiet /\ UNCHANGED <<row, jour, talked, rotB, rotA, sent, refused>>

Tried(c) == {row[c].dest} \cup {m.num : m \in row[c].tries}

(* route_next: the missed line becomes a hidden row. *)
NextLine(c) ==
    /\ up /\ sw[c] = "missed" /\ Len(sent[c]) < MaxSent
    /\ Cardinality(Tried(c)) < MaxTries
    /\ \E o \in Routes(rrB, HeldB(Tried(c))) :
         LET d == Dialled(o, turnB) IN
         /\ row' = [row EXCEPT ![c].dest = d.num, ![c].buyer = o.line.buyer,
                               ![c].tries = @ \cup {[num |-> row[c].dest, buyer |-> row[c].buyer]}]
         /\ turnB' = d.turns /\ rrB' = o.places
         /\ Send(c, d.num, o.line.buyer)
    /\ sw' = [sw EXCEPT ![c] = "rings"]
    /\ Quiet /\ UNCHANGED <<jour, talked, rotA, refused>>

NoNextLine(c) ==
    /\ sw[c] = "missed"
    /\ \/ ~up /\ UNCHANGED refused
       \/ up /\ Cardinality(Tried(c)) >= MaxTries /\ UNCHANGED refused
       \/ /\ up /\ Cardinality(Tried(c)) < MaxTries
          /\ Routes(rrB, HeldB(Tried(c))) = {}
          /\ refused' = refused \cup {c}
    /\ sw' = [sw EXCEPT ![c] = "ended"]
    /\ Quiet /\ UNCHANGED <<row, jour, talked, rotB, rotA, sent>>

HangUp(c) ==
    /\ sw[c] \in {"rings", "missed", "talks"}
    /\ sw' = [sw EXCEPT ![c] = "ended"]
    /\ Quiet /\ UNCHANGED <<row, jour, talked, rotB, rotA, sent, refused>>

(* call_ended, once B has the call. *)
Report(c) ==
    /\ up /\ sw[c] = "ended" /\ row[c].st = "in_progress"
    /\ row' = [row EXCEPT ![c].st = IF c \in talked THEN "completed" ELSE "no_answer"]
    /\ sw' = [sw EXCEPT ![c] = "over"]
    /\ Quiet /\ UNCHANGED <<jour, talked, rotB, rotA, sent, refused>>

(* A line is switched on or off, fills up or has room again.               *)
Change(t) ==
    /\ changes < MaxChanges /\ changes' = changes + 1
    /\ \E s \in {"open", "off", "full", "busy"} \ {state[t]} : state' = [state EXCEPT ![t] = s]
    /\ UNCHANGED <<plan, mode, up, row, jour, sw, talked, rotB, rotA, outages, sent, refused>>

Away ==
    /\ up /\ outages < MaxOutages /\ outages' = outages + 1
    /\ \A c \in Call : sw[c] # "asked"
    /\ up' = FALSE
    /\ UNCHANGED <<plan, mode, state, row, jour, sw, talked, rotB, rotA, changes, sent, refused>>

Back ==
    /\ ~up /\ up' = TRUE
    /\ UNCHANGED <<plan, mode, state, row, jour, sw, talked, rotB, rotA, changes, outages, sent, refused>>

ChoiceNext ==
    \/ \E c \in Call :
          \/ Arrive(c) \/ RouteB(c) \/ RefuseB(c) \/ RouteA(c) \/ RefuseA(c) \/ Push(c)
          \/ Answer(c) \/ RingsOut(c) \/ NextLine(c) \/ NoNextLine(c) \/ HangUp(c) \/ Report(c)
    \/ \E t \in Tfn : Change(t)
    \/ Away \/ Back

ChoiceSpec == ChoiceInit /\ [][ChoiceNext]_choiceVars

-----------------------------------------------------------------------------
ChoiceTypeOK ==
    /\ plan \in Plans /\ mode \in Mode
    /\ state \in [Tfn -> {"open", "off", "full", "busy"}]
    /\ up \in BOOLEAN
    /\ row \in [Call -> Row]
    /\ jour \in [Call -> Entry]
    /\ sw \in [Call -> {"new", "asked", "rings", "missed", "talks", "ended", "over"}]
    /\ talked \subseteq Call /\ refused \subseteq Call
    /\ \A b \in Buyer : {turnB[b], turnA[b]} \subseteq {0} \cup 1 .. Len(plan.page[b]) - 1
    /\ \A k \in DOMAIN plan.rules :
          {rrB[k], rrA[k]} \subseteq {0} \cup 1 .. Len(plan.rules[k].lines) - 1
    /\ changes \in 0 .. MaxChanges /\ outages \in 0 .. MaxOutages
    /\ sent \in [Call -> Seq(Miss)] /\ \A c \in Call : Len(sent[c]) <= MaxSent

(* What a router can know of where the caller has been: B every number of  *)
(* a call it has, A the first number of a call it has noted.               *)
KnownB == UNION {ToSet(sent[c]) : c \in {i \in Call : row[i].st # "none"}}
KnownA == {sent[c][1] : c \in Noted}

Again(c) ==
    \E m \in IF jour'[c].src = "a" THEN KnownA ELSE KnownB : m.num = Last(sent'[c]).num

(* "In any case not a single call should be forwarded on the same TFN"     *)
(* (engine.py, duplicates: different): no call rings a number the caller   *)
(* has been sent to, over all his calls, misses, redirected lines and both *)
(* routers, unless the router could not know.                              *)
NeverSameTfn ==
    [][\A c \in Call : (mode \in Different /\ sent'[c] # sent[c]) => ~Again(c)]_choiceVars

(* The rules have number n, and it can take a call. *)
CanTake(n) ==
    /\ n # Blank
    /\ \E k \in DOMAIN plan.rules : \E l \in ToSet(plan.rules[k].lines) : l.num = n /\ Ready(l)

(* The caller's previous call was answered, and no other is going on.      *)
AnsweredLast(c) ==
    /\ c - 1 \in talked /\ row[c - 1].st = "completed"
    /\ \A d \in Call : (d < c => sw[d] = "over") /\ (d > c => sw[d] = "new")

(* "Original means the same destination every time this caller rings": a   *)
(* caller whose last call was answered, and is over, is first sent to the  *)
(* number that answered, whenever a rule has it and it can take the call.  *)
OriginalKept ==
    [][\A c \in Call \ {1} :
          (/\ mode = "original" /\ sw[c] = "asked" /\ sent'[c] # sent[c]
           /\ AnsweredLast(c) /\ CanTake(Last(sent[c - 1]).num))
              => Last(sent'[c]).num = Last(sent[c - 1]).num]_choiceVars

(* A line of a rule that call c may not have any more: it missed the call, *)
(* or, on Different, it or its buyer has had the caller.                   *)
HadIt(c, l) ==
    \/ \E m \in ToSet(sent[c]) : l.num = m.num
    \/ mode \in Different /\ \E m \in KnownB : l.num = m.num
    \/ mode = "different_buyer" /\ \E m \in KnownB : l.buyer = m.buyer

(* "The caller is never lost" (failover.py): B refuses a call, or has no   *)
(* next line for it, only when no rule has a line that could take it.      *)
RefusedOnlyWhenNoneLeft ==
    [][\A c \in refused' \ refused :
          \A k \in DOMAIN plan.rules :
              \A l \in ToSet(plan.rules[k].lines) : Ready(l) => HadIt(c, l)]_choiceVars

(* What the code keeps of the next sentence: failover leaves out the rule  *)
(* lines whose number the call has had, and comes back to a number only    *)
(* when the line it chose names its buyer, by a number that is none of his *)
(* own, and the rotation of the buyer's lines gives that number.           *)
RedialOnlyByRotation ==
    [][\A c \in Call :
          LET last == Last(sent'[c])
              had == {m.num : m \in ToSet(sent[c])}
          IN (sent'[c] # sent[c] /\ last.num \in had) =>
                /\ last.num \in Page(last.buyer)
                /\ \E k \in DOMAIN plan.rules : \E l \in ToSet(plan.rules[k].lines) :
                      l.buyer = last.buyer /\ l.num \notin Page(l.buyer) /\ l.num \notin had]_choiceVars

(* "A destination already tried on this call is not tried again"           *)
(* (failover.py).                                                          *)
TriedNotAgain ==
    \A c \in Call : \A i, j \in DOMAIN sent[c] : sent[c][i].num = sent[c][j].num => i = j
=============================================================================
