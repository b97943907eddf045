----------------------------- MODULE Porcupine -----------------------------
(***************************************************************************)
(* The linearizability checker: checkParallel starts one checkSingle per   *)
(* key and collects the results until one is false, all are there or the   *)
(* time is up.  checkSingle searches with backtracking through a doubly    *)
(* linked list of call and return entries, from which lift takes out an    *)
(* operation and unlift puts it back.                                      *)
(***************************************************************************)
EXTENDS KvModel, FiniteSetsExt, TLC

CONSTANTS
    Op,         \* bounds: the operations without their times,
    FirstKey,   \*   the key of the first one,
    MaxOps,     \*   how many a history has,
    MaxTime,    \*   the last point in time,
    WordBits    \* bits of a word of a bitset (64 in the code)

ASSUME PorcupineAssumption ==
    MaxOps \in Nat /\ MaxTime \in Nat /\ WordBits \in Nat \ {0}

VARIABLES
    history,     \* the operations, in the order in which they were logged
    computeInfo, \* whether the longest linearizations are asked for
    entries,     \* entries[k]: the entries of key k, sorted
    search,      \* search[k]: the variables of checkSingle for key k
    results,     \* the channel of results
    main         \* the variables of checkParallel

vars == <<history, computeInfo, entries, search, results, main>>

Keys   == DOMAIN Partition(history)
Ops(k) == Partition(history)[k]

-----------------------------------------------------------------------------
(* Sorted entries *)

Time(ops, e) == IF e.call THEN ops[e.id + 1].call ELSE ops[e.id + 1].return

\* byTime: calls before returns at the same time.
Less(ops, e, f) ==
    \/ Time(ops, e) < Time(ops, f)
    \/ Time(ops, e) = Time(ops, f) /\ e.call /\ ~f.call

(***************************************************************************)
(* makeEntries: a call and a return entry per operation, sorted.  The sort *)
(* is not stable: what compares equal comes in any order, here the order   *)
(* tie of the operations.  (That adjacent returns follow the same order as *)
(* the calls loses nothing: the search looks at the first of them only.)   *)
(***************************************************************************)
MakeEntries(ops) ==
    LET ids == 0..(Len(ops) - 1)
        Before(tie, e, f) ==
            \/ Less(ops, e, f)
            \/ ~Less(ops, f, e) /\ tie[e.id] < tie[f.id]
        items == [p \in 1..(2 * Len(ops)) |-> [id |-> (p - 1) \div 2, call |-> p % 2 = 1]]
    IN  {SortSeq(items, LAMBDA e, f : Before(tie, e, f)) :
            tie \in Bijection(ids, ids)}

-----------------------------------------------------------------------------
(* bitset *)

NewBitset(bits) ==
    [major \in 0..(bits \div WordBits + (IF bits % WordBits # 0 THEN 1 ELSE 0) - 1) |-> {}]

SetBit(b, pos)   == [b EXCEPT ![pos \div WordBits] = @ \cup {pos % WordBits}]
ClearBit(b, pos) == [b EXCEPT ![pos \div WordBits] = @ \ {pos % WordBits}]

Bits(b) == UNION {{major * WordBits + minor : minor \in b[major]} : major \in DOMAIN b}

-----------------------------------------------------------------------------
(* The list: node 0 is headEntry, node p the p-th entry *)

Nil == -1

\* makeLinkedEntries, and headEntry inserted before the first.
NextLinks(n) == [p \in 0..n |-> IF p = n THEN Nil ELSE p + 1]
PrevLinks(n) == [p \in 0..n |-> p - 1]

\* The return entry of a call; nil for a return entry.
Match(es, p) ==
    IF es[p].call THEN CHOOSE r \in DOMAIN es : es[r].id = es[p].id /\ ~es[r].call
                  ELSE Nil

\* prev of node p becomes q, if there is a node p.
SetPrev(prev, p, q) == IF p = Nil THEN prev ELSE [prev EXCEPT ![p] = q]

\* Takes out the call p, then its return m.
Lift(q, p, m) ==
    LET next == [q.next EXCEPT ![q.prev[p]] = q.next[p]]
        prev == [q.prev EXCEPT ![q.next[p]] = q.prev[p]]
    IN  [q EXCEPT !.next = [next EXCEPT ![prev[m]] = next[m]],
                  !.prev = SetPrev(prev, next[m], prev[m])]

\* Mutant of Unlift: the call's successor keeps pointing past it.
UnliftForward(q, p, m) ==
    [q EXCEPT !.next = [[@ EXCEPT ![q.prev[m]] = m] EXCEPT ![q.prev[p]] = p],
              !.prev = SetPrev(@, q.next[m], m)]

\* Puts the return back, then the call: the reverse of Lift.
Unlift(q, p, m) ==
    LET next == [q.next EXCEPT ![q.prev[m]] = m]
        prev == SetPrev(q.prev, q.next[m], m)
    IN  [q EXCEPT !.next = [next EXCEPT ![prev[p]] = p],
                  !.prev = [prev EXCEPT ![next[p]] = p]]

-----------------------------------------------------------------------------
(* checkSingle *)

NewSearch(es) ==
    [done |-> FALSE, entry |-> IF es = <<>> THEN Nil ELSE 1,
     next |-> NextLinks(Len(es)), prev |-> PrevLinks(Len(es)),
     calls |-> <<>>, state |-> KvInit, linearized |-> NewBitset(Len(es) \div 2),
     cache |-> {}, longest |-> [id \in 0..(Len(es) \div 2 - 1) |-> <<>>]]

\* The ids of the operations linearized so far, in their order.
LinearizedIds(es, q) == [i \in DOMAIN q.calls |-> es[q.calls[i].entry].id]

\* Mutant of CacheContains: the state is not compared.
CacheContainsSet(q, bits, state) == \E c \in q.cache : c.linearized = bits

CacheContains(q, bits, state) == [linearized |-> bits, state |-> state] \in q.cache

\* The call at entry can come next, and was not tried in this situation.
CanLinearize(es, ops, q) ==
    LET step == Step(q.state, ops[es[q.entry].id + 1])
    IN  step.ok /\ ~CacheContains(q, SetBit(q.linearized, es[q.entry].id), step.state)

Linearize(es, ops, q) ==
    LET id   == es[q.entry].id
        to   == Step(q.state, ops[id + 1]).state
        bits == SetBit(q.linearized, id)
        lifted == Lift(q, q.entry, Match(es, q.entry))
    IN  [lifted EXCEPT !.cache = @ \cup {[linearized |-> bits, state |-> to]},
                       !.calls = Append(@, [entry |-> q.entry, state |-> q.state]),
                       !.state = to, !.linearized = bits, !.entry = lifted.next[0]]

\* Mutant of Longest: the first one found stays.
FirstFound(es, q) ==
    [id \in DOMAIN q.longest |->
        IF id \in Range(LinearizedIds(es, q)) /\ q.longest[id] = <<>>
          THEN LinearizedIds(es, q) ELSE q.longest[id]]

\* The longest linearization found so far with each operation (<<>>: none).
Longest(es, q) ==
    [id \in DOMAIN q.longest |->
        IF id \in Range(LinearizedIds(es, q)) /\ Len(q.calls) > Len(q.longest[id])
          THEN LinearizedIds(es, q) ELSE q.longest[id]]

Backtrack(es, q) ==
    LET top == q.calls[Len(q.calls)]
        p   == top.entry
        back == Unlift(q, p, Match(es, p))
    IN  [back EXCEPT !.state = top.state, !.linearized = ClearBit(@, es[p].id),
                     !.calls = SubSeq(@, 1, Len(@) - 1), !.entry = back.next[p],
                     !.longest = IF computeInfo THEN Longest(es, q) ELSE @]

\* checkSingle of key k ends with this result.
Finish(k, result, longest) ==
    /\ search' = [search EXCEPT ![k].done = TRUE, ![k].longest = longest]
    /\ results' = Append(results, result)

\* One turn of the loop.
Turn(k) ==
    LET q  == search[k]
        es == entries[k]
        ops == Ops(k)
        Goto(r) == search' = [search EXCEPT ![k] = r] /\ UNCHANGED results
    IN  /\ k \in DOMAIN search /\ ~q.done
        /\ \/ /\ q.next[0] = Nil
              /\ Finish(k, TRUE, [id \in DOMAIN q.longest |-> LinearizedIds(es, q)])
           \/ /\ q.next[0] # Nil
              /\ main.kill
              /\ Finish(k, FALSE, q.longest)
           \/ /\ q.next[0] # Nil /\ ~main.kill
              /\ es[q.entry].call
              /\ Goto(IF CanLinearize(es, ops, q) THEN Linearize(es, ops, q)
                                                  ELSE [q EXCEPT !.entry = q.next[@]])
           \/ /\ q.next[0] # Nil /\ ~main.kill
              /\ ~es[q.entry].call
              /\ IF q.calls = <<>> THEN Finish(k, FALSE, q.longest)
                                   ELSE Goto(Backtrack(es, q))
        /\ UNCHANGED <<history, computeInfo, entries, main>>

-----------------------------------------------------------------------------
(* checkOperations and checkParallel *)

\* The next partition is turned into entries.
Prepare(k) ==
    /\ main.pc = "entries" /\ k \notin DOMAIN entries
    /\ \E es \in MakeEntries(Ops(k)) : entries' = entries @@ (k :> es)
    /\ UNCHANGED <<history, computeInfo, search, results, main>>

\* checkParallel starts a goroutine per partition.
Spawn ==
    /\ main.pc = "entries" /\ DOMAIN entries = Keys
    /\ search' = [k \in Keys |-> NewSearch(entries[k])]
    /\ main' = [main EXCEPT !.pc = "loop"]
    /\ UNCHANGED <<history, computeInfo, entries, results>>

\* Mutant of Break: the loop waits for one result more.
BreakLate(ok, count) == (~ok /\ ~computeInfo) \/ count > Cardinality(Keys)

\* The loop over the results ends: the verdict is known, or all are there.
Break(ok, count) == (~ok /\ ~computeInfo) \/ count >= Cardinality(Keys)

Receive ==
    LET ok    == main.ok /\ Head(results)
        count == main.count + 1
    IN  /\ main.pc = "loop" /\ results # <<>>
        /\ results' = Tail(results)
        /\ main' = [main EXCEPT !.ok = ok, !.count = count,
                                !.kill = @ \/ (~ok /\ ~computeInfo),
                                !.pc = IF Break(ok, count) THEN "drain" ELSE @]
        /\ UNCHANGED <<history, computeInfo, entries, search>>

\* The timer, if there is one, fires while the loop waits.
Timeout ==
    /\ main.pc = "loop"
    /\ main' = [main EXCEPT !.timedOut = TRUE, !.kill = TRUE, !.pc = "drain"]
    /\ UNCHANGED <<history, computeInfo, entries, search, results>>

\* With computeInfo, the results of all goroutines are waited for.
Drain ==
    /\ main.pc = "drain" /\ computeInfo /\ main.count < Cardinality(Keys)
    /\ results # <<>>
    /\ results' = Tail(results)
    /\ main' = [main EXCEPT !.count = @ + 1]
    /\ UNCHANGED <<history, computeInfo, entries, search>>

Verdict(ok, timedOut) == IF ~ok THEN "Illegal" ELSE IF timedOut THEN "Unknown" ELSE "Ok"

Return ==
    /\ main.pc = "drain" /\ (computeInfo => main.count >= Cardinality(Keys))
    /\ main' = [main EXCEPT !.pc = Verdict(main.ok, main.timedOut)]
    /\ UNCHANGED <<history, computeInfo, entries, search, results>>

Returned == main.pc \in {"Ok", "Illegal", "Unknown"}

-----------------------------------------------------------------------------
(***************************************************************************)
(* The histories clients can have logged.  An operation is logged when it  *)
(* has returned, so they come in the order of their returns.               *)
(***************************************************************************)
Histories ==
    LET Times(n) == {t \in [1..n -> {i \in (1..MaxTime) \X (1..MaxTime) : i[1] <= i[2]}] :
                        \A i, j \in 1..n : i < j => t[i][2] <= t[j][2]}
        Logged(o, t) == [i \in DOMAIN o |->
            [op |-> o[i].op, key |-> o[i].key, value |-> o[i].value, out |-> o[i].out,
             call |-> t[i][1], return |-> t[i][2]]]
    IN  UNION {{Logged(o, t) : o \in [1..n -> Op], t \in Times(n)} : n \in 0..MaxOps}

Init ==
    /\ history \in {h \in Histories : h # <<>> => h[1].key = FirstKey}
    /\ computeInfo \in BOOLEAN
    /\ entries = <<>>
    /\ search = <<>>
    /\ results = <<>>
    /\ main = [pc |-> "entries", count |-> 0, ok |-> TRUE, timedOut |-> FALSE, kill |-> FALSE]

Next ==
    \/ \E k \in Keys : Prepare(k) \/ Turn(k)
    \/ Spawn
    \/ Receive \/ Timeout \/ Drain \/ Return

Spec == Init /\ [][Next]_vars

-----------------------------------------------------------------------------
(***************************************************************************)
(* Where a search stands fits together: the operations taken out of the    *)
(* list are those in calls and those whose bit is set, next and prev link  *)
(* the others in their order, and the state is where the calls lead.       *)
(* Lift and Unlift leave the pointers of a taken out node alone and rely   *)
(* on them later.                                                          *)
(***************************************************************************)
SearchFits ==
    \A k \in DOMAIN search :
      LET q   == search[k]
          es  == entries[k]
          out == Range(LinearizedIds(es, q))
          in  == {0} \cup {p \in DOMAIN es : es[p].id \notin out}
          After(p) == {r \in in : r > p}
      IN  /\ IsInjective(LinearizedIds(es, q))
          /\ Bits(q.linearized) = out
          /\ \A p \in in :
               IF After(p) = {} THEN q.next[p] = Nil
                                ELSE q.next[p] = Min(After(p)) /\ q.prev[Min(After(p))] = p
          /\ ~q.done /\ in # {0} => q.entry \in in \ {0}
          /\ LET linearized == [i \in DOMAIN q.calls |-> Ops(k)[LinearizedIds(es, q)[i] + 1]]
             IN  Legal(linearized) /\ q.state = Stores(linearized)[Len(linearized)][k]

(***************************************************************************)
(* The answer is right: Ok and Illegal are about the history as a whole,   *)
(* over all its keys, although every key is searched by itself, situations *)
(* seen before are cut off, and a search that is killed answers false.     *)
(***************************************************************************)
VerdictIsRight ==
    /\ main.pc = "Ok" => Linearizable(history)
    /\ main.pc = "Illegal" => ~Linearizable(history)

(***************************************************************************)
(* What the visualisation is given: for each operation a longest order of  *)
(* operations of its key that a linearization can start with, even though  *)
(* the search does not continue from situations it has seen.               *)
(***************************************************************************)
LongestIsLongest ==
    Returned /\ computeInfo /\ ~main.timedOut =>
      \A k \in Keys :
        LET beginnings == Beginnings(Ops(k))
            longest  == search[k].longest
        IN  \A id \in DOMAIN longest :
              LET with == {order \in beginnings : id + 1 \in Range(order)}
              IN  IF with = {} THEN longest[id] = <<>>
                  ELSE /\ [i \in DOMAIN longest[id] |-> longest[id][i] + 1] \in with
                       /\ \A order \in with : Len(order) <= Len(longest[id])

-----------------------------------------------------------------------------
\* Every goroutine runs.
FairSpec ==
    /\ Spec
    /\ WF_vars(Spawn \/ Receive \/ Drain \/ Return)
    /\ \A k \in Key : WF_vars(k \in Keys /\ (Prepare(k) \/ Turn(k)))

(***************************************************************************)
(* A check ends, also without a timeout, unless the history is empty: then *)
(* there is no partition, and no result ever ends the loop.                *)
(***************************************************************************)
Returns == history # <<>> => <>Returned
=============================================================================
