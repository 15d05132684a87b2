-------------------------- MODULE ApprovalChecking --------------------------
(***************************************************************************)
(* How many tranches of assignments are needed before a candidate is       *)
(* approved under a block (node/core/approval-voting/src/                  *)
(* approval_checking.rs).                                                  *)
(*                                                                         *)
(* An assignment is a record of its validator, its tranche, the tick it    *)
(* was imported at and a number that tells repeated imports apart.         *)
(***************************************************************************)
EXTENDS Integers, FiniteSets, FiniteSetsExt, SequencesExt

None == -1
Unbounded == 1000  \* DelayTranche::max_value()

min_prefer_some(a, b) == IF {a, b} = {None} THEN None ELSE Min({a, b} \ {None})

SaturatingSub(a, b) == IF a > b THEN a - b ELSE 0

AssignedUpTo(assignments, tranche) ==
    {a.v : a \in {x \in assignments : x.tranche <= tranche}}

\* The no-shows among the assignments, and when the next one would be.
count_no_shows(assignments, approvals, drift, block_tick, no_show_duration, drifted_now) ==
    LET At(a) == SaturatingSub(Max({a.tick, block_tick}), drift) + no_show_duration
        missing == {a \in assignments : a.v \notin approvals}
        absent == {a \in missing : At(a) <= drifted_now}
        waiting == {At(a) + drift : a \in missing \ absent}
    IN  [no_shows |-> Cardinality(absent),
         next |-> IF waiting = {} THEN None ELSE Min(waiting)]

\* Faulty variant: the initial assignments count as covered no-shows.
AdvanceCountingInitial(s, new, no_shows, next, last) ==
    LET new_covered == IF s.depth = 0 THEN new ELSE Min({new, 1})
        covering == SaturatingSub(s.covering, new_covered)
        uncovered == s.uncovered + no_shows
        deeper == covering = 0 /\ uncovered # 0
    IN  [s EXCEPT !.assignments = @ + new,
                  !.covered = @ + new_covered,
                  !.depth = IF deeper THEN @ + 1 ELSE @,
                  !.covering = IF deeper THEN uncovered ELSE covering,
                  !.uncovered = IF deeper THEN 0 ELSE uncovered,
                  !.next = min_prefer_some(@, next),
                  !.last = Max({@, last})]

\* Counting a tranche in: at depth 0 each assignment is one of those needed,
\* deeper a tranche that is not empty covers one no-show.
advance(s, new, no_shows, next, last) ==
    LET new_covered == IF s.depth = 0 THEN new ELSE Min({new, 1})
        covering == SaturatingSub(s.covering, new_covered)
        uncovered == s.uncovered + no_shows
        deeper == covering = 0 /\ uncovered # 0
    IN  [s EXCEPT !.assignments = @ + new,
                  !.covered = IF s.depth = 0 THEN 0 ELSE @ + new_covered,
                  !.depth = IF deeper THEN @ + 1 ELSE @,
                  !.covering = IF deeper THEN uncovered ELSE covering,
                  !.uncovered = IF deeper THEN 0 ELSE uncovered,
                  !.next = min_prefer_some(@, next),
                  !.last = Max({@, last})]

output(s, tranche, needed_approvals, n_validators, no_show_duration) ==
    LET covering == IF s.depth = 0 THEN 0 ELSE s.covering
        all == s.depth # 0 /\ s.assignments + covering + s.uncovered >= n_validators
        exact == s.assignments >= needed_approvals /\ covering + s.uncovered = 0
    IN  [kind |-> IF all THEN "All" ELSE IF exact THEN "Exact" ELSE "Pending",
         tranche |-> tranche,       \* needed, or considered
         tolerated_missing |-> s.covered,
         next_no_show |-> s.next,
         last_assignment_tick |-> s.last,
         maximum_broadcast |-> IF s.depth = 0 THEN Unbounded ELSE tranche + covering + s.uncovered,
         clock_drift |-> s.depth * no_show_duration]

\* The state after a tranche with the assignments in new was counted in.
Counted(s, new, count) ==
    advance(s, Cardinality(new), count.no_shows, count.next, Max({a.tick : a \in new} \union {None}))

\* RequiredTranches: the tranches are taken in order until they suffice or lie
\* ahead of the clock, which every depth sets back by the no-show duration.
tranches_to_approve(assignments, approvals, tranche_now, block_tick, no_show, needed, n) ==
    LET initial == [assignments |-> 0, depth |-> 0, covered |-> 0, covering |-> needed,
                    uncovered |-> 0, next |-> None, last |-> None]
        Grown(s, new, drift, drifted_now) ==
            Counted(s, new, count_no_shows(new, approvals, drift, block_tick, no_show, drifted_now))
        Output(s, tranche) ==
            [s |-> s, out |-> output(s, tranche, needed, n, no_show), ahead |-> FALSE]
        Take(acc, tranche, drift, drifted_now) ==
            IF tranche > SaturatingSub(drifted_now, block_tick)
            THEN [acc EXCEPT !.ahead = TRUE]
            ELSE Output(Grown(acc.s, {a \in assignments : a.tranche = tranche}, drift, drifted_now),
                        tranche)
        Visit(acc, tranche) ==
            IF acc.ahead \/ acc.out.kind # "Pending" THEN acc
            ELSE Take(acc, tranche, acc.s.depth * no_show,
                      SaturatingSub(tranche_now + block_tick, acc.s.depth * no_show))
    IN  FoldLeft(Visit, [s |-> initial, out |-> [kind |-> "Pending"], ahead |-> FALSE],
                 [i \in 1..(tranche_now + 1) |-> i - 1]).out

\* Check::is_approved(check_approval(..), max_tick).
check_approval(assignments, approvals, required, n_validators, max_tick) ==
    \/ 3 * Cardinality(approvals) > n_validators
    \/ /\ required.kind = "Exact"
       /\ LET assigned == AssignedUpTo(assignments, required.tranche)
          IN  Cardinality(assigned \intersect approvals) + required.tolerated_missing
                >= Cardinality(assigned)
       /\ required.last_assignment_tick <= max_tick
=============================================================================
