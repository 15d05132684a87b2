------------------------------ MODULE Backing ------------------------------
(***************************************************************************)
(* A candidate backing job (node/core/backing/src/lib.rs) and its          *)
(* statement table (modules/statement-table/src/generic.rs): the work of   *)
(* one validator on one relay parent.                                      *)
(*                                                                         *)
(* An action is one turn of run_loop, a message or the result of a         *)
(* background validation; results may overtake each other and messages.    *)
(* A statement is who made it, its kind and its candidate: of two          *)
(* signatures under one statement nothing is said here.                    *)
(***************************************************************************)
EXTENDS Integers, FiniteSets, Sequences, SequencesExt, Maps

CONSTANTS
    ParaOf,          \* of a candidate: its para
    Groups,          \* of a scheduled para: the validators assigned to it
    Me,              \* the validator of this node
    WrongCollator,   \* candidates not of the collator the core requires
    Valid,           \* candidates that validate as announced
    Statements,      \* the statements of others that may arrive
    RelayParent,
    SigningFails,    \* whether the keystore may fail to sign
    MaxFailures      \* background tasks that end with an error

None == "none"
Candidates == DOMAIN ParaOf
Kinds == {"seconded", "valid"}

\* An absent option is no candidate and no para, groups are finite, and the
\* statements that arrive are those of others: nobody signs with our key, and
\* statement distribution does not hand our own back.
ASSUME BackingAssumption ==
    /\ None \notin Candidates
    /\ \A c \in Candidates : ParaOf[c] # None
    /\ \A p \in DOMAIN Groups : IsFiniteSet(Groups[p])
    /\ \A s \in Statements : /\ s = [from |-> s.from, kind |-> s.kind,
                                      candidate |-> s.candidate]
                              /\ s.from # Me
                              /\ s.kind \in Kinds /\ s.candidate \in Candidates

VARIABLES
    job,             \* the CandidateBackingJob with its table, see Init
    tasks,           \* the running background validations, by candidate
    signed,          \* history: the statements this node has signed
    misbehaved,      \* history: the validators reported for misbehaviour
    failed,          \* history: candidates whose task ended with an error
    to_backing,      \* Second messages for this job
    from_backing     \* Seconded and Invalid messages to the collator protocol

jobvars == <<job, tasks, signed, misbehaved, failed>>
vars    == <<jobvars, to_backing, from_backing>>

\* The para whose group we are in (the computation of assignments in run).
Assignment == IF \E p \in DOMAIN Groups : Me \in Groups[p]
              THEN CHOOSE p \in DOMAIN Groups : Me \in Groups[p] ELSE None

Statement(from, kind, c) == [from |-> from, kind |-> kind, candidate |-> c]

JobInit ==
    /\ job = [seconded |-> None, issued |-> {}, awaiting |-> {}, fallbacks |-> EmptyMap,
              backed |-> {}, proposals |-> EmptyMap, votes |-> EmptyMap]
    /\ tasks = EmptyMap /\ signed = {} /\ misbehaved = {} /\ failed = {}

Init == JobInit /\ to_backing = <<>> /\ from_backing = <<>>

-----------------------------------------------------------------------------
(* The statement table.                                                    *)

minimum_votes(n) == LET half == n \div 2 + 1
                        two  == IF n < 2 THEN n ELSE 2
                    IN  IF half > two THEN half ELSE two

is_member_of(v, c) == ParaOf[c] \in DOMAIN Groups /\ v \in Groups[ParaOf[c]]

\* import_candidate up to the implied vote: a validator has one proposal.
import_candidate(j, s) ==
    IF is_member_of(s.from, s.candidate) /\ GetOr(j.proposals, s.from, s.candidate) = s.candidate
    THEN [j EXCEPT !.proposals = Put(@, s.from, s.candidate),
                   !.votes = Put(@, s.candidate, GetOr(@, s.candidate, EmptyMap))]
    ELSE j

Proposed(j, s) == IF s.kind = "seconded" THEN import_candidate(j, s) ELSE j

\* Faulty variant of Unauthorized: only proposers are checked.
UnauthorizedProposer(j, s) ==
    s.kind = "seconded" /\ (~is_member_of(s.from, s.candidate)
                             \/ GetOr(j.proposals, s.from, s.candidate) # s.candidate)

\* The statement of a validator outside the group, or its second proposal.
Unauthorized(j, s) ==
    \/ ~is_member_of(s.from, s.candidate)
    \/ s.kind = "seconded" /\ GetOr(j.proposals, s.from, s.candidate) # s.candidate

\* What the table makes of a statement, its proposal noted: votes for unknown
\* candidates are ignored, like repeated ones; those of a validator outside the
\* group, a second proposal and a vote of both kinds are misbehaviour.
validity_vote(j, s) ==
    LET c == s.candidate
        known == c \in DOMAIN j.votes
    IN  CASE s.kind = "valid" /\ ~known -> "ignored"
          [] (s.kind = "seconded" \/ known) /\ Unauthorized(j, s) -> "misbehaviour"
          [] OTHER -> IF s.from \notin DOMAIN j.votes[c] THEN "vote"
                      ELSE IF j.votes[c][s.from] = s.kind THEN "ignored" ELSE "misbehaviour"

attested_candidate(j, c) ==
    /\ c \in DOMAIN j.votes
    /\ Cardinality(DOMAIN j.votes[c]) >= minimum_votes(Cardinality(Groups[ParaOf[c]]))

\* A new vote; the candidate is backed once it has enough of them.
Counted(j, s) ==
    LET with == [j EXCEPT !.votes[s.candidate] = Put(@, s.from, s.kind)]
    IN  IF attested_candidate(with, s.candidate)
        THEN [with EXCEPT !.backed = @ \union {s.candidate}] ELSE with

\* import_statement into the job j: the job after it and the misbehaviour found.
import_statement(j, s) ==
    LET p == Proposed(j, s)
    IN  IF validity_vote(p, s) = "vote" THEN Counted(p, s) ELSE p

IsNewVote(j, s)   == validity_vote(Proposed(j, s), s) = "vote"
Misbehaves(j, s)  == validity_vote(Proposed(j, s), s) = "misbehaviour"

\* sign_import_and_distribute_statement.
Signs(j, kind, c) ==
    /\ job' = import_statement(j, Statement(Me, kind, c))
    /\ signed' = signed \union {Statement(Me, kind, c)}
    /\ misbehaved' = IF Misbehaves(j, Statement(Me, kind, c)) THEN misbehaved \union {Me}
                     ELSE misbehaved

-----------------------------------------------------------------------------
(* Validation in the background.                                           *)

Task(kind, from) == [kind |-> kind, from |-> from]

\* Faulty variant of Spawn: the candidate is not noted as awaited.
SpawnUnmarked(j, running, c, task) == job' = j /\ tasks' = Put(running, c, task)

\* background_validate_and_make_available starts a task unless one is awaited,
\* of whichever kind.
Spawn(j, running, c, task) ==
    /\ job' = [j EXCEPT !.awaiting = @ \union {c}]
    /\ tasks' = IF c \in j.awaiting THEN running ELSE Put(running, c, task)

\* kick_off_validation_work: nothing after a statement was issued, nor for the
\* candidate of a wrong collator, which then counts as issued.
kick_off_validation_work(j, running, c, from) ==
    CASE c \in j.issued -> job' = j /\ tasks' = running
      [] c \notin j.issued /\ c \in WrongCollator ->
             job' = [j EXCEPT !.issued = @ \union {c}] /\ tasks' = running
      [] OTHER -> Spawn(j, running, c, Task("attest", from))

-----------------------------------------------------------------------------
(* Messages.                                                               *)

Answers(kind, c) ==
    from_backing' = Append(from_backing,
                           [kind |-> kind, relay_parent |-> RelayParent, candidate |-> c])

\* A Second message is taken up for our para while nothing was seconded and no
\* statement on the candidate issued.
Second ==
    /\ to_backing # <<>> /\ to_backing' = Tail(to_backing)
    /\ LET c == Head(to_backing)[2] IN
       IF ParaOf[c] = Assignment /\ job.seconded = None /\ c \notin job.issued
       THEN IF c \in WrongCollator
            THEN Answers("invalid", c) /\ UNCHANGED <<job, tasks>>
            ELSE Spawn(job, tasks, c, Task("second", None)) /\ UNCHANGED from_backing
       ELSE UNCHANGED <<job, tasks, from_backing>>
    /\ UNCHANGED <<signed, misbehaved, failed>>

\* After the import of a new vote for our para: a proposal starts a validation
\* and its backers anew; a later vote does so if no task is awaited, and is
\* otherwise one to fall back on.
Validates(j, s) ==
    LET c == s.candidate IN
    CASE s.kind = "seconded" ->
             kick_off_validation_work(
                 [j EXCEPT !.fallbacks = Put(@, c, [from |-> s.from, backing |-> <<>>])],
                 tasks, c, s.from)
      [] s.kind = "valid" /\ (c \notin DOMAIN j.fallbacks \/ s.from = Me) ->
             job' = j /\ UNCHANGED tasks
      [] OTHER -> IF c \in j.awaiting
                  THEN /\ job' = [j EXCEPT !.fallbacks[c].backing = Append(@, s.from)]
                       /\ UNCHANGED tasks
                  ELSE kick_off_validation_work(
                           [j EXCEPT !.fallbacks[c].from = s.from], tasks, c, s.from)

\* A statement of another validator (maybe_validate_and_import).
StatementArrives(s) ==
    /\ IF IsNewVote(job, s) /\ ParaOf[s.candidate] = Assignment
       THEN Validates(import_statement(job, s), s)
       ELSE job' = import_statement(job, s) /\ UNCHANGED tasks
    /\ misbehaved' = IF Misbehaves(job, s) THEN misbehaved \union {s.from} ELSE misbehaved
    /\ UNCHANGED <<signed, failed, to_backing, from_backing>>

-----------------------------------------------------------------------------
(* Results (handle_validated_candidate_command).                           *)

\* The task of c ends, with its result handled in the same turn.
Ends(c, kind) ==
    /\ c \in DOMAIN tasks /\ tasks[c].kind = kind
    /\ UNCHANGED <<failed, to_backing>>

Awaited(c) == [job EXCEPT !.awaiting = @ \ {c}]

\* Faulty variant of StillSeconds: another may have been seconded meanwhile.
StillSecondsAnother(c) == c \notin job.issued

StillSeconds(c) == job.seconded = None /\ c \notin job.issued

\* A candidate to second is valid: it is seconded if nothing was meanwhile.
SecondedValid(c) ==
    /\ Ends(c, "second") /\ c \in Valid
    /\ IF StillSeconds(c)
       THEN /\ Signs([Awaited(c) EXCEPT !.seconded = c, !.issued = @ \union {c}], "seconded", c)
            /\ Answers("seconded", c)
       ELSE job' = Awaited(c) /\ UNCHANGED <<signed, misbehaved, from_backing>>
    /\ tasks' = Without(tasks, {c})

SecondedInvalid(c) ==
    /\ Ends(c, "second") /\ c \notin Valid
    /\ job' = Awaited(c) /\ Answers("invalid", c)
    /\ tasks' = Without(tasks, {c})
    /\ UNCHANGED <<signed, misbehaved>>

\* A candidate of others was validated: Valid is signed, or nothing.
Attested(c) ==
    /\ Ends(c, "attest")
    /\ LET done == [Awaited(c) EXCEPT !.fallbacks = Without(@, {c}),
                                      !.issued = @ \union {c}]
       IN  IF c \in Valid /\ c \notin job.issued THEN Signs(done, "valid", c)
           ELSE job' = done /\ UNCHANGED <<signed, misbehaved>>
    /\ tasks' = Without(tasks, {c})
    /\ UNCHANGED from_backing

\* sign_statement returns nothing: the candidate counts as seconded, or as stated
\* on, all the same, and neither peers nor the collator protocol hear of it.
Unsigned(c) ==
    /\ SigningFails /\ c \in Valid
    /\ \/ /\ Ends(c, "second") /\ StillSeconds(c)
          /\ job' = [Awaited(c) EXCEPT !.seconded = c, !.issued = @ \union {c}]
       \/ /\ Ends(c, "attest") /\ c \notin job.issued
          /\ job' = [Awaited(c) EXCEPT !.fallbacks = Without(@, {c}),
                                       !.issued = @ \union {c}]
    /\ tasks' = Without(tasks, {c})
    /\ UNCHANGED <<signed, misbehaved, from_backing>>

\* The backer did not send the PoV: the last of the others is tried.
AttestNoPoV(c) ==
    /\ Ends(c, "attest")
    /\ LET backing == job.fallbacks[c].backing
           without == Without(tasks, {c})
       IN  IF backing = <<>> THEN job' = Awaited(c) /\ tasks' = without
           ELSE kick_off_validation_work(
                    [Awaited(c) EXCEPT !.fallbacks[c] =
                        [from |-> Last(backing), backing |-> Front(backing)]],
                    without, c, Last(backing))
    /\ UNCHANGED <<signed, misbehaved, from_backing>>

\* A task ends with an error (candidate validation or the store failed): no
\* result is sent, and the candidate stays awaited.
TaskFails(c) ==
    /\ c \in DOMAIN tasks /\ Cardinality(failed) < MaxFailures
    /\ tasks' = Without(tasks, {c})
    /\ failed' = failed \union {c}
    /\ UNCHANGED <<job, signed, misbehaved, to_backing, from_backing>>

Turn ==
    \/ Second
    \/ \E s \in Statements : StatementArrives(s)
    \/ \E c \in DOMAIN tasks : \/ SecondedValid(c) \/ SecondedInvalid(c) \/ Attested(c)
                               \/ Unsigned(c) \/ AttestNoPoV(c) \/ TaskFails(c)

\* The collator protocol, where it is not modelled: it takes the answers and
\* asks for any candidate.  (In fact it awaits an answer first, see Collation;
\* the guards of the job do not rely on it.)
Collators ==
    /\ to_backing = <<>> /\ from_backing' = <<>>
    /\ \E c \in Candidates : to_backing' = <<<<RelayParent, c>>>>
    /\ UNCHANGED jobvars

Next == Turn \/ Collators
Spec == Init /\ [][Next]_vars

-----------------------------------------------------------------------------
(* Properties.                                                             *)

Speakers == {Me} \union {s.from : s \in Statements}

\* A CandidateBackingJob with its table.
IsJob(j) ==
    /\ j = [seconded |-> j.seconded, issued |-> j.issued, awaiting |-> j.awaiting,
            fallbacks |-> j.fallbacks, backed |-> j.backed, proposals |-> j.proposals,
            votes |-> j.votes]
    /\ j.seconded \in Candidates \union {None}
    /\ j.issued \union j.awaiting \union j.backed \subseteq Candidates
    /\ IsMap(j.fallbacks, Candidates, [from : Speakers, backing : Seq(Speakers)])
    /\ IsMap(j.proposals, Speakers, Candidates)
    /\ DOMAIN j.votes \subseteq Candidates
    /\ \A c \in DOMAIN j.votes : IsMap(j.votes[c], Speakers, Kinds)

\* The job, its tasks and the messages to it have the types that lib.rs and
\* generic.rs give them.
TypeOK ==
    /\ IsJob(job)
    /\ IsMap(tasks, Candidates, [kind : {"second", "attest"}, from : Speakers \union {None}])
    /\ failed \subseteq Candidates
    /\ to_backing \in Seq({RelayParent} \X Candidates)

\* This node seconds one candidate, never signs both kinds of statement on one,
\* and signs only what it found valid, so that no table finds it misbehaving,
\* in whichever order requests, statements and results come.
NeverMisbehaves ==
    /\ \A s, t \in signed :
           s # t => s.candidate # t.candidate /\ (s.kind # "seconded" \/ t.kind # "seconded")
    /\ \A s \in signed : s.candidate \in Valid
    /\ Me \notin misbehaved

\* What the provisioner is told is backed has the votes the runtime asks for,
\* from members of the group, each with at most one proposal; and nothing that
\* has them is missing.
BackedExact ==
    /\ job.backed = {c \in DOMAIN job.votes : attested_candidate(job, c)}
    /\ \A c \in DOMAIN job.votes : \A v \in DOMAIN job.votes[c] :
           /\ is_member_of(v, c)
           /\ job.votes[c][v] = "seconded" => job.proposals[v] = c

\* A candidate is awaited exactly while its task runs or once it has failed; a
\* task that attests has its fallback, and no backer of a valid candidate is left
\* untried without a task or a statement, unless the task was to second it and
\* another was seconded meanwhile: its result is then of no use.
TasksTracked ==
    /\ job.awaiting = DOMAIN tasks \union failed
    /\ \A c \in DOMAIN tasks : tasks[c].kind = "attest" =>
           c \in DOMAIN job.fallbacks /\ c \notin job.issued
    /\ \A c \in DOMAIN job.fallbacks \intersect Valid :
           job.fallbacks[c].backing # <<>> =>
               c \in job.awaiting \/ c \in job.issued \/ job.seconded # None
=============================================================================
