------------------------------ MODULE MCRuntime ------------------------------
(***************************************************************************)
(* Small instances of three pallets, run side by side: the variable        *)
(* instance tells which one runs, and the variables of the other modules   *)
(* are fixed.                                                              *)
(*                                                                         *)
(*   One, Two, Forcing: paras that upgrade their code; that share it; that *)
(*     governance forces changes on.                                       *)
(*   Stream, Talk, Leave, Change: paras that exchange messages; that open  *)
(*     channels meanwhile; that leave and come back; deposits that change. *)
(*   Spam: seven validators (byzantine 2, supermajority 5) open disputes   *)
(*     until their slots are used up.                                      *)
(*   Slots: four validators, and disputes that time out.                   *)
(***************************************************************************)
EXTENDS Paras, TLC

CONSTANTS p1, p2, c1, c2, c3, v1, v2
CONSTANTS a, b
CONSTANTS x, y, z      \* paras of Hrmp that are alike, and validators of Disputes

VARIABLES instance, phase,
          hrmp_calls, hrmp_pending, hrmp,            \* calls, pending and st of Hrmp
          lifecycle, deposit, dmq, reserved,         \* of Hrmp
          frozen, imported, disputes, included, spam_slots,
          last_pruned, forgiven                      \* of Disputes

Trusted == {"trusted", "poke"}
Forced  == {"set_code", "set_head", "schedule", "note_head", "queue"}

ForcedHrmp == {"open", "close", "clean"}

Single     == {p1}
Couple     == {p1, p2}
TwoCodes   == {c1, c2}
ThreeCodes == {c1, c2, c3}
OneVoter   == {v1}
TwoVoters  == {v1, v2}
Pair       == {a, b}
PairOpen   == {<<a, b>>}
Trio       == {x, y, z}

One     == INSTANCE Paras WITH ParaIds <- Single, MaxBlock <- 8
Two     == INSTANCE Paras WITH Validators <- OneVoter
Forcing == INSTANCE Paras WITH ParaIds <- Single, Validators <- OneVoter, RootCalls <- Forced

\* Candidates of a para that is being offboarded may signal upgrades too.
Late == INSTANCE Paras WITH
    ParaIds <- Single, Codes <- ThreeCodes, Validators <- OneVoter,
    LateUpgrades <- TRUE, RootCalls <- {}, MaxBlock <- 10

\* The cooldown is longer than it takes to upgrade twice.
Cooling == INSTANCE Paras WITH
    ParaIds <- Single, Validators <- OneVoter, UpgradeCooldown <- 4,
    RootCalls <- {}, MaxBlock <- 10

\* Two paras that exchange messages over the channel they have, for longer.
Stream == INSTANCE Hrmp WITH
    calls <- hrmp_calls, pending <- hrmp_pending, st <- hrmp,
    ParaIds <- Pair, PreOpen <- PairOpen, Deposits <- {1}, Capacities <- {2},
    Parathreads <- {}, MaxChannels <- 1, MaxThreadChannels <- 0,
    Candidates <- TRUE, Leaves <- FALSE,
    RootCalls <- {}, MaxBlock <- 6, CallsPerBlock <- 0

\* Two paras that exchange messages while they open and close channels.
Talk == INSTANCE Hrmp WITH
    calls <- hrmp_calls, pending <- hrmp_pending, st <- hrmp,
    ParaIds <- Pair, PreOpen <- PairOpen, Deposits <- {1}, Capacities <- {2},
    Parathreads <- {}, MaxChannels <- 1, MaxThreadChannels <- 0,
    Candidates <- TRUE, Leaves <- FALSE,
    RootCalls <- {}, MaxBlock <- 4, CallsPerBlock <- 1

\* Parathreads that leave, and come back, while requests and channels are open.
Leave == INSTANCE Hrmp WITH
    calls <- hrmp_calls, pending <- hrmp_pending, st <- hrmp,
    ParaIds <- Trio, PreOpen <- {}, Deposits <- {1}, Capacities <- {1},
    Parathreads <- Trio, MaxChannels <- 2, MaxThreadChannels <- 1,
    Candidates <- FALSE, Leaves <- TRUE,
    RootCalls <- {}, MaxBlock <- 7, CallsPerBlock <- 1

\* Deposits that change while requests and channels are open, and
\* cleaning by force.
Change == INSTANCE Hrmp WITH
    calls <- hrmp_calls, pending <- hrmp_pending, st <- hrmp,
    ParaIds <- Trio, PreOpen <- {}, Deposits <- {1, 2}, Capacities <- {1},
    Parathreads <- {}, MaxChannels <- 2, MaxThreadChannels <- 1,
    Candidates <- FALSE, Leaves <- FALSE,
    RootCalls <- ForcedHrmp, MaxBlock <- 3, CallsPerBlock <- 2

Disputants == {v1, v2, a, b, x, y, z}
Disputed   == {p1, p2}
OneSession == [k \in Disputed |-> 0]

Spam == INSTANCE Disputes WITH
    Validators <- Disputants, Keys <- Disputed, SessionOf <- OneSession, DisputePeriod <- 0,
    ConclusionTimeout <- 2, AcceptancePeriod <- 2, MaxSpamSlots <- 1, MaxBlock <- 2,
    MaxSets <- 1, MaxVotes <- 1

Few == {v1, x, y, z}

Slots == INSTANCE Disputes WITH
    Validators <- Few, Keys <- Disputed, SessionOf <- OneSession, DisputePeriod <- 0,
    ConclusionTimeout <- 0, AcceptancePeriod <- 2, MaxSpamSlots <- 1, MaxBlock <- 2,
    MaxSets <- 2, MaxVotes <- 1

\* The paras of Hrmp are alike where no channel is open at the start, and so are
\* validators.
Symmetry == Permutations(Trio)

hrmpvars    == <<phase, hrmp_calls, hrmp_pending, hrmp, lifecycle, deposit, dmq, reserved>>
disputevars == <<phase, frozen, imported, disputes, included, spam_slots, last_pruned, forgiven>>
mcvars      == <<instance, vars, hrmpvars, disputevars>>

\* The variables of the modules that do not run.
ParasRest ==
    /\ calls = 0 /\ pending = EmptyMap /\ st = GenesisStore
    /\ accepted = {GenesisCode} /\ replaced = {} /\ forced = FALSE /\ outlived = FALSE
NoHrmp ==
    /\ hrmp_calls = 0 /\ hrmp_pending = 0 /\ hrmp = 0
    /\ lifecycle = 0 /\ deposit = 0 /\ dmq = 0 /\ reserved = 0
NoDisputes ==
    /\ frozen = 0 /\ imported = 0 /\ disputes = 0 /\ included = 0 /\ spam_slots = 0
    /\ last_pruned = 0 /\ forgiven = 0

OnlyParas == NoHrmp /\ NoDisputes /\ phase = 0

MCInit ==
    \/ /\ \/ instance = "one" /\ One!Init
          \/ instance = "two" /\ Two!Init
          \/ instance = "forcing" /\ Forcing!Init
       /\ OnlyParas
    \/ /\ \/ instance \in {"stream", "talk"} /\ Talk!Init
          \/ instance = "leave" /\ Leave!Init
          \/ instance = "change" /\ Change!Init
       /\ ParasRest /\ NoDisputes
    \/ /\ \/ instance = "spam" /\ Spam!Init
          \/ instance = "slots" /\ Slots!Init
       /\ ParasRest /\ NoHrmp

OnlyParasChange    == UNCHANGED <<hrmpvars, disputevars>>
OnlyHrmpChanges    == UNCHANGED <<calls, pending, st, accepted, replaced, forced, outlived,
                                  frozen, imported, disputes, included, spam_slots,
                                  last_pruned, forgiven>>
OnlyDisputesChange == UNCHANGED <<calls, pending, st, accepted, replaced, forced, outlived,
                                  hrmp_calls, hrmp_pending, hrmp,
                                  lifecycle, deposit, dmq, reserved>>

MCNext ==
    /\ UNCHANGED instance
    /\ \/ instance = "one" /\ One!Next /\ OnlyParasChange
       \/ instance = "two" /\ Two!Next /\ OnlyParasChange
       \/ instance = "forcing" /\ Forcing!Next /\ OnlyParasChange
       \/ instance = "stream" /\ Stream!Next /\ OnlyHrmpChanges
       \/ instance = "talk" /\ Talk!Next /\ OnlyHrmpChanges
       \/ instance = "leave" /\ Leave!Next /\ OnlyHrmpChanges
       \/ instance = "change" /\ Change!Next /\ OnlyHrmpChanges
       \/ instance = "spam" /\ Spam!Next /\ OnlyDisputesChange
       \/ instance = "slots" /\ Slots!Next /\ OnlyDisputesChange

MCSpec == MCInit /\ [][MCNext]_mcvars

-----------------------------------------------------------------------------
(* The properties of Hrmp and Disputes, of the instances they are about;   *)
(* those of Paras are stated there.                                        *)

OfHrmp(talk, leave, change) ==
    CASE instance \in {"stream", "talk"} -> talk [] instance = "leave" -> leave
      [] instance = "change" -> change [] OTHER -> TRUE

\* Indices, limits and deposits agree with the channels and requests after
\* opening, closing, offboarding and cleaning by force, which forgets the
\* counts.  Channels keep to the capacity that was agreed, from the backing of a
\* candidate to its inclusion; messages below the watermark are gone and those
\* above can be found (close_hrmp_channel, clean_hrmp_after_outgoing,
\* queue_outbound_hrmp, prune_hrmp).
ChannelsExact ==
    /\ OfHrmp(Talk!TypeOK, Leave!TypeOK, Change!TypeOK)
    /\ OfHrmp(Talk!IndicesExact /\ Talk!LimitsKept /\ Talk!DepositsHeld,
              Leave!IndicesExact /\ Leave!LimitsKept /\ Leave!DepositsHeld,
              Change!IndicesExact /\ Change!DepositsHeld)
    /\ OfHrmp(Talk!CapacityKept /\ Talk!ContentsAboveWatermark, TRUE, TRUE)

OfDisputes(spam, slots) ==
    CASE instance = "spam" -> spam [] instance = "slots" -> slots [] OTHER -> TRUE

\* Spam slots follow the disputes that may be spam, through every order of
\* imports, filtered votes, confirmations, inclusions and timeouts: a validator
\* holds a slot for each open one it is in, but for those that returned theirs
\* twice, and each that ends returns its slot (filter_dispute_data, note_included,
\* decrement_spam).
SlotsFollowDisputes ==
    /\ []OfDisputes(Spam!SlotsHeld, Slots!SlotsHeld)
    /\ [][OfDisputes(Spam!SlotsReturned, Slots!SlotsReturned)]_mcvars

-----------------------------------------------------------------------------
(* Claims of the code's documentation that do not hold; a run with one of  *)
(* the two specifications and the claim shows how, with CooldownSpec that   *)
(* the CooldownKept of Paras does not hold.                                *)

LateSpec     == instance = "late" /\ Late!Init /\ OnlyParas
                    /\ [][Late!Next /\ UNCHANGED instance /\ OnlyParasChange]_mcvars
CooldownSpec == instance = "cooling" /\ Cooling!Init /\ OnlyParas
                    /\ [][Cooling!Next /\ UNCHANGED instance /\ OnlyParasChange]_mcvars

\* Of upgrades signalled while the para is being offboarded: "Only after the
\* code is approved by the process, the upgrade can be scheduled".
OnlyApprovedUpgrades == Late!LiveCodeChecked

\* "Invariant: `HrmpOpenChannelRequests` should contain the same number of
\* items that has `(X, _)` as the number of `HrmpOpenChannelRequestCount`".
OpenCountExact == OfHrmp(TRUE, Leave!OpenCountExact, TRUE)
=============================================================================
