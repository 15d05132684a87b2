--------------------------- MODULE BackingProofs ---------------------------
(***************************************************************************)
(* Theorems about Backing, for every set of candidates, groups, statements *)
(* of others and validation results.                                       *)
(***************************************************************************)
EXTENDS Backing, FiniteSetTheorems, TLAPS

-----------------------------------------------------------------------------
(* Maps.                                                                   *)

\* The empty map has no keys.
LEMMA EmptyMapEffect == DOMAIN EmptyMap = {}
  BY DEF EmptyMap

\* Insertion keeps the types of a map.
LEMMA PutIsMap ==
    ASSUME NEW f, NEW S, NEW T, IsMap(f, S, T), NEW k \in S, NEW v \in T
    PROVE  IsMap(Put(f, k, v), S, T)
  BY DEF IsMap, Put

\* So does removal.
LEMMA WithoutIsMap ==
    ASSUME NEW f, NEW S, NEW T, IsMap(f, S, T), NEW R
    PROVE  IsMap(Without(f, R), S, T)
  BY DEF IsMap, Without

-----------------------------------------------------------------------------
(* The statement table.                                                    *)

Sayable == [from : Speakers, kind : Kinds, candidate : Candidates]

\* The fields of a job other than those of its table.
SameOutside(j, k) ==
    /\ k.seconded = j.seconded /\ k.issued = j.issued
    /\ k.awaiting = j.awaiting /\ k.fallbacks = j.fallbacks

\* What noting a proposal does: nothing, or it becomes the one proposal of a
\* member that had no other.
LEMMA ProposedEffect ==
    ASSUME NEW j, IsJob(j), NEW s \in Sayable
    PROVE  LET p == Proposed(j, s)
           IN  /\ IsJob(p) /\ SameOutside(j, p) /\ p.backed = j.backed
               /\ \/ p = j
                  \/ /\ s.kind = "seconded" /\ is_member_of(s.from, s.candidate)
                     /\ GetOr(j.proposals, s.from, s.candidate) = s.candidate
                     /\ p.proposals = Put(j.proposals, s.from, s.candidate)
                     /\ p.votes = Put(j.votes, s.candidate,
                                      GetOr(j.votes, s.candidate, EmptyMap))
<1> DEFINE p == Proposed(j, s)
<1>1. CASE p = j
  BY <1>1 DEF SameOutside
<1>2. CASE p # j
  <2>1. /\ s.kind = "seconded" /\ is_member_of(s.from, s.candidate)
        /\ GetOr(j.proposals, s.from, s.candidate) = s.candidate
        /\ p = [j EXCEPT !.proposals = Put(@, s.from, s.candidate),
                         !.votes = Put(@, s.candidate,
                                       GetOr(@, s.candidate, EmptyMap))]
    BY <1>2 DEF Proposed, import_candidate
  <2>2. s.from \in Speakers /\ s.candidate \in Candidates
    BY DEF Sayable
  <2>3. /\ p.seconded = j.seconded /\ p.issued = j.issued
        /\ p.awaiting = j.awaiting /\ p.fallbacks = j.fallbacks
        /\ p.backed = j.backed
        /\ p.proposals = Put(j.proposals, s.from, s.candidate)
        /\ p.votes = Put(j.votes, s.candidate, GetOr(j.votes, s.candidate, EmptyMap))
        /\ p = [seconded |-> p.seconded, issued |-> p.issued, awaiting |-> p.awaiting,
                fallbacks |-> p.fallbacks, backed |-> p.backed,
                proposals |-> p.proposals, votes |-> p.votes]
    BY <2>1 DEF IsJob
  <2>4. IsMap(p.proposals, Speakers, Candidates)
    BY <2>2, <2>3, PutIsMap DEF IsJob
  <2>5. IsMap(GetOr(j.votes, s.candidate, EmptyMap), Speakers, Kinds)
    BY EmptyMapEffect DEF IsJob, GetOr, IsMap
  <2>6. /\ DOMAIN p.votes \subseteq Candidates
        /\ \A c \in DOMAIN p.votes : IsMap(p.votes[c], Speakers, Kinds)
    <3> DEFINE g == GetOr(j.votes, s.candidate, EmptyMap)
    <3>1. /\ DOMAIN Put(j.votes, s.candidate, g) = DOMAIN j.votes \union {s.candidate}
          /\ Put(j.votes, s.candidate, g)[s.candidate] = g
          /\ \A c \in DOMAIN j.votes : c # s.candidate =>
                Put(j.votes, s.candidate, g)[c] = j.votes[c]
      BY Zenon DEF Put
    <3> QED BY <3>1, <2>2, <2>3, <2>5 DEF IsJob
  <2>7. IsJob(p)
    BY <2>3, <2>4, <2>6 DEF IsJob
  <2> QED BY <2>1, <2>3, <2>7 DEF SameOutside
<1> QED BY <1>1, <1>2

\* What counting a vote does.
LEMMA CountedEffect ==
    ASSUME NEW j, IsJob(j), NEW s \in Sayable, s.candidate \in DOMAIN j.votes
    PROVE  LET k == Counted(j, s)
           IN  /\ IsJob(k) /\ SameOutside(j, k) /\ k.proposals = j.proposals
               /\ DOMAIN k.votes = DOMAIN j.votes
               /\ k.votes[s.candidate] = Put(j.votes[s.candidate], s.from, s.kind)
               /\ \A c \in DOMAIN j.votes : c # s.candidate => k.votes[c] = j.votes[c]
               /\ k.backed = IF attested_candidate(k, s.candidate)
                             THEN j.backed \union {s.candidate} ELSE j.backed
<1> DEFINE c0 == s.candidate
           with == [j EXCEPT !.votes[c0] = Put(@, s.from, s.kind)]
           k == Counted(j, s)
<1>1. s.from \in Speakers /\ s.kind \in Kinds /\ c0 \in Candidates
  BY DEF Sayable
<1>2. /\ with.seconded = j.seconded /\ with.issued = j.issued
      /\ with.awaiting = j.awaiting /\ with.fallbacks = j.fallbacks
      /\ with.backed = j.backed /\ with.proposals = j.proposals
      /\ with.votes = [j.votes EXCEPT ![c0] = Put(@, s.from, s.kind)]
      /\ with = [seconded |-> with.seconded, issued |-> with.issued,
                 awaiting |-> with.awaiting, fallbacks |-> with.fallbacks,
                 backed |-> with.backed, proposals |-> with.proposals,
                 votes |-> with.votes]
  BY DEF IsJob
<1> HIDE DEF with
<1>3. /\ DOMAIN with.votes = DOMAIN j.votes
      /\ with.votes[c0] = Put(j.votes[c0], s.from, s.kind)
      /\ \A c \in DOMAIN j.votes : c # c0 => with.votes[c] = j.votes[c]
  BY <1>2
<1>4. \A c \in DOMAIN with.votes : IsMap(with.votes[c], Speakers, Kinds)
  <2>1. IsMap(Put(j.votes[c0], s.from, s.kind), Speakers, Kinds)
    BY <1>1, PutIsMap DEF IsJob
  <2> QED BY <2>1, <1>3 DEF IsJob
<1>5. IsJob(with)
  BY <1>2, <1>3, <1>4 DEF IsJob
<1>6. k = IF attested_candidate(with, c0)
          THEN [with EXCEPT !.backed = @ \union {c0}] ELSE with
  BY DEF Counted, with
<1> HIDE DEF k
<1>7. CASE attested_candidate(with, c0)
  <2>1. k = [with EXCEPT !.backed = @ \union {c0}]
    BY <1>6, <1>7
  <2>2. /\ k.seconded = with.seconded /\ k.issued = with.issued
        /\ k.awaiting = with.awaiting /\ k.fallbacks = with.fallbacks
        /\ k.backed = with.backed \union {c0} /\ k.proposals = with.proposals
        /\ k.votes = with.votes
        /\ k = [seconded |-> k.seconded, issued |-> k.issued,
                awaiting |-> k.awaiting, fallbacks |-> k.fallbacks,
                backed |-> k.backed, proposals |-> k.proposals, votes |-> k.votes]
    BY <2>1, <1>2
  <2>3. IsJob(k)
    BY <2>2, <1>1, <1>5 DEF IsJob
  <2>4. attested_candidate(k, c0)
    BY <2>2, <1>7 DEF attested_candidate
  <2> QED BY <2>2, <2>3, <2>4, <1>2, <1>3 DEF SameOutside, k
<1>8. CASE ~attested_candidate(with, c0)
  BY <1>2, <1>3, <1>5, <1>6, <1>8 DEF SameOutside, k
<1> QED BY <1>7, <1>8

\* A statement that counts as a vote is of a member of the group, on a known
\* candidate, and if it is a proposal it is the one of that member.
LEMMA VoteMeans ==
    ASSUME NEW j, IsJob(j), NEW s \in Sayable,
           validity_vote(Proposed(j, s), s) = "vote"
    PROVE  LET p == Proposed(j, s)
           IN  /\ s.candidate \in DOMAIN p.votes
               /\ is_member_of(s.from, s.candidate)
               /\ s.from \notin DOMAIN p.votes[s.candidate]
               /\ s.kind = "seconded" => /\ s.from \in DOMAIN p.proposals
                                         /\ p.proposals[s.from] = s.candidate
<1> DEFINE p == Proposed(j, s)
           c == s.candidate
<1>1. s.kind \in {"seconded", "valid"}
  BY DEF Sayable, Kinds
<1>2. s.kind = "seconded" \/ c \in DOMAIN p.votes
  BY <1>1 DEF validity_vote
<1>3. ~Unauthorized(p, s)
  BY <1>2 DEF validity_vote
<1>4. is_member_of(s.from, c)
  BY <1>3 DEF Unauthorized
<1>5. ASSUME s.kind = "seconded"
      PROVE  /\ p.proposals = Put(j.proposals, s.from, c)
             /\ p.votes = Put(j.votes, c, GetOr(j.votes, c, EmptyMap))
  <2>1. GetOr(p.proposals, s.from, c) = c
    BY <1>3, <1>5 DEF Unauthorized
  <2>2. CASE GetOr(j.proposals, s.from, c) = c
    <3>1. p = [j EXCEPT !.proposals = Put(@, s.from, c),
                        !.votes = Put(@, c, GetOr(@, c, EmptyMap))]
      BY <1>4, <1>5, <2>2 DEF Proposed, import_candidate
    <3> QED BY <3>1 DEF IsJob
  <2>3. CASE GetOr(j.proposals, s.from, c) # c
    BY <2>1, <2>3, <1>5 DEF Proposed, import_candidate
  <2> QED BY <2>2, <2>3
<1>6. c \in DOMAIN p.votes
  <2>1. CASE s.kind = "seconded"
    <3>1. DOMAIN Put(j.votes, c, GetOr(j.votes, c, EmptyMap)) = DOMAIN j.votes \union {c}
      BY Zenon DEF Put
    <3> QED BY <1>5, <2>1, <3>1
  <2> QED BY <2>1, <1>2
<1>7. s.from \notin DOMAIN p.votes[c]
  BY <1>1, <1>3, <1>6 DEF validity_vote
<1>8. s.kind = "seconded" => s.from \in DOMAIN p.proposals /\ p.proposals[s.from] = c
  <2>1. /\ s.from \in DOMAIN Put(j.proposals, s.from, c)
        /\ Put(j.proposals, s.from, c)[s.from] = c
    BY Zenon DEF Put
  <2> QED BY <2>1, <1>5
<1> QED BY <1>4, <1>6, <1>7, <1>8

-----------------------------------------------------------------------------
(* The table only backs what has the votes.                                *)

\* BackedExact of a job, with the proposals that its votes rest on.
TableInv(j) ==
    /\ j.backed = {c \in DOMAIN j.votes : attested_candidate(j, c)}
    /\ \A c \in DOMAIN j.votes : \A v \in DOMAIN j.votes[c] :
           /\ is_member_of(v, c)
           /\ j.votes[c][v] = "seconded" =>
                 v \in DOMAIN j.proposals /\ j.proposals[v] = c

\* A candidate without votes is not backed: groups have members.
LEMMA NoVotesNotBacked ==
    ASSUME NEW c, NEW v, is_member_of(v, c)
    PROVE  ~(0 >= minimum_votes(Cardinality(Groups[ParaOf[c]])))
<1> DEFINE G == Groups[ParaOf[c]]
<1>1. IsFiniteSet(G) /\ v \in G
  BY BackingAssumption DEF is_member_of
<1>2. Cardinality(G) \in Nat /\ Cardinality(G) # 0
  BY <1>1, FS_CardinalityType, FS_EmptySet
<1> QED BY <1>2 DEF minimum_votes

\* Noting a proposal keeps the table right.
LEMMA ProposedTable ==
    ASSUME NEW j, IsJob(j), TableInv(j), NEW s \in Sayable
    PROVE  TableInv(Proposed(j, s))
<1> DEFINE p == Proposed(j, s)
           c0 == s.candidate
           v0 == s.from
<1>1. CASE p = j
  BY <1>1
<1>2. CASE /\ is_member_of(v0, c0)
           /\ GetOr(j.proposals, v0, c0) = c0
           /\ p.proposals = Put(j.proposals, v0, c0)
           /\ p.votes = Put(j.votes, c0, GetOr(j.votes, c0, EmptyMap))
           /\ p.backed = j.backed
  <2>1. /\ DOMAIN p.votes = DOMAIN j.votes \union {c0}
        /\ p.votes[c0] = GetOr(j.votes, c0, EmptyMap)
        /\ \A c \in DOMAIN j.votes : c # c0 => p.votes[c] = j.votes[c]
    <3> DEFINE g == GetOr(j.votes, c0, EmptyMap)
    <3>1. /\ DOMAIN Put(j.votes, c0, g) = DOMAIN j.votes \union {c0}
          /\ Put(j.votes, c0, g)[c0] = g
          /\ \A c \in DOMAIN j.votes : c # c0 => Put(j.votes, c0, g)[c] = j.votes[c]
      BY Zenon DEF Put
    <3> QED BY <3>1, <1>2
  <2>2. \A c \in DOMAIN j.votes : p.votes[c] = j.votes[c]
    BY <2>1 DEF GetOr
  <2>3. c0 \notin DOMAIN j.votes => DOMAIN p.votes[c0] = {}
    BY <2>1, EmptyMapEffect DEF GetOr
  <2>4. /\ v0 \in DOMAIN p.proposals /\ p.proposals[v0] = c0
        /\ DOMAIN j.proposals \subseteq DOMAIN p.proposals
        /\ \A v \in DOMAIN j.proposals : p.proposals[v] = j.proposals[v]
    <3>1. /\ DOMAIN p.proposals = DOMAIN j.proposals \union {v0}
          /\ p.proposals[v0] = c0
          /\ \A v \in DOMAIN j.proposals : v # v0 => p.proposals[v] = j.proposals[v]
      <4>1. /\ DOMAIN Put(j.proposals, v0, c0) = DOMAIN j.proposals \union {v0}
            /\ Put(j.proposals, v0, c0)[v0] = c0
            /\ \A v \in DOMAIN j.proposals :
                  v # v0 => Put(j.proposals, v0, c0)[v] = j.proposals[v]
        BY Zenon DEF Put
      <4> QED BY <4>1, <1>2
    <3>2. v0 \in DOMAIN j.proposals => j.proposals[v0] = c0
      BY <1>2 DEF GetOr
    <3> QED BY <3>1, <3>2
  <2> HIDE DEF p
  <2>5. \A c \in DOMAIN j.votes : attested_candidate(p, c) <=> attested_candidate(j, c)
    BY <2>1, <2>2 DEF attested_candidate
  <2>6. c0 \notin DOMAIN j.votes => ~attested_candidate(p, c0)
    <3> SUFFICES ASSUME c0 \notin DOMAIN j.votes, attested_candidate(p, c0)
                 PROVE  FALSE
      OBVIOUS
    <3>1. Cardinality(DOMAIN p.votes[c0]) = 0
      BY <2>3, FS_EmptySet
    <3> QED BY <3>1, <1>2, NoVotesNotBacked DEF attested_candidate
  <2>7. p.backed = {c \in DOMAIN p.votes : attested_candidate(p, c)}
    BY <1>2, <2>1, <2>5, <2>6 DEF TableInv
  <2>8. ASSUME NEW c \in DOMAIN p.votes, NEW v \in DOMAIN p.votes[c]
        PROVE  /\ is_member_of(v, c)
               /\ p.votes[c][v] = "seconded" =>
                     v \in DOMAIN p.proposals /\ p.proposals[v] = c
    <3>1. c \in DOMAIN j.votes
      BY <2>1, <2>3, <2>8
    <3> QED BY <3>1, <2>2, <2>4, <2>8 DEF TableInv
  <2>9. TableInv(p)
    BY <2>7, <2>8 DEF TableInv
  <2> QED BY <2>9 DEF p
<1> QED BY <1>1, <1>2, ProposedEffect

\* So does counting a vote of a member: more votes never undo a backing.
LEMMA CountedTable ==
    ASSUME NEW j, IsJob(j), TableInv(j), NEW s \in Sayable,
           s.candidate \in DOMAIN j.votes,
           is_member_of(s.from, s.candidate),
           s.kind = "seconded" =>
               s.from \in DOMAIN j.proposals /\ j.proposals[s.from] = s.candidate
    PROVE  TableInv(Counted(j, s))
<1> DEFINE k == Counted(j, s)
           c0 == s.candidate
           v0 == s.from
           G == Groups[ParaOf[c0]]
<1>1. /\ k.proposals = j.proposals
      /\ DOMAIN k.votes = DOMAIN j.votes
      /\ k.votes[c0] = Put(j.votes[c0], v0, s.kind)
      /\ \A c \in DOMAIN j.votes : c # c0 => k.votes[c] = j.votes[c]
      /\ k.backed = IF attested_candidate(k, c0)
                    THEN j.backed \union {c0} ELSE j.backed
  BY CountedEffect
<1> HIDE DEF k
<1>2. /\ DOMAIN k.votes[c0] = DOMAIN j.votes[c0] \union {v0}
      /\ k.votes[c0][v0] = s.kind
      /\ \A v \in DOMAIN j.votes[c0] : v # v0 => k.votes[c0][v] = j.votes[c0][v]
  <2>1. /\ DOMAIN Put(j.votes[c0], v0, s.kind) = DOMAIN j.votes[c0] \union {v0}
        /\ Put(j.votes[c0], v0, s.kind)[v0] = s.kind
        /\ \A v \in DOMAIN j.votes[c0] :
              v # v0 => Put(j.votes[c0], v0, s.kind)[v] = j.votes[c0][v]
    BY Zenon DEF Put
  <2> QED BY <2>1, <1>1
<1>3. attested_candidate(j, c0) => attested_candidate(k, c0)
  <2>1. IsFiniteSet(G) /\ DOMAIN j.votes[c0] \subseteq G /\ v0 \in G
    BY BackingAssumption DEF TableInv, is_member_of
  <2>2. /\ IsFiniteSet(DOMAIN j.votes[c0])
        /\ IsFiniteSet(DOMAIN k.votes[c0])
    BY <2>1, <1>2, FS_Subset
  <2>3. /\ Cardinality(DOMAIN j.votes[c0]) <= Cardinality(DOMAIN k.votes[c0])
        /\ Cardinality(DOMAIN j.votes[c0]) \in Nat
        /\ Cardinality(DOMAIN k.votes[c0]) \in Nat
    BY <2>2, <1>2, FS_Subset, FS_CardinalityType
  <2>4. Cardinality(G) \in Nat /\ minimum_votes(Cardinality(G)) \in Nat
    <3>1. Cardinality(G) \in Nat
      BY <2>1, FS_CardinalityType
    <3> QED BY <3>1 DEF minimum_votes
  <2> QED BY <2>3, <2>4, <1>1 DEF attested_candidate
<1>4. \A c \in DOMAIN j.votes : c # c0 =>
          (attested_candidate(k, c) <=> attested_candidate(j, c))
  BY <1>1 DEF attested_candidate
<1>5. k.backed = {c \in DOMAIN k.votes : attested_candidate(k, c)}
  BY <1>1, <1>3, <1>4 DEF TableInv
<1>6. ASSUME NEW c \in DOMAIN k.votes, NEW v \in DOMAIN k.votes[c]
      PROVE  /\ is_member_of(v, c)
             /\ k.votes[c][v] = "seconded" =>
                   v \in DOMAIN k.proposals /\ k.proposals[v] = c
  <2>1. CASE c = c0 /\ v = v0
    BY <2>1, <1>1, <1>2
  <2>2. CASE c = c0 /\ v # v0
    BY <2>2, <1>1, <1>2, <1>6 DEF TableInv
  <2>3. CASE c # c0
    BY <2>3, <1>1, <1>6 DEF TableInv
  <2> QED BY <2>1, <2>2, <2>3
<1>7. TableInv(k)
  BY <1>5, <1>6 DEF TableInv
<1> QED BY <1>7 DEF k

\* What an import leaves alone, and whose votes and proposals it adds.
LEMMA ImportEffect ==
    ASSUME NEW j, IsJob(j), NEW s \in Sayable
    PROVE  LET k == import_statement(j, s)
           IN  /\ IsJob(k) /\ SameOutside(j, k)
               /\ DOMAIN j.votes \subseteq DOMAIN k.votes
               /\ \A v \in DOMAIN k.proposals :
                     v \in DOMAIN j.proposals \/ (v = s.from /\ s.kind = "seconded")
               /\ \A c \in DOMAIN k.votes : \A v \in DOMAIN k.votes[c] :
                     \/ c \in DOMAIN j.votes /\ v \in DOMAIN j.votes[c]
                     \/ c = s.candidate /\ v = s.from
<1> DEFINE p == Proposed(j, s)
           k == import_statement(j, s)
           c0 == s.candidate
<1>1. /\ IsJob(p) /\ SameOutside(j, p)
      /\ \/ p = j
         \/ /\ s.kind = "seconded"
            /\ p.proposals = Put(j.proposals, s.from, c0)
            /\ p.votes = Put(j.votes, c0, GetOr(j.votes, c0, EmptyMap))
  BY ProposedEffect
<1>2. /\ DOMAIN j.votes \subseteq DOMAIN p.votes
      /\ \A v \in DOMAIN p.proposals :
            v \in DOMAIN j.proposals \/ (v = s.from /\ s.kind = "seconded")
      /\ \A c \in DOMAIN p.votes : \A v \in DOMAIN p.votes[c] :
            c \in DOMAIN j.votes /\ v \in DOMAIN j.votes[c]
  <2>1. CASE p = j
    BY <2>1
  <2>2. CASE /\ s.kind = "seconded"
             /\ p.proposals = Put(j.proposals, s.from, c0)
             /\ p.votes = Put(j.votes, c0, GetOr(j.votes, c0, EmptyMap))
    <3> DEFINE g == GetOr(j.votes, c0, EmptyMap)
    <3>1. /\ DOMAIN Put(j.votes, c0, g) = DOMAIN j.votes \union {c0}
          /\ Put(j.votes, c0, g)[c0] = g
          /\ \A c \in DOMAIN j.votes : c # c0 => Put(j.votes, c0, g)[c] = j.votes[c]
          /\ DOMAIN Put(j.proposals, s.from, c0) = DOMAIN j.proposals \union {s.from}
      BY Zenon DEF Put
    <3>2. /\ c0 \in DOMAIN j.votes => g = j.votes[c0]
          /\ c0 \notin DOMAIN j.votes => DOMAIN g = {}
      BY EmptyMapEffect DEF GetOr
    <3> HIDE DEF g, p
    <3>3. \A c \in DOMAIN p.votes : \A v \in DOMAIN p.votes[c] :
              c \in DOMAIN j.votes /\ v \in DOMAIN j.votes[c]
      BY <2>2, <3>1, <3>2 DEF g
    <3> QED BY <2>2, <3>1, <3>3 DEF g
  <2> QED BY <1>1, <2>1, <2>2
<1>3. CASE validity_vote(p, s) # "vote"
  <2>1. k = p
    BY <1>3 DEF import_statement
  <2> HIDE DEF p, k
  <2>2. /\ IsJob(k) /\ SameOutside(j, k)
        /\ DOMAIN j.votes \subseteq DOMAIN k.votes
        /\ \A v \in DOMAIN k.proposals :
              v \in DOMAIN j.proposals \/ (v = s.from /\ s.kind = "seconded")
        /\ \A c \in DOMAIN k.votes : \A v \in DOMAIN k.votes[c] :
              c \in DOMAIN j.votes /\ v \in DOMAIN j.votes[c]
    BY <2>1, <1>1, <1>2
  <2> QED BY <2>2 DEF k
<1>4. CASE validity_vote(p, s) = "vote"
  <2>1. k = Counted(p, s)
    BY <1>4 DEF import_statement
  <2>2. c0 \in DOMAIN p.votes
    BY <1>4, VoteMeans
  <2>3. /\ IsJob(k) /\ SameOutside(p, k) /\ k.proposals = p.proposals
        /\ DOMAIN k.votes = DOMAIN p.votes
        /\ k.votes[c0] = Put(p.votes[c0], s.from, s.kind)
        /\ \A c \in DOMAIN p.votes : c # c0 => k.votes[c] = p.votes[c]
    BY <2>1, <2>2, <1>1, CountedEffect
  <2>4. DOMAIN Put(p.votes[c0], s.from, s.kind) = DOMAIN p.votes[c0] \union {s.from}
    BY Zenon DEF Put
  <2> HIDE DEF p, k
  <2>5. SameOutside(j, k)
    BY <1>1, <2>3 DEF SameOutside
  <2>6. ASSUME NEW c \in DOMAIN k.votes, NEW v \in DOMAIN k.votes[c]
        PROVE  \/ c \in DOMAIN j.votes /\ v \in DOMAIN j.votes[c]
               \/ c = c0 /\ v = s.from
    BY <2>3, <2>4, <2>6, <1>2
  <2>7. \A v \in DOMAIN k.proposals :
            v \in DOMAIN j.proposals \/ (v = s.from /\ s.kind = "seconded")
    BY <2>3, <1>2
  <2>8. DOMAIN j.votes \subseteq DOMAIN k.votes
    BY <2>3, <1>2
  <2> QED BY <2>3, <2>5, <2>6, <2>7, <2>8 DEF k
<1> QED BY <1>3, <1>4

\* Importing a statement keeps the table right.
LEMMA ImportTable ==
    ASSUME NEW j, IsJob(j), TableInv(j), NEW s \in Sayable
    PROVE  TableInv(import_statement(j, s))
<1> DEFINE p == Proposed(j, s)
<1>1. IsJob(p) /\ TableInv(p)
  BY ProposedEffect, ProposedTable
<1>2. CASE validity_vote(p, s) # "vote"
  BY <1>1, <1>2 DEF import_statement
<1>3. CASE validity_vote(p, s) = "vote"
  <2>1. /\ s.candidate \in DOMAIN p.votes
        /\ is_member_of(s.from, s.candidate)
        /\ s.kind = "seconded" =>
              s.from \in DOMAIN p.proposals /\ p.proposals[s.from] = s.candidate
    BY <1>3, VoteMeans
  <2>2. import_statement(j, s) = Counted(p, s)
    BY <1>3 DEF import_statement
  <2> QED BY <2>1, <2>2, <1>1, CountedTable
<1> QED BY <1>2, <1>3

\* The table is a matter of three fields.
LEMMA TableFields ==
    ASSUME NEW j, TableInv(j), NEW k,
           k.votes = j.votes, k.backed = j.backed, k.proposals = j.proposals
    PROVE  TableInv(k)
  BY DEF TableInv, attested_candidate

-----------------------------------------------------------------------------
(* Changes of a job outside its table.                                     *)

SameTable(j, k) ==
    k.votes = j.votes /\ k.backed = j.backed /\ k.proposals = j.proposals

Fallbacks == [from : Speakers, backing : Seq(Speakers)]

\* Replacing the fallbacks.
LEMMA FallbacksReplaced ==
    ASSUME NEW j, IsJob(j), NEW F, IsMap(F, Candidates, Fallbacks), NEW k,
           k = [j EXCEPT !.fallbacks = F]
    PROVE  /\ IsJob(k) /\ SameTable(j, k) /\ k.fallbacks = F
           /\ k.seconded = j.seconded /\ k.issued = j.issued /\ k.awaiting = j.awaiting
<1>1. /\ SameTable(j, k) /\ k.fallbacks = F
      /\ k.seconded = j.seconded /\ k.issued = j.issued /\ k.awaiting = j.awaiting
      /\ k = [seconded |-> k.seconded, issued |-> k.issued, awaiting |-> k.awaiting,
              fallbacks |-> k.fallbacks, backed |-> k.backed, proposals |-> k.proposals,
              votes |-> k.votes]
  BY DEF IsJob, SameTable
<1> QED BY <1>1 DEF IsJob, SameTable, Fallbacks

\* Awaiting a candidate.
LEMMA SpawnEffect ==
    ASSUME NEW j, IsJob(j), NEW running, NEW c \in Candidates, NEW task,
           Spawn(j, running, c, task)
    PROVE  /\ IsJob(job') /\ SameTable(j, job') /\ job'.seconded = j.seconded
           /\ job'.issued = j.issued /\ job'.fallbacks = j.fallbacks
           /\ job'.awaiting = j.awaiting \union {c}
           /\ tasks' = IF c \in j.awaiting THEN running ELSE Put(running, c, task)
<1>1. /\ SameTable(j, job') /\ job'.seconded = j.seconded
      /\ job'.issued = j.issued /\ job'.fallbacks = j.fallbacks
      /\ job'.awaiting = j.awaiting \union {c}
      /\ job' = [seconded |-> job'.seconded, issued |-> job'.issued,
                 awaiting |-> job'.awaiting, fallbacks |-> job'.fallbacks,
                 backed |-> job'.backed, proposals |-> job'.proposals,
                 votes |-> job'.votes]
  BY DEF IsJob, SameTable, Spawn
<1>2. IsJob(job')
  BY <1>1 DEF IsJob, SameTable
<1> QED BY <1>1, <1>2 DEF Spawn

\* The three outcomes of kick_off_validation_work, on the job j that becomes k
\* while the tasks running become t.
KickedOff(j, k, running, t, c, from) ==
    /\ IsJob(k) /\ SameTable(j, k) /\ k.seconded = j.seconded
    /\ k.fallbacks = j.fallbacks
    /\ \/ /\ c \in j.issued /\ t = running
          /\ k.issued = j.issued /\ k.awaiting = j.awaiting
       \/ /\ c \notin j.issued /\ c \in WrongCollator /\ t = running
          /\ k.issued = j.issued \union {c} /\ k.awaiting = j.awaiting
       \/ /\ c \notin j.issued /\ c \notin WrongCollator
          /\ k.issued = j.issued /\ k.awaiting = j.awaiting \union {c}
          /\ t = IF c \in j.awaiting THEN running ELSE Put(running, c, Task("attest", from))

\* They are its outcomes.
LEMMA KickOffEffect ==
    ASSUME NEW j, IsJob(j), NEW running, NEW c \in Candidates, NEW from,
           kick_off_validation_work(j, running, c, from)
    PROVE  KickedOff(j, job', running, tasks', c, from)
<1> SUFFICES /\ IsJob(job') /\ SameTable(j, job') /\ job'.seconded = j.seconded
             /\ job'.fallbacks = j.fallbacks
             /\ \/ /\ c \in j.issued /\ tasks' = running
                   /\ job'.issued = j.issued /\ job'.awaiting = j.awaiting
                \/ /\ c \notin j.issued /\ c \in WrongCollator /\ tasks' = running
                   /\ job'.issued = j.issued \union {c} /\ job'.awaiting = j.awaiting
                \/ /\ c \notin j.issued /\ c \notin WrongCollator
                   /\ job'.issued = j.issued /\ job'.awaiting = j.awaiting \union {c}
                   /\ tasks' = IF c \in j.awaiting THEN running
                               ELSE Put(running, c, Task("attest", from))
  BY DEF KickedOff
<1>1. CASE c \in j.issued
  <2>1. job' = j /\ tasks' = running
    BY <1>1 DEF kick_off_validation_work
  <2> QED BY <2>1, <1>1 DEF SameTable
<1>2. CASE c \notin j.issued /\ c \in WrongCollator
  <2>1. job' = [j EXCEPT !.issued = @ \union {c}] /\ tasks' = running
    BY <1>2 DEF kick_off_validation_work
  <2>2. /\ SameTable(j, job') /\ job'.seconded = j.seconded
        /\ job'.issued = j.issued \union {c} /\ job'.fallbacks = j.fallbacks
        /\ job'.awaiting = j.awaiting
        /\ job' = [seconded |-> job'.seconded, issued |-> job'.issued,
                   awaiting |-> job'.awaiting, fallbacks |-> job'.fallbacks,
                   backed |-> job'.backed, proposals |-> job'.proposals,
                   votes |-> job'.votes]
    BY <2>1 DEF IsJob, SameTable
  <2>3. IsJob(job')
    BY <2>2 DEF IsJob, SameTable
  <2> QED BY <2>1, <2>2, <2>3, <1>2
<1>3. CASE c \notin j.issued /\ c \notin WrongCollator
  <2>1. Spawn(j, running, c, Task("attest", from))
    BY <1>3 DEF kick_off_validation_work
  <2> QED BY <2>1, <1>3, SpawnEffect
<1> QED BY <1>1, <1>2, <1>3

\* The result of a task for c is taken.
LEMMA AwaitedEffect ==
    ASSUME IsJob(job), NEW c
    PROVE  /\ IsJob(Awaited(c)) /\ SameTable(job, Awaited(c))
           /\ Awaited(c).seconded = job.seconded /\ Awaited(c).issued = job.issued
           /\ Awaited(c).fallbacks = job.fallbacks
           /\ Awaited(c).awaiting = job.awaiting \ {c}
<1> DEFINE k == Awaited(c)
<1>0. k = [job EXCEPT !.awaiting = @ \ {c}]
  BY DEF Awaited
<1> HIDE DEF k
<1>1. /\ SameTable(job, k) /\ k.seconded = job.seconded /\ k.issued = job.issued
      /\ k.fallbacks = job.fallbacks /\ k.awaiting = job.awaiting \ {c}
      /\ k = [seconded |-> k.seconded, issued |-> k.issued, awaiting |-> k.awaiting,
              fallbacks |-> k.fallbacks, backed |-> k.backed, proposals |-> k.proposals,
              votes |-> k.votes]
  BY <1>0 DEF IsJob, SameTable
<1>2. IsJob(k)
  BY <1>1 DEF IsJob, SameTable
<1> QED BY <1>1, <1>2 DEF k

\* A candidate becomes the seconded one.
LEMMA SecondedEffect ==
    ASSUME IsJob(job), NEW c \in Candidates, NEW k,
           k = [Awaited(c) EXCEPT !.seconded = c, !.issued = @ \union {c}]
    PROVE  /\ IsJob(k) /\ SameTable(job, k)
           /\ k.seconded = c /\ k.issued = job.issued \union {c}
           /\ k.fallbacks = job.fallbacks /\ k.awaiting = job.awaiting \ {c}
<1> DEFINE a == Awaited(c)
<1>1. /\ IsJob(a) /\ SameTable(job, a)
      /\ a.seconded = job.seconded /\ a.issued = job.issued
      /\ a.fallbacks = job.fallbacks /\ a.awaiting = job.awaiting \ {c}
  BY AwaitedEffect
<1> HIDE DEF a
<1>2. /\ SameTable(a, k) /\ k.seconded = c /\ k.issued = a.issued \union {c}
      /\ k.fallbacks = a.fallbacks /\ k.awaiting = a.awaiting
      /\ k = [seconded |-> k.seconded, issued |-> k.issued, awaiting |-> k.awaiting,
              fallbacks |-> k.fallbacks, backed |-> k.backed, proposals |-> k.proposals,
              votes |-> k.votes]
  BY <1>1 DEF IsJob, SameTable, a
<1>3. IsJob(k)
  BY <1>1, <1>2 DEF IsJob, SameTable
<1> QED BY <1>1, <1>2, <1>3 DEF SameTable

\* A candidate of others is done with.
LEMMA AttestedEffect ==
    ASSUME IsJob(job), NEW c \in Candidates, NEW k,
           k = [Awaited(c) EXCEPT !.fallbacks = Without(@, {c}), !.issued = @ \union {c}]
    PROVE  /\ IsJob(k) /\ SameTable(job, k)
           /\ k.seconded = job.seconded /\ k.issued = job.issued \union {c}
           /\ k.fallbacks = Without(job.fallbacks, {c})
           /\ k.awaiting = job.awaiting \ {c}
<1> DEFINE a == Awaited(c)
<1>1. /\ IsJob(a) /\ SameTable(job, a)
      /\ a.seconded = job.seconded /\ a.issued = job.issued
      /\ a.fallbacks = job.fallbacks /\ a.awaiting = job.awaiting \ {c}
  BY AwaitedEffect
<1> HIDE DEF a
<1>2. /\ SameTable(a, k) /\ k.seconded = a.seconded /\ k.issued = a.issued \union {c}
      /\ k.fallbacks = Without(a.fallbacks, {c}) /\ k.awaiting = a.awaiting
      /\ k = [seconded |-> k.seconded, issued |-> k.issued, awaiting |-> k.awaiting,
              fallbacks |-> k.fallbacks, backed |-> k.backed, proposals |-> k.proposals,
              votes |-> k.votes]
  BY <1>1 DEF IsJob, SameTable, a
<1>3. IsMap(k.fallbacks, Candidates, Fallbacks)
  BY <1>1, <1>2, WithoutIsMap DEF IsJob, Fallbacks
<1>4. IsJob(k)
  BY <1>1, <1>2, <1>3 DEF IsJob, SameTable, Fallbacks
<1> QED BY <1>1, <1>2, <1>4 DEF SameTable

TaskType == [kind : {"second", "attest"}, from : Speakers \union {None}]

\* The jobs that Validates hands on, by the kind of the statement: with the
\* backers begun anew, unchanged, with one more backer to fall back on, or with
\* another one to ask.
LEMMA ValidatesCases ==
    ASSUME NEW j, IsJob(j), NEW s \in Sayable, Validates(j, s)
    PROVE  LET c == s.candidate
           IN  \/ job' = j /\ tasks' = tasks
               \/ \E F : /\ IsMap(F, Candidates, Fallbacks)
                         /\ DOMAIN F = DOMAIN j.fallbacks \union {c}
                         /\ \A d \in DOMAIN j.fallbacks : d # c => F[d] = j.fallbacks[d]
                         /\ \/ /\ c \in j.awaiting /\ tasks' = tasks
                               /\ job' = [j EXCEPT !.fallbacks = F]
                            \/ kick_off_validation_work([j EXCEPT !.fallbacks = F],
                                                        tasks, c, s.from)
<1> DEFINE c == s.candidate
<1>1. c \in Candidates /\ s.from \in Speakers /\ s.kind \in {"seconded", "valid"}
  BY DEF Sayable, Kinds
<1>2. IsMap(j.fallbacks, Candidates, Fallbacks)
  BY DEF IsJob, Fallbacks
<1>3. CASE s.kind = "seconded"
  <2> DEFINE fb == [from |-> s.from, backing |-> <<>>]
             F == Put(j.fallbacks, c, fb)
  <2>1. kick_off_validation_work([j EXCEPT !.fallbacks = F], tasks, c, s.from)
    BY <1>3 DEF Validates
  <2>2. fb \in Fallbacks
    BY <1>1 DEF Fallbacks
  <2>3. IsMap(F, Candidates, Fallbacks)
    BY <1>1, <1>2, <2>2, PutIsMap
  <2>4. /\ DOMAIN F = DOMAIN j.fallbacks \union {c}
        /\ \A d \in DOMAIN j.fallbacks : d # c => F[d] = j.fallbacks[d]
    BY Zenon DEF Put
  <2> QED BY <2>1, <2>3, <2>4
<1>4. CASE s.kind = "valid" /\ (c \notin DOMAIN j.fallbacks \/ s.from = Me)
  BY <1>4 DEF Validates
<1>5. CASE s.kind = "valid" /\ c \in DOMAIN j.fallbacks /\ s.from # Me
  <2>0. j.fallbacks[c] \in Fallbacks
    BY <1>2, <1>5 DEF IsMap
  <2>1. CASE c \in j.awaiting
    <3> DEFINE fb == [j.fallbacks[c] EXCEPT !.backing = Append(@, s.from)]
               F == [j.fallbacks EXCEPT ![c] = fb]
    <3>1. /\ job' = [j EXCEPT !.fallbacks[c].backing = Append(@, s.from)]
          /\ tasks' = tasks
      BY <1>5, <2>1 DEF Validates
    <3>2. job' = [j EXCEPT !.fallbacks = F]
      BY <3>1
    <3>3. fb \in Fallbacks
      <4> DEFINE b == j.fallbacks[c].backing
      <4>1. b \in Seq(Speakers) /\ j.fallbacks[c].from \in Speakers
        BY <2>0 DEF Fallbacks
      <4>2. fb = [from |-> j.fallbacks[c].from, backing |-> Append(b, s.from)]
        <5> DEFINE r == j.fallbacks[c]
        <5>1. r = [from |-> r.from, backing |-> r.backing]
          BY <2>0 DEF Fallbacks
        <5> HIDE DEF r
        <5>2. [r EXCEPT !.backing = Append(@, s.from)]
                 = [from |-> r.from, backing |-> Append(r.backing, s.from)]
          BY <5>1
        <5> QED BY <5>2 DEF r
      <4> HIDE DEF b, fb
      <4>3. Append(b, s.from) \in Seq(Speakers)
        BY <4>1, <1>1
      <4> QED BY <4>1, <4>2, <4>3 DEF Fallbacks
    <3> HIDE DEF fb
    <3>4. /\ DOMAIN F = DOMAIN j.fallbacks \union {c} /\ F[c] = fb
          /\ \A d \in DOMAIN j.fallbacks : d # c => F[d] = j.fallbacks[d]
      BY <1>5
    <3>5. IsMap(F, Candidates, Fallbacks)
      BY <3>3, <3>4, <1>1, <1>2 DEF IsMap
    <3> HIDE DEF F
    <3> QED BY <2>1, <3>1, <3>2, <3>4, <3>5
  <2>2. CASE c \notin j.awaiting
    <3> DEFINE fb == [j.fallbacks[c] EXCEPT !.from = s.from]
               F == [j.fallbacks EXCEPT ![c] = fb]
    <3>1. kick_off_validation_work([j EXCEPT !.fallbacks[c].from = s.from],
                                   tasks, c, s.from)
      BY <1>5, <2>2 DEF Validates
    <3>2. [j EXCEPT !.fallbacks[c].from = s.from] = [j EXCEPT !.fallbacks = F]
      OBVIOUS
    <3>3. fb \in Fallbacks
      BY <2>0, <1>1 DEF Fallbacks
    <3> HIDE DEF fb
    <3>4. /\ DOMAIN F = DOMAIN j.fallbacks \union {c} /\ F[c] = fb
          /\ \A d \in DOMAIN j.fallbacks : d # c => F[d] = j.fallbacks[d]
      BY <1>5
    <3>5. IsMap(F, Candidates, Fallbacks)
      BY <3>3, <3>4, <1>1, <1>2 DEF IsMap
    <3>6. kick_off_validation_work([j EXCEPT !.fallbacks = F], tasks, c, s.from)
      BY <3>1, <3>2
    <3> HIDE DEF F
    <3> QED BY <3>4, <3>5, <3>6
  <2> QED BY <2>1, <2>2
<1> QED BY <1>1, <1>3, <1>4, <1>5

\* Validation work on a statement keeps the types and the table.
LEMMA ValidatesEffect ==
    ASSUME NEW j, IsJob(j), NEW s \in Sayable, Validates(j, s),
           IsMap(tasks, Candidates, TaskType)
    PROVE  /\ IsJob(job') /\ SameTable(j, job') /\ job'.seconded = j.seconded
           /\ j.issued \subseteq job'.issued
           /\ IsMap(tasks', Candidates, TaskType)
<1> DEFINE c == s.candidate
<1>1. c \in Candidates /\ s.from \in Speakers
  BY DEF Sayable
<1>2. CASE job' = j /\ tasks' = tasks
  BY <1>2 DEF SameTable
<1>3. ASSUME NEW F, IsMap(F, Candidates, Fallbacks),
             \/ /\ tasks' = tasks
                /\ job' = [j EXCEPT !.fallbacks = F]
             \/ kick_off_validation_work([j EXCEPT !.fallbacks = F], tasks, c, s.from)
      PROVE  /\ IsJob(job') /\ SameTable(j, job') /\ job'.seconded = j.seconded
             /\ j.issued \subseteq job'.issued
             /\ IsMap(tasks', Candidates, TaskType)
  <2> DEFINE k == [j EXCEPT !.fallbacks = F]
  <2>1. /\ IsJob(k) /\ SameTable(j, k)
        /\ k.seconded = j.seconded /\ k.issued = j.issued /\ k.awaiting = j.awaiting
    BY <1>3, FallbacksReplaced
  <2>2. CASE tasks' = tasks /\ job' = k
    BY <2>1, <2>2
  <2>3. CASE kick_off_validation_work(k, tasks, c, s.from)
    <3> HIDE DEF k
    <3>1. /\ IsJob(job') /\ SameTable(k, job') /\ job'.seconded = k.seconded
          /\ k.issued \subseteq job'.issued
          /\ \/ tasks' = tasks
             \/ tasks' = Put(tasks, c, Task("attest", s.from))
      <4>1. /\ IsJob(job') /\ SameTable(k, job') /\ job'.seconded = k.seconded
            /\ job'.issued = k.issued \/ job'.issued = k.issued \union {c}
            /\ \/ tasks' = tasks
               \/ tasks' = IF c \in k.awaiting THEN tasks
                           ELSE Put(tasks, c, Task("attest", s.from))
        BY <2>1, <2>3, <1>1, KickOffEffect DEF KickedOff
      <4> QED BY <4>1
    <3>2. Task("attest", s.from) \in TaskType
      BY <1>1 DEF Task, TaskType
    <3>3. IsMap(tasks', Candidates, TaskType)
      BY <3>1, <3>2, <1>1, PutIsMap
    <3> QED BY <3>1, <3>3, <2>1 DEF SameTable
  <2> QED BY <2>2, <2>3, <1>3
<1> QED BY <1>2, <1>3, ValidatesCases

\* The last of the backers is asked next, unless there is none.
LEMMA RetryCases ==
    ASSUME IsJob(job), NEW c \in DOMAIN job.fallbacks, AttestNoPoV(c)
    PROVE  \/ /\ job.fallbacks[c].backing = <<>>
              /\ job' = Awaited(c) /\ tasks' = Without(tasks, {c})
           \/ \E F, v : /\ v \in Speakers /\ IsMap(F, Candidates, Fallbacks)
                        /\ DOMAIN F = DOMAIN job.fallbacks
                        /\ \A d \in DOMAIN job.fallbacks : d # c => F[d] = job.fallbacks[d]
                        /\ kick_off_validation_work([Awaited(c) EXCEPT !.fallbacks = F],
                                                    Without(tasks, {c}), c, v)
<1> DEFINE b == job.fallbacks[c].backing
           fb == [from |-> Last(b), backing |-> Front(b)]
           F == [job.fallbacks EXCEPT ![c] = fb]
<1>1. CASE b = <<>>
  BY <1>1 DEF AttestNoPoV
<1>2. CASE b # <<>>
  <2>1. b \in Seq(Speakers)
    BY DEF IsJob, IsMap
  <2>2. kick_off_validation_work([Awaited(c) EXCEPT !.fallbacks[c] = fb],
                                 Without(tasks, {c}), c, Last(b))
    BY <1>2 DEF AttestNoPoV
  <2>3. Last(b) \in Speakers /\ Front(b) \in Seq(Speakers)
    <3> HIDE DEF b
    <3> QED BY <1>2, <2>1 DEF Last, Front
  <2> HIDE DEF b
  <2>4. fb \in Fallbacks
    BY <2>3 DEF Fallbacks
  <2> HIDE DEF fb
  <2>5. /\ DOMAIN F = DOMAIN job.fallbacks /\ F[c] = fb
        /\ \A d \in DOMAIN job.fallbacks : d # c => F[d] = job.fallbacks[d]
    OBVIOUS
  <2>6. IsMap(F, Candidates, Fallbacks)
    BY <2>4, <2>5 DEF IsJob, IsMap, Fallbacks
  <2>7. [Awaited(c) EXCEPT !.fallbacks[c] = fb] = [Awaited(c) EXCEPT !.fallbacks = F]
    <3> DEFINE a == Awaited(c)
    <3>1. a.fallbacks = job.fallbacks
      BY AwaitedEffect
    <3> HIDE DEF a
    <3>2. [a EXCEPT !.fallbacks[c] = fb] = [a EXCEPT !.fallbacks = F]
      BY <3>1
    <3> QED BY <3>2 DEF a
  <2> HIDE DEF F
  <2>8. kick_off_validation_work([Awaited(c) EXCEPT !.fallbacks = F],
                                 Without(tasks, {c}), c, Last(b))
    BY <2>2, <2>7
  <2> QED BY <2>3, <2>5, <2>6, <2>8
<1> QED BY <1>1, <1>2

-----------------------------------------------------------------------------
(* The tasks of a job.                                                     *)

\* A task runs for exactly the candidates that are awaited and have not failed,
\* all of our para and of the right collator; one that attests has its backers
\* and no statement yet.
TaskOK(j, t, f) ==
    /\ j.awaiting = DOMAIN t \union f
    /\ DOMAIN t \intersect f = {}
    /\ \A c \in DOMAIN t :
          /\ ParaOf[c] = Assignment /\ c \notin WrongCollator
          /\ t[c].kind = "attest" => c \in DOMAIN j.fallbacks /\ c \notin j.issued

\* No backer of c is left untried.
Tried(j, c) ==
    c \in DOMAIN j.fallbacks /\ j.fallbacks[c].backing # <<>> =>
        c \in j.awaiting \/ c \in j.issued \/ j.seconded # None

TaskInv == TaskOK(job, tasks, failed) /\ \A c \in Valid : Tried(job, c)

-----------------------------------------------------------------------------
(* Type correctness.                                                       *)

\* The statements that arrive, and ours, are statements.
LEMMA StatementsSayable ==
    /\ Statements \subseteq Sayable
    /\ \A kind \in Kinds, c \in Candidates : Statement(Me, kind, c) \in Sayable
<1>1. ASSUME NEW s \in Statements
      PROVE  s \in Sayable
  <2>1. /\ s = [from |-> s.from, kind |-> s.kind, candidate |-> s.candidate]
        /\ s.kind \in Kinds /\ s.candidate \in Candidates
    BY BackingAssumption
  <2>2. s.from \in Speakers
    BY DEF Speakers
  <2> QED BY <2>1, <2>2 DEF Sayable
<1>2. Me \in Speakers
  BY DEF Speakers
<1> QED BY <1>1, <1>2 DEF Statement, Sayable

\* The initial job is well typed.
LEMMA InitType == Init => TypeOK
<1> SUFFICES ASSUME Init PROVE TypeOK
  OBVIOUS
<1>1. /\ job.seconded = None /\ job.issued = {} /\ job.awaiting = {}
      /\ job.fallbacks = EmptyMap /\ job.backed = {} /\ job.proposals = EmptyMap
      /\ job.votes = EmptyMap
      /\ job = [seconded |-> job.seconded, issued |-> job.issued,
                awaiting |-> job.awaiting, fallbacks |-> job.fallbacks,
                backed |-> job.backed, proposals |-> job.proposals,
                votes |-> job.votes]
  BY DEF Init, JobInit
<1>2. IsJob(job)
  BY <1>1, EmptyMapEffect DEF IsJob, IsMap
<1>3. IsMap(tasks, Candidates, TaskType) /\ failed \subseteq Candidates
  BY EmptyMapEffect DEF Init, JobInit, IsMap
<1>4. to_backing \in Seq({RelayParent} \X Candidates)
  BY DEF Init
<1> QED BY <1>2, <1>3, <1>4 DEF TypeOK, TaskType

\* What signing does to a job.
LEMMA SignsEffect ==
    ASSUME NEW j, IsJob(j), NEW kind \in Kinds, NEW c \in Candidates,
           Signs(j, kind, c)
    PROVE  /\ IsJob(job') /\ SameOutside(j, job')
           /\ TableInv(j) => TableInv(job')
           /\ \A v \in DOMAIN job'.proposals :
                 v \in DOMAIN j.proposals \/ (v = Me /\ kind = "seconded")
           /\ \A d \in DOMAIN job'.votes : \A v \in DOMAIN job'.votes[d] :
                 \/ d \in DOMAIN j.votes /\ v \in DOMAIN j.votes[d]
                 \/ d = c /\ v = Me
<1> DEFINE s == Statement(Me, kind, c)
<1>1. s \in Sayable
  BY StatementsSayable
<1>2. s.from = Me /\ s.kind = kind /\ s.candidate = c
  BY DEF Statement
<1> HIDE DEF s
<1>3. job' = import_statement(j, s)
  BY DEF Signs, s
<1>4. TableInv(j) => TableInv(job')
  BY <1>1, <1>3, ImportTable
<1>5. /\ IsJob(job') /\ SameOutside(j, job')
      /\ \A v \in DOMAIN job'.proposals :
            v \in DOMAIN j.proposals \/ (v = s.from /\ s.kind = "seconded")
      /\ \A d \in DOMAIN job'.votes : \A v \in DOMAIN job'.votes[d] :
            \/ d \in DOMAIN j.votes /\ v \in DOMAIN j.votes[d]
            \/ d = s.candidate /\ v = s.from
  BY <1>1, <1>3, ImportEffect
<1> QED BY <1>2, <1>4, <1>5

\* What a result does whose statement is not signed: k is the job with the
\* result noted.
LEMMA UnsignedEffect ==
    ASSUME TypeOK, NEW c \in DOMAIN tasks, Unsigned(c)
    PROVE  /\ c \in Candidates /\ tasks' = Without(tasks, {c})
           /\ failed' = failed /\ to_backing' = to_backing
           /\ signed' = signed /\ misbehaved' = misbehaved
           /\ IsJob(job') /\ SameTable(job, job')
           /\ job'.issued = job.issued \union {c} /\ job'.awaiting = job.awaiting \ {c}
           /\ \/ /\ job.seconded = None /\ job'.seconded = c
                 /\ job'.fallbacks = job.fallbacks
              \/ /\ job'.seconded = job.seconded
                 /\ job'.fallbacks = Without(job.fallbacks, {c})
<1>1. /\ c \in Candidates /\ tasks' = Without(tasks, {c})
      /\ failed' = failed /\ to_backing' = to_backing
      /\ signed' = signed /\ misbehaved' = misbehaved
  BY DEF Unsigned, Ends, TypeOK, IsMap
<1>2. IsJob(job)
  BY DEF TypeOK
<1>3. CASE /\ StillSeconds(c)
           /\ job' = [Awaited(c) EXCEPT !.seconded = c, !.issued = @ \union {c}]
  <2>1. /\ IsJob(job') /\ SameTable(job, job')
        /\ job'.seconded = c /\ job'.issued = job.issued \union {c}
        /\ job'.fallbacks = job.fallbacks /\ job'.awaiting = job.awaiting \ {c}
    BY <1>1, <1>2, <1>3, SecondedEffect
  <2> QED BY <1>1, <1>3, <2>1 DEF StillSeconds
<1>4. CASE job' = [Awaited(c) EXCEPT !.fallbacks = Without(@, {c}),
                                     !.issued = @ \union {c}]
  <2>1. /\ IsJob(job') /\ SameTable(job, job')
        /\ job'.seconded = job.seconded /\ job'.issued = job.issued \union {c}
        /\ job'.fallbacks = Without(job.fallbacks, {c})
        /\ job'.awaiting = job.awaiting \ {c}
    BY <1>1, <1>2, <1>4, AttestedEffect
  <2> QED BY <1>1, <2>1
<1> QED BY <1>3, <1>4 DEF Unsigned

\* Every turn of the job keeps the types, and keeps the table right.
LEMMA NextTypeAndTable ==
    ASSUME TypeOK, TaskInv, [Next]_vars
    PROVE  TypeOK' /\ (TableInv(job) => TableInv(job'))
<1> DEFINE Goal == /\ IsJob(job')
                   /\ IsMap(tasks', Candidates, TaskType)
                   /\ TableInv(job) => TableInv(job')
<1>1. /\ IsJob(job) /\ IsMap(tasks, Candidates, TaskType)
      /\ failed \subseteq Candidates
      /\ to_backing \in Seq({RelayParent} \X Candidates)
  BY DEF TypeOK, TaskType
<1>2. ASSUME Goal, failed' \subseteq Candidates,
             to_backing' \in Seq({RelayParent} \X Candidates)
      PROVE  TypeOK' /\ (TableInv(job) => TableInv(job'))
  BY <1>2 DEF TypeOK, TaskType
<1>3. \A k : SameTable(job, k) /\ TableInv(job) => TableInv(k)
  BY TableFields DEF SameTable
<1>4. ASSUME NEW c PROVE IsMap(Without(tasks, {c}), Candidates, TaskType)
  BY <1>1, WithoutIsMap
<1>5. CASE Second
  <2> DEFINE c == Head(to_backing)[2]
  <2>1. to_backing # <<>> /\ to_backing' = Tail(to_backing) /\ failed' = failed
    BY <1>5 DEF Second
  <2>2. c \in Candidates /\ to_backing' \in Seq({RelayParent} \X Candidates)
    BY <1>1, <2>1
  <2>3. CASE job' = job /\ tasks' = tasks
    BY <1>1, <1>2, <2>1, <2>2, <2>3
  <2>4. CASE Spawn(job, tasks, c, Task("second", None))
    <3> HIDE DEF c
    <3>1. /\ IsJob(job') /\ SameTable(job, job')
          /\ tasks' = tasks \/ tasks' = Put(tasks, c, Task("second", None))
      <4>1. IsJob(job') /\ SameTable(job, job')
        BY <1>1, <2>2, <2>4, SpawnEffect
      <4>2. tasks' = tasks \/ tasks' = Put(tasks, c, Task("second", None))
        BY <2>4 DEF Spawn
      <4> QED BY <4>1, <4>2
    <3>2. Task("second", None) \in TaskType
      BY DEF Task, TaskType
    <3>3. IsMap(tasks', Candidates, TaskType)
      BY <1>1, <2>2, <3>1, <3>2, PutIsMap
    <3> QED BY <1>1, <1>2, <1>3, <2>1, <2>2, <3>1, <3>3
  <2> QED BY <1>5, <2>3, <2>4 DEF Second
<1>6. ASSUME NEW s \in Statements, StatementArrives(s)
      PROVE  TypeOK' /\ (TableInv(job) => TableInv(job'))
  <2> DEFINE j == import_statement(job, s)
  <2>1. s \in Sayable
    BY StatementsSayable
  <2>2. IsJob(j)
    BY <1>1, <2>1, ImportEffect
  <2>3. TableInv(job) => TableInv(j)
    BY <1>1, <2>1, ImportTable
  <2>4. failed' = failed /\ to_backing' = to_backing
    BY <1>6 DEF StatementArrives
  <2>5. \/ Validates(j, s)
        \/ job' = j /\ tasks' = tasks
    BY <1>6 DEF StatementArrives
  <2> HIDE DEF j
  <2>6. CASE Validates(j, s)
    <3>1. /\ IsJob(job') /\ SameTable(j, job')
          /\ IsMap(tasks', Candidates, TaskType)
      BY <1>1, <2>1, <2>2, <2>6, ValidatesEffect
    <3>2. TableInv(j) => TableInv(job')
      BY <3>1, TableFields DEF SameTable
    <3> QED BY <1>1, <1>2, <2>3, <2>4, <3>1, <3>2
  <2>7. CASE job' = j /\ tasks' = tasks
    BY <1>1, <1>2, <2>2, <2>3, <2>4, <2>7
  <2> QED BY <2>5, <2>6, <2>7
<1>7. ASSUME NEW c \in DOMAIN tasks, SecondedValid(c)
      PROVE  TypeOK' /\ (TableInv(job) => TableInv(job'))
  <2>0. c \in Candidates /\ failed' = failed /\ to_backing' = to_backing
        /\ tasks' = Without(tasks, {c})
    BY <1>1, <1>7 DEF SecondedValid, Ends, IsMap
  <2> DEFINE k == [Awaited(c) EXCEPT !.seconded = c, !.issued = @ \union {c}]
  <2>1. IsJob(k) /\ SameTable(job, k)
    BY <1>1, <2>0, SecondedEffect
  <2> HIDE DEF k
  <2>2. CASE Signs(k, "seconded", c)
    <3>1. IsJob(job') /\ (TableInv(k) => TableInv(job'))
      BY <2>0, <2>1, <2>2, SignsEffect DEF Kinds
    <3> QED BY <1>1, <1>2, <1>3, <1>4, <2>0, <2>1, <3>1
  <2>3. CASE job' = Awaited(c)
    BY <1>1, <1>2, <1>3, <1>4, <2>0, <2>3, AwaitedEffect
  <2> QED BY <1>7, <2>2, <2>3 DEF SecondedValid, k
<1>8. ASSUME NEW c \in DOMAIN tasks, SecondedInvalid(c)
      PROVE  TypeOK' /\ (TableInv(job) => TableInv(job'))
  <2>1. /\ failed' = failed /\ to_backing' = to_backing
        /\ tasks' = Without(tasks, {c}) /\ job' = Awaited(c)
    BY <1>8 DEF SecondedInvalid, Ends
  <2> QED BY <1>1, <1>2, <1>3, <1>4, <2>1, AwaitedEffect
<1>9. ASSUME NEW c \in DOMAIN tasks, Attested(c)
      PROVE  TypeOK' /\ (TableInv(job) => TableInv(job'))
  <2>0. c \in Candidates /\ failed' = failed /\ to_backing' = to_backing
        /\ tasks' = Without(tasks, {c})
    BY <1>1, <1>9 DEF Attested, Ends, IsMap
  <2> DEFINE k == [Awaited(c) EXCEPT !.fallbacks = Without(@, {c}),
                                     !.issued = @ \union {c}]
  <2>1. IsJob(k) /\ SameTable(job, k)
    BY <1>1, <2>0, AttestedEffect
  <2> HIDE DEF k
  <2>2. CASE Signs(k, "valid", c)
    <3>1. IsJob(job') /\ (TableInv(k) => TableInv(job'))
      BY <2>0, <2>1, <2>2, SignsEffect DEF Kinds
    <3> QED BY <1>1, <1>2, <1>3, <1>4, <2>0, <2>1, <3>1
  <2>3. CASE job' = k
    BY <1>1, <1>2, <1>3, <1>4, <2>0, <2>1, <2>3
  <2> QED BY <1>9, <2>2, <2>3 DEF Attested, k
<1>10. ASSUME NEW c \in DOMAIN tasks, AttestNoPoV(c)
       PROVE  TypeOK' /\ (TableInv(job) => TableInv(job'))
  <2>0. /\ c \in Candidates /\ c \in DOMAIN job.fallbacks
        /\ failed' = failed /\ to_backing' = to_backing
    BY <1>1, <1>10 DEF AttestNoPoV, Ends, IsMap, TaskInv, TaskOK
  <2>1. CASE job' = Awaited(c) /\ tasks' = Without(tasks, {c})
    BY <1>1, <1>2, <1>3, <1>4, <2>0, <2>1, AwaitedEffect
  <2>2. ASSUME NEW F, NEW v \in Speakers, IsMap(F, Candidates, Fallbacks),
               kick_off_validation_work([Awaited(c) EXCEPT !.fallbacks = F],
                                        Without(tasks, {c}), c, v)
        PROVE  TypeOK' /\ (TableInv(job) => TableInv(job'))
    <3> DEFINE k == [Awaited(c) EXCEPT !.fallbacks = F]
               w == Without(tasks, {c})
    <3>1. IsJob(Awaited(c)) /\ SameTable(job, Awaited(c))
      BY <1>1, AwaitedEffect
    <3>2. IsJob(k) /\ SameTable(Awaited(c), k)
      BY <2>2, <3>1, FallbacksReplaced
    <3>3. kick_off_validation_work(k, w, c, v)
      BY <2>2
    <3> HIDE DEF k, w
    <3>4. /\ IsJob(job') /\ SameTable(k, job')
          /\ \/ tasks' = w
             \/ tasks' = IF c \in k.awaiting THEN w ELSE Put(w, c, Task("attest", v))
      BY <2>0, <3>2, <3>3, KickOffEffect DEF KickedOff
    <3>5. IsMap(w, Candidates, TaskType)
      BY <1>4 DEF w
    <3>6. Task("attest", v) \in TaskType
      BY DEF Task, TaskType
    <3>7. IsMap(Put(w, c, Task("attest", v)), Candidates, TaskType)
      BY <2>0, <3>5, <3>6, PutIsMap
    <3>8. IsMap(tasks', Candidates, TaskType)
      BY <3>4, <3>5, <3>7
    <3>9. SameTable(job, job')
      BY <3>1, <3>2, <3>4 DEF SameTable
    <3> QED BY <1>1, <1>2, <1>3, <2>0, <3>4, <3>8, <3>9
  <2> QED BY <1>1, <1>10, <2>0, <2>1, <2>2, RetryCases
<1>11. ASSUME NEW c \in DOMAIN tasks, TaskFails(c)
       PROVE  TypeOK' /\ (TableInv(job) => TableInv(job'))
  <2>1. /\ job' = job /\ tasks' = Without(tasks, {c}) /\ to_backing' = to_backing
        /\ failed' = failed \union {c} /\ c \in Candidates
    BY <1>1, <1>11 DEF TaskFails, IsMap
  <2> QED BY <1>1, <1>2, <1>4, <2>1
<1>12. CASE Collators
  <2>1. PICK c \in Candidates : to_backing' = <<<<RelayParent, c>>>>
    BY <1>12 DEF Collators
  <2>2. to_backing' \in Seq({RelayParent} \X Candidates)
    BY <2>1
  <2> QED BY <1>1, <1>2, <1>12, <2>2 DEF Collators, jobvars
<1>13. CASE UNCHANGED vars
  BY <1>1, <1>2, <1>13 DEF vars, jobvars
<1>14. ASSUME NEW c \in DOMAIN tasks, Unsigned(c)
       PROVE  TypeOK' /\ (TableInv(job) => TableInv(job'))
  <2>1. /\ failed' = failed /\ to_backing' = to_backing
        /\ tasks' = Without(tasks, {c}) /\ IsJob(job') /\ SameTable(job, job')
    BY <1>14, UnsignedEffect
  <2> QED BY <1>1, <1>2, <1>3, <1>4, <2>1
<1> QED
  BY <1>5, <1>6, <1>7, <1>8, <1>9, <1>10, <1>11, <1>12, <1>13, <1>14 DEF Next, Turn

-----------------------------------------------------------------------------
(* Tasks are tracked.                                                      *)

\* After kick_off_validation_work the task is running, or not needed.
LEMMA KickOffTasks ==
    ASSUME NEW j, IsJob(j), NEW running, NEW c \in Candidates, NEW from,
           c \in DOMAIN j.fallbacks, ParaOf[c] = Assignment,
           failed' = failed, TaskOK(j, running, failed),
           \A d \in Valid : d # c => Tried(j, d),
           kick_off_validation_work(j, running, c, from)
    PROVE  TaskInv'
<1>1. /\ IsJob(job') /\ SameTable(j, job') /\ job'.seconded = j.seconded
      /\ job'.fallbacks = j.fallbacks
      /\ \/ /\ c \in j.issued /\ tasks' = running
            /\ job'.issued = j.issued /\ job'.awaiting = j.awaiting
         \/ /\ c \notin j.issued /\ c \in WrongCollator /\ tasks' = running
            /\ job'.issued = j.issued \union {c} /\ job'.awaiting = j.awaiting
         \/ /\ c \notin j.issued /\ c \notin WrongCollator
            /\ job'.issued = j.issued /\ job'.awaiting = j.awaiting \union {c}
            /\ tasks' = IF c \in j.awaiting THEN running
                        ELSE Put(running, c, Task("attest", from))
  <2>1. KickedOff(j, job', running, tasks', c, from)
    BY KickOffEffect
  <2> QED BY <2>1 DEF KickedOff
<1>2. /\ DOMAIN Put(running, c, Task("attest", from)) = DOMAIN running \union {c}
      /\ \A d \in DOMAIN running :
            d # c => Put(running, c, Task("attest", from))[d] = running[d]
  BY Zenon DEF Put
<1>3. TaskOK(job', tasks', failed')
  <2>1. CASE c \in j.issued /\ tasks' = running
             /\ job'.issued = j.issued /\ job'.awaiting = j.awaiting
    BY <1>1, <2>1 DEF TaskOK
  <2>2. CASE c \notin j.issued /\ c \in WrongCollator /\ tasks' = running
             /\ job'.issued = j.issued \union {c} /\ job'.awaiting = j.awaiting
    BY <1>1, <2>2 DEF TaskOK
  <2>3. CASE /\ c \notin j.issued /\ c \notin WrongCollator
             /\ job'.issued = j.issued /\ job'.awaiting = j.awaiting \union {c}
             /\ tasks' = IF c \in j.awaiting THEN running
                         ELSE Put(running, c, Task("attest", from))
    <3>1. CASE c \in j.awaiting
      BY <1>1, <2>3, <3>1 DEF TaskOK
    <3>2. CASE c \notin j.awaiting
      BY <1>1, <1>2, <2>3, <3>2 DEF TaskOK
    <3> QED BY <3>1, <3>2
  <2> QED BY <1>1, <2>1, <2>2, <2>3
<1>4. \A d \in Valid : Tried(job', d)
  BY <1>1 DEF Tried
<1> QED BY <1>3, <1>4 DEF TaskInv

\* A job whose fallbacks changed for a candidate at most keeps its tasks in order.
LEMMA FallbacksTasks ==
    ASSUME NEW j, IsJob(j), NEW c \in Candidates, NEW t, NEW f,
           TaskOK(j, t, f), \A d \in Valid : d # c => Tried(j, d),
           NEW F, DOMAIN F = DOMAIN j.fallbacks \union {c},
           \A d \in DOMAIN j.fallbacks : d # c => F[d] = j.fallbacks[d],
           NEW k, k.fallbacks = F, k.seconded = j.seconded, k.issued = j.issued,
           k.awaiting = j.awaiting
    PROVE  TaskOK(k, t, f) /\ \A d \in Valid : d # c => Tried(k, d)
<1>1. TaskOK(k, t, f)
  BY DEF TaskOK
<1>2. ASSUME NEW d \in Valid, d # c PROVE Tried(k, d)
  BY <1>2 DEF Tried
<1> QED BY <1>1, <1>2

\* The task of c ends, its result being taken.
LEMMA EndTasks ==
    ASSUME NEW j, NEW k, NEW c, NEW t, NEW f, c \in DOMAIN t, TaskOK(j, t, f),
           k.awaiting = j.awaiting \ {c},
           \A d \in DOMAIN j.fallbacks : d # c => d \in DOMAIN k.fallbacks,
           k.issued \subseteq j.issued \union {c}
    PROVE  TaskOK(k, Without(t, {c}), f)
<1>1. /\ DOMAIN Without(t, {c}) = DOMAIN t \ {c}
      /\ \A d \in DOMAIN t : d # c => Without(t, {c})[d] = t[d]
  BY Zenon DEF Without
<1> QED BY <1>1 DEF TaskOK

\* Every turn of the job keeps its tasks in order.
LEMMA NextTasks ==
    ASSUME TypeOK, TaskInv, [Next]_vars
    PROVE  TaskInv'
<1>1. /\ IsJob(job) /\ IsMap(tasks, Candidates, TaskType)
      /\ to_backing \in Seq({RelayParent} \X Candidates)
  BY DEF TypeOK, TaskType
<1>2. TaskOK(job, tasks, failed) /\ \A c \in Valid : Tried(job, c)
  BY DEF TaskInv
<1>3. CASE Second
  <2> DEFINE c == Head(to_backing)[2]
  <2>1. to_backing # <<>> /\ failed' = failed
    BY <1>3 DEF Second
  <2>2. c \in Candidates
    BY <1>1, <2>1
  <2>3. CASE job' = job /\ tasks' = tasks
    BY <1>2, <2>1, <2>3 DEF TaskInv, TaskOK, Tried
  <2>4. CASE /\ ParaOf[c] = Assignment /\ c \notin WrongCollator
             /\ Spawn(job, tasks, c, Task("second", None))
    <3> HIDE DEF c
    <3> DEFINE t == Put(tasks, c, Task("second", None))
    <3>1. /\ job'.seconded = job.seconded
          /\ job'.issued = job.issued /\ job'.fallbacks = job.fallbacks
          /\ job'.awaiting = job.awaiting \union {c}
          /\ (c \in job.awaiting /\ tasks' = tasks) \/ (c \notin job.awaiting /\ tasks' = t)
      BY <2>4, <1>1 DEF Spawn, IsJob
    <3>2. /\ DOMAIN t = DOMAIN tasks \union {c} /\ t[c] = Task("second", None)
          /\ \A d \in DOMAIN tasks : d # c => t[d] = tasks[d]
      BY Zenon DEF Put
    <3>3. Task("second", None).kind = "second"
      BY DEF Task
    <3> HIDE DEF t
    <3>4. TaskOK(job', tasks', failed')
      <4>1. CASE c \in job.awaiting /\ tasks' = tasks
        BY <1>2, <2>1, <3>1, <4>1 DEF TaskOK
      <4>2. CASE c \notin job.awaiting /\ tasks' = t
        BY <1>2, <2>1, <2>4, <3>1, <3>2, <3>3, <4>2 DEF TaskOK
      <4> QED BY <3>1, <4>1, <4>2
    <3>5. \A d \in Valid : Tried(job', d)
      BY <1>2, <3>1 DEF Tried
    <3> QED BY <3>4, <3>5 DEF TaskInv
  <2> QED BY <1>3, <2>3, <2>4 DEF Second
<1>4. ASSUME NEW s \in Statements, StatementArrives(s)
      PROVE  TaskInv'
  <2> DEFINE j == import_statement(job, s)
             c == s.candidate
  <2>1. s \in Sayable /\ c \in Candidates
    BY StatementsSayable DEF Sayable
  <2>2. IsJob(j) /\ SameOutside(job, j)
    BY <1>1, <2>1, ImportEffect
  <2>3. failed' = failed
    BY <1>4 DEF StatementArrives
  <2>4. \/ Validates(j, s) /\ ParaOf[c] = Assignment
        \/ job' = j /\ tasks' = tasks
    BY <1>4 DEF StatementArrives
  <2> HIDE DEF j
  <2>5. TaskOK(j, tasks, failed) /\ \A d \in Valid : Tried(j, d)
    BY <1>2, <2>2 DEF SameOutside, TaskOK, Tried
  <2>6. CASE job' = j /\ tasks' = tasks
    BY <2>3, <2>5, <2>6 DEF TaskInv
  <2>7. ASSUME ParaOf[c] = Assignment, NEW F, IsMap(F, Candidates, Fallbacks),
               DOMAIN F = DOMAIN j.fallbacks \union {c},
               \A d \in DOMAIN j.fallbacks : d # c => F[d] = j.fallbacks[d],
               \/ /\ c \in j.awaiting /\ tasks' = tasks
                  /\ job' = [j EXCEPT !.fallbacks = F]
               \/ kick_off_validation_work([j EXCEPT !.fallbacks = F], tasks, c, s.from)
        PROVE  TaskInv'
    <3> DEFINE k == [j EXCEPT !.fallbacks = F]
    <3>1. /\ IsJob(k) /\ k.fallbacks = F
          /\ k.seconded = j.seconded /\ k.issued = j.issued /\ k.awaiting = j.awaiting
      BY <2>2, <2>7, FallbacksReplaced
    <3>2. (c \in j.awaiting /\ tasks' = tasks /\ job' = k)
             \/ kick_off_validation_work(k, tasks, c, s.from)
      BY <2>7
    <3> HIDE DEF k
    <3>3. TaskOK(k, tasks, failed) /\ \A d \in Valid : d # c => Tried(k, d)
      BY <2>1, <2>2, <2>5, <2>7, <3>1, FallbacksTasks
    <3>4. CASE c \in j.awaiting /\ tasks' = tasks /\ job' = k
      <4>1. Tried(k, c)
        BY <3>1, <3>4 DEF Tried
      <4> QED BY <2>3, <3>3, <3>4, <4>1 DEF TaskInv
    <3>5. CASE kick_off_validation_work(k, tasks, c, s.from)
      <4>1. c \in DOMAIN k.fallbacks
        BY <2>7, <3>1
      <4> HIDE DEF c
      <4> QED BY <2>1, <2>3, <2>7, <3>1, <3>3, <3>5, <4>1, KickOffTasks
    <3> QED BY <3>2, <3>4, <3>5
  <2>8. CASE Validates(j, s) /\ ParaOf[c] = Assignment
    BY <2>1, <2>2, <2>6, <2>7, <2>8, ValidatesCases
  <2> QED BY <2>4, <2>6, <2>8
<1>5. ASSUME NEW c \in DOMAIN tasks, SecondedValid(c)
      PROVE  TaskInv'
  <2>0. c \in Candidates /\ failed' = failed /\ tasks' = Without(tasks, {c})
    BY <1>1, <1>5 DEF SecondedValid, Ends, IsMap
  <2> DEFINE k == [Awaited(c) EXCEPT !.seconded = c, !.issued = @ \union {c}]
  <2>1. /\ IsJob(k) /\ k.seconded = c /\ k.issued = job.issued \union {c}
        /\ k.fallbacks = job.fallbacks /\ k.awaiting = job.awaiting \ {c}
    BY <1>1, <2>0, SecondedEffect
  <2> HIDE DEF k
  <2>2. CASE Signs(k, "seconded", c)
    <3>1. SameOutside(k, job')
      BY <2>0, <2>1, <2>2, SignsEffect DEF Kinds
    <3>2. /\ job'.issued = job.issued \union {c} /\ job'.fallbacks = job.fallbacks
          /\ job'.awaiting = job.awaiting \ {c} /\ job'.seconded = c
      BY <2>1, <3>1 DEF SameOutside
    <3>3. TaskOK(job', tasks', failed')
      BY <1>2, <2>0, <3>2, EndTasks
    <3>4. c # None
      BY <2>0, BackingAssumption
    <3>5. \A d \in Valid : Tried(job', d)
      BY <3>2, <3>4 DEF Tried
    <3> QED BY <3>3, <3>5 DEF TaskInv
  <2>3. CASE job' = Awaited(c) /\ ~StillSeconds(c)
    <3>1. /\ job'.seconded = job.seconded /\ job'.issued = job.issued
          /\ job'.fallbacks = job.fallbacks /\ job'.awaiting = job.awaiting \ {c}
      BY <1>1, <2>3, AwaitedEffect
    <3>2. TaskOK(job', tasks', failed')
      BY <1>2, <2>0, <3>1, EndTasks
    <3>3. \A d \in Valid : Tried(job', d)
      BY <1>2, <2>3, <3>1 DEF Tried, StillSeconds
    <3> QED BY <3>2, <3>3 DEF TaskInv
  <2> QED BY <1>5, <2>2, <2>3 DEF SecondedValid, k
<1>6. ASSUME NEW c \in DOMAIN tasks, SecondedInvalid(c)
      PROVE  TaskInv'
  <2>1. /\ failed' = failed /\ tasks' = Without(tasks, {c}) /\ job' = Awaited(c)
        /\ c \notin Valid
    BY <1>6 DEF SecondedInvalid, Ends
  <2>2. /\ job'.seconded = job.seconded /\ job'.issued = job.issued
        /\ job'.fallbacks = job.fallbacks /\ job'.awaiting = job.awaiting \ {c}
    BY <1>1, <2>1, AwaitedEffect
  <2>3. TaskOK(job', tasks', failed')
    BY <1>2, <2>1, <2>2, EndTasks
  <2>4. \A d \in Valid : Tried(job', d)
    BY <1>2, <2>1, <2>2 DEF Tried
  <2> QED BY <2>3, <2>4 DEF TaskInv
<1>7. ASSUME NEW c \in DOMAIN tasks, Attested(c)
      PROVE  TaskInv'
  <2>0. c \in Candidates /\ failed' = failed /\ tasks' = Without(tasks, {c})
    BY <1>1, <1>7 DEF Attested, Ends, IsMap
  <2> DEFINE k == [Awaited(c) EXCEPT !.fallbacks = Without(@, {c}),
                                     !.issued = @ \union {c}]
             w == Without(job.fallbacks, {c})
  <2>1. /\ IsJob(k) /\ k.seconded = job.seconded /\ k.issued = job.issued \union {c}
        /\ k.fallbacks = w /\ k.awaiting = job.awaiting \ {c}
    BY <1>1, <2>0, AttestedEffect
  <2>2. /\ DOMAIN w = DOMAIN job.fallbacks \ {c}
        /\ \A d \in DOMAIN job.fallbacks : d # c => w[d] = job.fallbacks[d]
    BY Zenon DEF Without
  <2> HIDE DEF k, w
  <2>3. SameOutside(k, job')
    <3>1. CASE Signs(k, "valid", c)
      BY <2>0, <2>1, <3>1, SignsEffect DEF Kinds
    <3>2. CASE job' = k
      BY <3>2 DEF SameOutside
    <3> QED BY <1>7, <3>1, <3>2 DEF Attested, k
  <2>4. /\ job'.issued = job.issued \union {c} /\ job'.fallbacks = w
        /\ job'.awaiting = job.awaiting \ {c} /\ job'.seconded = job.seconded
    BY <2>1, <2>3 DEF SameOutside
  <2>5. TaskOK(job', tasks', failed')
    BY <1>2, <2>0, <2>2, <2>4, EndTasks
  <2>6. \A d \in Valid : Tried(job', d)
    BY <1>2, <2>2, <2>4 DEF Tried
  <2> QED BY <2>5, <2>6 DEF TaskInv
<1>8. ASSUME NEW c \in DOMAIN tasks, AttestNoPoV(c)
      PROVE  TaskInv'
  <2>0. /\ c \in Candidates /\ c \in DOMAIN job.fallbacks /\ failed' = failed
        /\ ParaOf[c] = Assignment
    BY <1>1, <1>2, <1>8 DEF AttestNoPoV, Ends, IsMap, TaskOK
  <2> DEFINE a == Awaited(c)
             w == Without(tasks, {c})
  <2>1. /\ IsJob(a) /\ a.seconded = job.seconded /\ a.issued = job.issued
        /\ a.fallbacks = job.fallbacks /\ a.awaiting = job.awaiting \ {c}
    BY <1>1, AwaitedEffect
  <2> HIDE DEF a
  <2>2. TaskOK(a, w, failed)
    BY <1>2, <2>1, EndTasks
  <2>3. \A d \in Valid : d # c => Tried(a, d)
    BY <1>2, <2>1 DEF Tried
  <2>4. CASE job' = a /\ tasks' = w /\ job.fallbacks[c].backing = <<>>
    <3>1. Tried(a, c)
      BY <2>1, <2>4 DEF Tried
    <3> QED BY <2>0, <2>2, <2>3, <2>4, <3>1 DEF TaskInv
  <2> HIDE DEF w
  <2>5. ASSUME NEW F, NEW v \in Speakers, IsMap(F, Candidates, Fallbacks),
               DOMAIN F = DOMAIN job.fallbacks,
               \A d \in DOMAIN job.fallbacks : d # c => F[d] = job.fallbacks[d],
               kick_off_validation_work([a EXCEPT !.fallbacks = F], w, c, v)
        PROVE  TaskInv'
    <3> DEFINE k == [a EXCEPT !.fallbacks = F]
    <3>1. /\ IsJob(k) /\ k.fallbacks = F
          /\ k.seconded = a.seconded /\ k.issued = a.issued /\ k.awaiting = a.awaiting
      BY <2>1, <2>5, FallbacksReplaced
    <3>2. kick_off_validation_work(k, w, c, v)
      BY <2>5
    <3> HIDE DEF k
    <3>3. TaskOK(k, w, failed) /\ \A d \in Valid : d # c => Tried(k, d)
      BY <2>0, <2>1, <2>2, <2>3, <2>5, <3>1, FallbacksTasks
    <3>4. c \in DOMAIN k.fallbacks
      BY <2>0, <2>5, <3>1
    <3> QED BY <2>0, <3>1, <3>2, <3>3, <3>4, KickOffTasks
  <2> QED BY <1>1, <1>8, <2>0, <2>4, <2>5, RetryCases DEF a, w
<1>9. ASSUME NEW c \in DOMAIN tasks, TaskFails(c)
      PROVE  TaskInv'
  <2>1. job' = job /\ tasks' = Without(tasks, {c}) /\ failed' = failed \union {c}
    BY <1>9 DEF TaskFails
  <2>2. /\ DOMAIN Without(tasks, {c}) = DOMAIN tasks \ {c}
        /\ \A d \in DOMAIN tasks : d # c => Without(tasks, {c})[d] = tasks[d]
    BY Zenon DEF Without
  <2>3. TaskOK(job', tasks', failed')
    BY <1>2, <2>1, <2>2 DEF TaskOK
  <2> QED BY <1>2, <2>1, <2>3 DEF TaskInv
<1>10. CASE Collators \/ UNCHANGED vars
  BY <1>2, <1>10 DEF Collators, vars, jobvars, TaskInv
<1>11. ASSUME NEW c \in DOMAIN tasks, Unsigned(c)
       PROVE  TaskInv'
  <2> DEFINE w == Without(job.fallbacks, {c})
  <2>1. /\ c \in Candidates /\ failed' = failed /\ tasks' = Without(tasks, {c})
        /\ job'.issued = job.issued \union {c} /\ job'.awaiting = job.awaiting \ {c}
        /\ \/ job'.seconded = c /\ job'.fallbacks = job.fallbacks
           \/ job'.seconded = job.seconded /\ job'.fallbacks = w
    BY <1>11, UnsignedEffect
  <2>2. /\ DOMAIN w = DOMAIN job.fallbacks \ {c}
        /\ \A d \in DOMAIN job.fallbacks : d # c => w[d] = job.fallbacks[d]
    BY Zenon DEF Without
  <2> HIDE DEF w
  <2>3. TaskOK(job', tasks', failed')
    BY <1>2, <2>1, <2>2, EndTasks
  <2>4. c # None
    BY <2>1, BackingAssumption
  <2>5. \A d \in Valid : Tried(job', d)
    BY <1>2, <2>1, <2>2, <2>4 DEF Tried
  <2> QED BY <2>3, <2>5 DEF TaskInv
<1> QED
  BY <1>3, <1>4, <1>5, <1>6, <1>7, <1>8, <1>9, <1>10, <1>11 DEF Next, Turn

-----------------------------------------------------------------------------
(* Our own statements.                                                     *)

\* What we have signed is valid and among the issued, a proposal of ours is the
\* seconded candidate, a candidate has one statement of ours, and the table has no
\* vote or proposal of ours beyond that.
OwnInv(j, S, M) ==
    /\ \A s \in S : /\ s.candidate \in Valid /\ s.candidate \in j.issued
                    /\ s.kind = "seconded" => j.seconded = s.candidate
    /\ \A s, t \in S : s.candidate = t.candidate => s = t
    /\ Me \in DOMAIN j.proposals => j.seconded # None
    /\ \A c \in DOMAIN j.votes : Me \in DOMAIN j.votes[c] => c \in j.issued
    /\ Me \notin M

\* The job goes on without anything of ours.
GoesOn(j, k) ==
    /\ j.issued \subseteq k.issued
    /\ j.seconded # None => k.seconded = j.seconded
    /\ Me \in DOMAIN k.proposals => Me \in DOMAIN j.proposals
    /\ \A c \in DOMAIN k.votes : Me \in DOMAIN k.votes[c] =>
          c \in DOMAIN j.votes /\ Me \in DOMAIN j.votes[c]

\* It is kept by a job that goes on.
LEMMA OwnKept ==
    ASSUME NEW j, IsJob(j), NEW k, NEW S, NEW M, NEW N,
           OwnInv(j, S, M), GoesOn(j, k), Me \notin N
    PROVE  OwnInv(k, S, N)
<1>1. \A c \in j.issued : c # None
  BY BackingAssumption DEF IsJob
<1>2. \A s \in S : s.kind = "seconded" => k.seconded = s.candidate
  BY <1>1 DEF OwnInv, GoesOn
<1> QED BY <1>2 DEF OwnInv, GoesOn

\* A change outside the table goes on.
LEMMA SameTableGoesOn ==
    ASSUME NEW j, NEW k, SameTable(j, k), j.issued \subseteq k.issued,
           j.seconded # None => k.seconded = j.seconded
    PROVE  GoesOn(j, k)
  BY DEF SameTable, GoesOn

\* A statement of a member of the group is no misbehaviour if it has no vote on
\* the candidate yet and, to propose it, no proposal.
LEMMA FirstVote ==
    ASSUME NEW j, IsJob(j), NEW s \in Sayable, is_member_of(s.from, s.candidate),
           \A c \in DOMAIN j.votes : c = s.candidate => s.from \notin DOMAIN j.votes[c],
           s.kind = "seconded" => s.from \notin DOMAIN j.proposals
    PROVE  ~Misbehaves(j, s)
<1> DEFINE p == Proposed(j, s)
           c == s.candidate
<1>1. s.kind = "seconded" \/ s.kind = "valid"
  BY DEF Sayable, Kinds
<1>2. CASE s.kind = "valid"
  <2>1. p = j
    BY <1>2 DEF Proposed
  <2>2. CASE c \notin DOMAIN j.votes
    BY <1>2, <2>1, <2>2 DEF Misbehaves, validity_vote
  <2>3. CASE c \in DOMAIN j.votes
    <3>1. ~Unauthorized(j, s)
      BY <1>2 DEF Unauthorized
    <3> QED BY <1>2, <2>1, <2>3, <3>1 DEF Misbehaves, validity_vote
  <2> QED BY <2>2, <2>3
<1>3. CASE s.kind = "seconded"
  <2> DEFINE g == GetOr(j.votes, c, EmptyMap)
             pr == Put(j.proposals, s.from, c)
             vo == Put(j.votes, c, g)
  <2>1. p = [j EXCEPT !.proposals = pr, !.votes = vo]
    <3>1. GetOr(j.proposals, s.from, c) = c
      BY <1>3 DEF GetOr
    <3> QED BY <1>3, <3>1 DEF Proposed, import_candidate
  <2>2. p.proposals = pr /\ p.votes = vo
    BY <2>1 DEF IsJob
  <2>3. /\ s.from \in DOMAIN pr /\ pr[s.from] = c
        /\ c \in DOMAIN vo /\ vo[c] = g
    BY Zenon DEF Put
  <2>4. s.from \notin DOMAIN g
    BY EmptyMapEffect DEF GetOr
  <2> HIDE DEF p, g, pr, vo
  <2>5. ~Unauthorized(p, s)
    BY <2>2, <2>3 DEF Unauthorized, GetOr
  <2>6. validity_vote(p, s) = "vote"
    BY <1>3, <2>2, <2>3, <2>4, <2>5 DEF validity_vote
  <2> QED BY <2>6 DEF Misbehaves, p
<1> QED BY <1>1, <1>2, <1>3

\* Signing a statement on a candidate that had none is no misbehaviour; j is the
\* job with the result noted.
LEMMA SignsOwn ==
    ASSUME NEW j, IsJob(j), NEW kind \in Kinds, NEW c \in Candidates,
           Signs(j, kind, c), OwnInv(job, signed, misbehaved), IsJob(job),
           SameTable(job, j), c \in Valid, c \notin job.issued,
           j.issued = job.issued \union {c},
           kind = "seconded" => job.seconded = None /\ j.seconded = c,
           kind # "seconded" => j.seconded = job.seconded,
           is_member_of(Me, c)
    PROVE  OwnInv(job', signed', misbehaved')
<1> DEFINE s == Statement(Me, kind, c)
<1>1. s \in Sayable /\ s.from = Me /\ s.kind = kind /\ s.candidate = c
  BY StatementsSayable DEF Statement
<1>2. /\ signed' = signed \union {s}
      /\ misbehaved' = IF Misbehaves(j, s) THEN misbehaved \union {Me} ELSE misbehaved
  BY DEF Signs
<1> HIDE DEF s
<1>3. c # None /\ \A d \in job.issued : d # None
  BY BackingAssumption DEF IsJob
<1>4. ~Misbehaves(j, s)
  <2>1. \A d \in DOMAIN j.votes : d = c => Me \notin DOMAIN j.votes[d]
    BY DEF SameTable, OwnInv
  <2>2. kind = "seconded" => Me \notin DOMAIN j.proposals
    BY DEF SameTable, OwnInv
  <2> QED BY <1>1, <2>1, <2>2, FirstVote
<1>5. misbehaved' = misbehaved
  BY <1>2, <1>4
<1>6. /\ SameOutside(j, job')
      /\ \A v \in DOMAIN job'.proposals :
            v \in DOMAIN j.proposals \/ (v = Me /\ kind = "seconded")
      /\ \A d \in DOMAIN job'.votes : \A v \in DOMAIN job'.votes[d] :
            \/ d \in DOMAIN j.votes /\ v \in DOMAIN j.votes[d]
            \/ d = c /\ v = Me
  BY SignsEffect
<1>7. job'.issued = job.issued \union {c} /\ job'.seconded = j.seconded
  BY <1>6 DEF SameOutside
<1>8. ASSUME NEW t \in signed'
      PROVE  /\ t.candidate \in Valid /\ t.candidate \in job'.issued
             /\ t.kind = "seconded" => job'.seconded = t.candidate
  <2>1. CASE t = s
    BY <2>1, <1>1, <1>7
  <2>2. CASE t \in signed
    <3>1. /\ t.candidate \in Valid /\ t.candidate \in job.issued
          /\ t.kind = "seconded" => job.seconded = t.candidate
      BY <2>2 DEF OwnInv
    <3>2. t.kind = "seconded" => kind # "seconded"
      BY <1>3, <3>1
    <3> QED BY <1>7, <3>1, <3>2
  <2> QED BY <1>2, <2>1, <2>2
<1>9. ASSUME NEW t \in signed', NEW u \in signed', t.candidate = u.candidate
      PROVE  t = u
  <2>1. \A x \in signed : x.candidate # c
    BY DEF OwnInv
  <2>2. CASE t \in signed /\ u \in signed
    BY <1>9, <2>2 DEF OwnInv
  <2>3. CASE t = s \/ u = s
    BY <1>1, <1>2, <1>9, <2>1, <2>3
  <2> QED BY <1>2, <2>2, <2>3
<1>10. Me \in DOMAIN job'.proposals => job'.seconded # None
  BY <1>3, <1>6, <1>7 DEF OwnInv, SameTable
<1>11. ASSUME NEW d \in DOMAIN job'.votes, Me \in DOMAIN job'.votes[d]
       PROVE  d \in job'.issued
  BY <1>6, <1>7, <1>11 DEF OwnInv, SameTable
<1>12. Me \notin misbehaved'
  BY <1>5 DEF OwnInv
<1> QED BY <1>8, <1>9, <1>10, <1>11, <1>12 DEF OwnInv

\* A task is for a candidate of our para, so we are in its group.
LEMMA TaskMember ==
    ASSUME TypeOK, TaskInv, NEW c \in DOMAIN tasks
    PROVE  c \in Candidates /\ is_member_of(Me, c)
<1>1. c \in Candidates /\ ParaOf[c] = Assignment
  BY DEF TypeOK, IsMap, TaskInv, TaskOK
<1>2. Assignment # None
  BY <1>1, BackingAssumption
<1>3. \E p \in DOMAIN Groups : Me \in Groups[p]
  BY <1>2 DEF Assignment
<1>4. Assignment \in DOMAIN Groups /\ Me \in Groups[Assignment]
  BY <1>3 DEF Assignment
<1> QED BY <1>1, <1>4 DEF is_member_of

\* Every turn of the job keeps our statements consistent.
LEMMA NextOwn ==
    ASSUME TypeOK, TaskInv, OwnInv(job, signed, misbehaved), [Next]_vars
    PROVE  OwnInv(job', signed', misbehaved')
<1>1. /\ IsJob(job) /\ IsMap(tasks, Candidates, TaskType)
      /\ to_backing \in Seq({RelayParent} \X Candidates)
  BY DEF TypeOK, TaskType
<1>2. Me \notin misbehaved
  BY DEF OwnInv
<1>3. ASSUME GoesOn(job, job'), signed' = signed, Me \notin misbehaved'
      PROVE  OwnInv(job', signed', misbehaved')
  BY <1>1, <1>3, OwnKept
<1>4. CASE Second
  <2> DEFINE c == Head(to_backing)[2]
  <2>1. to_backing # <<>> /\ signed' = signed /\ misbehaved' = misbehaved
    BY <1>4 DEF Second
  <2>2. c \in Candidates
    BY <1>1, <2>1
  <2>3. CASE job' = job
    BY <1>2, <2>1, <2>3
  <2>4. CASE Spawn(job, tasks, c, Task("second", None))
    <3> HIDE DEF c
    <3>1. SameTable(job, job') /\ job'.seconded = job.seconded /\ job'.issued = job.issued
      BY <1>1, <2>2, <2>4, SpawnEffect
    <3>2. GoesOn(job, job')
      BY <3>1, SameTableGoesOn
    <3> QED BY <1>2, <1>3, <2>1, <3>2
  <2> QED BY <1>4, <2>3, <2>4 DEF Second
<1>5. ASSUME NEW s \in Statements, StatementArrives(s)
      PROVE  OwnInv(job', signed', misbehaved')
  <2> DEFINE j == import_statement(job, s)
  <2>1. s \in Sayable /\ s.from # Me
    BY StatementsSayable, BackingAssumption
  <2>2. /\ IsJob(j) /\ SameOutside(job, j)
        /\ \A v \in DOMAIN j.proposals :
              v \in DOMAIN job.proposals \/ (v = s.from /\ s.kind = "seconded")
        /\ \A c \in DOMAIN j.votes : \A v \in DOMAIN j.votes[c] :
              \/ c \in DOMAIN job.votes /\ v \in DOMAIN job.votes[c]
              \/ c = s.candidate /\ v = s.from
    BY <1>1, <2>1, ImportEffect
  <2>3. signed' = signed /\ Me \notin misbehaved'
    BY <1>2, <1>5, <2>1 DEF StatementArrives
  <2>4. Validates(j, s) \/ (job' = j /\ tasks' = tasks)
    BY <1>5 DEF StatementArrives
  <2> HIDE DEF j
  <2>5. SameTable(j, job') /\ job'.seconded = j.seconded /\ j.issued \subseteq job'.issued
    <3>1. CASE Validates(j, s)
      BY <1>1, <2>1, <2>2, <3>1, ValidatesEffect
    <3>2. CASE job' = j
      BY <3>2 DEF SameTable
    <3> QED BY <2>4, <3>1, <3>2
  <2>6. GoesOn(job, job')
    BY <2>1, <2>2, <2>5 DEF GoesOn, SameTable, SameOutside
  <2> QED BY <1>3, <2>3, <2>6
<1>6. ASSUME NEW c \in DOMAIN tasks, SecondedValid(c)
      PROVE  OwnInv(job', signed', misbehaved')
  <2>0. c \in Candidates /\ is_member_of(Me, c) /\ c \in Valid
    BY <1>6, TaskMember DEF SecondedValid
  <2> DEFINE k == [Awaited(c) EXCEPT !.seconded = c, !.issued = @ \union {c}]
  <2>1. /\ IsJob(k) /\ SameTable(job, k)
        /\ k.seconded = c /\ k.issued = job.issued \union {c}
    BY <1>1, <2>0, SecondedEffect
  <2> HIDE DEF k
  <2>2. CASE StillSeconds(c) /\ Signs(k, "seconded", c)
    <3>1. job.seconded = None /\ c \notin job.issued
      BY <2>2 DEF StillSeconds
    <3>2. "seconded" \in Kinds
      BY DEF Kinds
    <3> QED BY <1>1, <2>0, <2>1, <2>2, <3>1, <3>2, SignsOwn
  <2>3. CASE job' = Awaited(c) /\ signed' = signed /\ misbehaved' = misbehaved
    <3>1. SameTable(job, job') /\ job'.seconded = job.seconded /\ job'.issued = job.issued
      BY <1>1, <2>3, AwaitedEffect
    <3>2. GoesOn(job, job')
      BY <3>1, SameTableGoesOn
    <3> QED BY <1>2, <1>3, <2>3, <3>2
  <2> QED BY <1>6, <2>2, <2>3 DEF SecondedValid, k
<1>7. ASSUME NEW c \in DOMAIN tasks, SecondedInvalid(c)
      PROVE  OwnInv(job', signed', misbehaved')
  <2>1. job' = Awaited(c) /\ signed' = signed /\ misbehaved' = misbehaved
    BY <1>7 DEF SecondedInvalid
  <2>2. SameTable(job, job') /\ job'.seconded = job.seconded /\ job'.issued = job.issued
    BY <1>1, <2>1, AwaitedEffect
  <2>3. GoesOn(job, job')
    BY <2>2, SameTableGoesOn
  <2> QED BY <1>2, <1>3, <2>1, <2>3
<1>8. ASSUME NEW c \in DOMAIN tasks, Attested(c)
      PROVE  OwnInv(job', signed', misbehaved')
  <2>0. c \in Candidates /\ is_member_of(Me, c)
    BY TaskMember
  <2> DEFINE k == [Awaited(c) EXCEPT !.fallbacks = Without(@, {c}),
                                     !.issued = @ \union {c}]
  <2>1. /\ IsJob(k) /\ SameTable(job, k)
        /\ k.seconded = job.seconded /\ k.issued = job.issued \union {c}
    BY <1>1, <2>0, AttestedEffect
  <2> HIDE DEF k
  <2>2. CASE c \in Valid /\ c \notin job.issued /\ Signs(k, "valid", c)
    <3>1. "valid" \in Kinds
      BY DEF Kinds
    <3> QED BY <1>1, <2>0, <2>1, <2>2, <3>1, SignsOwn
  <2>3. CASE job' = k /\ signed' = signed /\ misbehaved' = misbehaved
    <3>1. GoesOn(job, job')
      BY <2>1, <2>3, SameTableGoesOn
    <3> QED BY <1>2, <1>3, <2>3, <3>1
  <2> QED BY <1>8, <2>2, <2>3 DEF Attested, k
<1>9. ASSUME NEW c \in DOMAIN tasks, AttestNoPoV(c)
      PROVE  OwnInv(job', signed', misbehaved')
  <2>0. /\ c \in Candidates /\ c \in DOMAIN job.fallbacks
        /\ signed' = signed /\ misbehaved' = misbehaved
    BY <1>1, <1>9 DEF AttestNoPoV, Ends, IsMap, TaskInv, TaskOK
  <2> DEFINE a == Awaited(c)
  <2>1. IsJob(a) /\ SameTable(job, a) /\ a.seconded = job.seconded /\ a.issued = job.issued
    BY <1>1, AwaitedEffect
  <2> HIDE DEF a
  <2>2. CASE job' = a
    <3>1. GoesOn(job, job')
      BY <2>1, <2>2, SameTableGoesOn
    <3> QED BY <1>2, <1>3, <2>0, <3>1
  <2>3. ASSUME NEW F, NEW v \in Speakers, IsMap(F, Candidates, Fallbacks),
               kick_off_validation_work([a EXCEPT !.fallbacks = F],
                                        Without(tasks, {c}), c, v)
        PROVE  OwnInv(job', signed', misbehaved')
    <3> DEFINE k == [a EXCEPT !.fallbacks = F]
               w == Without(tasks, {c})
    <3>1. IsJob(k) /\ SameTable(a, k) /\ k.seconded = a.seconded /\ k.issued = a.issued
      BY <2>1, <2>3, FallbacksReplaced
    <3>2. kick_off_validation_work(k, w, c, v)
      BY <2>3
    <3> HIDE DEF k, w
    <3>3. /\ SameTable(k, job') /\ job'.seconded = k.seconded
          /\ k.issued \subseteq job'.issued
      BY <2>0, <3>1, <3>2, KickOffEffect DEF KickedOff
    <3>4. GoesOn(job, job')
      BY <2>1, <3>1, <3>3, SameTableGoesOn DEF SameTable
    <3> QED BY <1>2, <1>3, <2>0, <3>4
  <2> QED BY <1>1, <1>9, <2>0, <2>2, <2>3, RetryCases DEF a
<1>10. ASSUME NEW c \in DOMAIN tasks, TaskFails(c)
       PROVE  OwnInv(job', signed', misbehaved')
  BY <1>10 DEF TaskFails
<1>11. CASE Collators \/ UNCHANGED vars
  BY <1>11 DEF Collators, vars, jobvars
<1>12. ASSUME NEW c \in DOMAIN tasks, Unsigned(c)
       PROVE  OwnInv(job', signed', misbehaved')
  <2>1. /\ signed' = signed /\ misbehaved' = misbehaved /\ SameTable(job, job')
        /\ job.issued \subseteq job'.issued
        /\ job.seconded # None => job'.seconded = job.seconded
    BY <1>12, UnsignedEffect
  <2>2. GoesOn(job, job')
    BY <2>1, SameTableGoesOn
  <2> QED BY <1>2, <1>3, <2>1, <2>2
<1> QED
  BY <1>4, <1>5, <1>6, <1>7, <1>8, <1>9, <1>10, <1>11, <1>12 DEF Next, Turn

-----------------------------------------------------------------------------
(* The theorems.                                                           *)

\* The inductive invariant of the job.
BackingInv ==
    TypeOK /\ TaskInv /\ TableInv(job) /\ OwnInv(job, signed, misbehaved)

\* It holds of every behaviour of the job.
LEMMA BackingInductive == Spec => []BackingInv
<1>1. Init => BackingInv
  <2> SUFFICES ASSUME Init PROVE BackingInv
    OBVIOUS
  <2>1. TypeOK
    BY InitType
  <2>2. /\ job.issued = {} /\ job.awaiting = {} /\ job.backed = {}
        /\ job.fallbacks = EmptyMap /\ job.proposals = EmptyMap /\ job.votes = EmptyMap
        /\ tasks = EmptyMap /\ signed = {} /\ misbehaved = {} /\ failed = {}
    BY DEF Init, JobInit
  <2>3. TaskInv
    BY <2>2, EmptyMapEffect DEF TaskInv, TaskOK, Tried
  <2>4. TableInv(job)
    BY <2>2, EmptyMapEffect DEF TableInv
  <2>5. OwnInv(job, signed, misbehaved)
    BY <2>2, EmptyMapEffect DEF OwnInv
  <2> QED BY <2>1, <2>3, <2>4, <2>5 DEF BackingInv
<1>2. BackingInv /\ [Next]_vars => BackingInv'
  BY NextTypeAndTable, NextTasks, NextOwn DEF BackingInv
<1> QED BY <1>1, <1>2, PTL DEF Spec

\* The job, its table and its tasks keep the types of lib.rs and generic.rs.
THEOREM TypesKept == Spec => []TypeOK
<1>1. BackingInv => TypeOK
  BY DEF BackingInv
<1> QED BY <1>1, BackingInductive, PTL

\* Every awaited candidate has its task, and no backer of a valid candidate is
\* left untried, whatever fails and whichever order statements and results come in
\* (awaiting_validation and fallbacks of lib.rs).
THEOREM TasksAlwaysTracked == Spec => []TasksTracked
<1>1. BackingInv => TasksTracked
  BY DEF BackingInv, TaskInv, TaskOK, Tried, TasksTracked
<1> QED BY <1>1, BackingInductive, PTL

\* The table tells the provisioner of exactly the candidates that have enough
\* votes of their group (import_statement of generic.rs).
THEOREM BackedExactly == Spec => []BackedExact
<1>1. BackingInv => BackedExact
  BY DEF BackingInv, TableInv, BackedExact
<1> QED BY <1>1, BackingInductive, PTL

\* Whatever others say, this node seconds one candidate, makes one statement on
\* each, only on valid ones, and is never reported by its own table
\* (sign_import_and_distribute_statement of lib.rs).
THEOREM SignsConsistently == Spec => []NeverMisbehaves
<1>1. BackingInv => NeverMisbehaves
  BY DEF BackingInv, OwnInv, NeverMisbehaves
<1> QED BY <1>1, BackingInductive, PTL
=============================================================================
