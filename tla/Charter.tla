------------------------------ MODULE Charter ------------------------------
(***************************************************************************)
(* What solaris-towns promises of the towns it stores: they are lawful,    *)
(* and change by one decision about one town at a time, or by taking back  *)
(* such a decision as a whole.  Commands, zones, versions, retries and     *)
(* restarts are all below this level.                                      *)
(***************************************************************************)
EXTENDS Integers, FiniteSets

CONSTANTS Players, Names, Chunks,
          MaxTowns, MaxMembers, MaxClaims, MaxTrusted

VARIABLE chartered  \* the towns there are: name -> town

Members(town) == DOMAIN town.members

Roles == {"leader", "officer", "member"}

IsTown(town) ==
  /\ Members(town) \subseteq Players
  /\ town \in [leader: Players, members: [Members(town) -> Roles],
               claims: SUBSET Chunks, trusted: SUBSET Players,
               public_use: BOOLEAN]

IsRegister(register) ==
  /\ DOMAIN register \subseteq Names
  /\ register = [name \in DOMAIN register |-> register[name]]
  /\ \A name \in DOMAIN register : IsTown(register[name])

(* One leader, who is a member; no guest is a member; the town is not too  *)
(* big.                                                                    *)
LawfulTown(town) ==
  /\ \A p \in Members(town) : town.members[p] = "leader" <=> p = town.leader
  /\ town.leader \in Members(town)
  /\ Members(town) \cap town.trusted = {}
  /\ Cardinality(Members(town)) <= MaxMembers
  /\ Cardinality(town.trusted) <= MaxTrusted

(* A player is in one town, a chunk belongs to one town.                   *)
Lawful(register) ==
  /\ IsRegister(register)
  /\ Cardinality(DOMAIN register) <= MaxTowns
  /\ \A name \in DOMAIN register : LawfulTown(register[name])
  /\ \A one, other \in DOMAIN register : one # other =>
        /\ Members(register[one]) \cap Members(register[other]) = {}
        /\ register[one].claims \cap register[other].claims = {}
  /\ Cardinality(UNION {register[name].claims : name \in DOMAIN register})
       <= MaxClaims

(* The members of old and new are the same but for one player.             *)
OnePlayer(old, new) ==
  \E p \in Players :
     /\ Members(old) \ {p} = Members(new) \ {p}
     /\ \A q \in Members(old) \ {p} : new.members[q] = old.members[q]
     /\ new.trusted \in {old.trusted, old.trusted \ {p}}

(* One decision of a town: about one member, one chunk, one guest, or the  *)
(* doors.                                                                  *)
Decision(old, new) ==
  /\ new.leader = old.leader
  /\ \/ /\ OnePlayer(old, new)
        /\ new.claims = old.claims /\ new.public_use = old.public_use
     \/ /\ \E c \in Chunks : new.claims \in {old.claims \cup {c}, old.claims \ {c}}
        /\ new.members = old.members /\ new.trusted = old.trusted
        /\ new.public_use = old.public_use
     \/ /\ \E p \in Players : new.trusted \in {old.trusted \cup {p}, old.trusted \ {p}}
        /\ new.members = old.members /\ new.claims = old.claims
        /\ new.public_use = old.public_use
     \/ /\ new.members = old.members /\ new.claims = old.claims
        /\ new.trusted = old.trusted

(* A town is founded by one player and owns nothing yet.                   *)
Founded(town) == /\ Members(town) = {town.leader}
                 /\ town.claims = {} /\ town.trusted = {}
                 /\ town.public_use = FALSE

Change(before, after) ==
  \E name \in DOMAIN after :
     /\ DOMAIN after \ {name} = DOMAIN before \ {name}
     /\ \A other \in DOMAIN after \ {name} : after[other] = before[other]
     /\ IF name \in DOMAIN before
        THEN Decision(before[name], after[name])
        ELSE Founded(after[name])

Init == Lawful(chartered)

Next == /\ Lawful(chartered')
        /\ Change(chartered, chartered') \/ Change(chartered', chartered)

Spec == Init /\ [][Next]_chartered
=============================================================================
