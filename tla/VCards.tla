------------------------------- MODULE VCards -------------------------------
(***************************************************************************)
(* The VCard table as apps/cards creates, saves and deletes its rows: whom *)
(* a card belongs to and the slug its public URL ends in.  A card is       *)
(* counted against a tenant: its organization, or its owner if it has      *)
(* none.  How many a tenant may have is whatever Billing made of its       *)
(* subscription, and who belongs to an organization is Team's.             *)
(***************************************************************************)
EXTENDS Integers, FiniteSets

CONSTANTS
    VCardIds,     \* primary keys: a new card never gets an old one
    Users,
    Orgs,
    Slugs,        \* john-doe, john-doe-2, ...
    Limits,       \* max_vcards of the plans a tenant may be on; 0: not usable
    Roles         \* the roles a user may come to have in an organization

Tenants == Users \cup Orgs
Role == {"none", "member", "manager"}

ASSUME VCardIdsAssumption == "none" \notin VCardIds
ASSUME OwnersAssumption ==
    {"none", "nobody", "deleted"} \cap Tenants = {} /\ Users \cap Orgs = {}
ASSUME SlugsAssumption == {"none", "blank"} \cap Slugs = {}
ASSUME LimitsAssumption == Limits \in [Tenants -> SUBSET Nat]
ASSUME RolesAssumption == Roles \in [Users -> [Orgs -> SUBSET Role]]

VARIABLES
    vcard,        \* the VCard table
    limit,        \* what each tenant's subscription allows at the moment
    role          \* active memberships: manager for owner and admin

vcardVars == <<vcard, limit, role>>

VCard == [owner: Users, org: Orgs \cup {"none"}, slug: Slugs]
NotYet == [owner |-> "nobody", org |-> "none", slug |-> "none"]
Deleted == [owner |-> "deleted", org |-> "none", slug |-> "none"]

VCardsTypeOK ==
    /\ vcard \in [VCardIds -> VCard \cup {NotYet, Deleted}]
    /\ limit \in [Tenants -> Nat] /\ \A t \in Tenants : limit[t] \in Limits[t]
    /\ role \in [Users -> [Orgs -> Role]]

VCardsInit ==
    /\ vcard = [c \in VCardIds |-> NotYet]
    /\ limit \in {f \in [Tenants -> UNION {Limits[t] : t \in Tenants}] :
                     \A t \in Tenants : f[t] \in Limits[t]}
    /\ role \in {f \in [Users -> [Orgs -> Role]] :
                    \A u \in Users, o \in Orgs : f[u][o] \in Roles[u][o]}

Exists(c) == vcard[c].owner \in Users

(* Whose subscription a card counts against, and who may use it: its owner  *)
(* and every active member of its organization (_get_owned_vcard).          *)
TenantOf(row) == IF row.org = "none" THEN row.owner ELSE row.org
Party(row) ==
    {u \in Users : \/ u = row.owner
                   \/ row.org # "none" /\ role[u][row.org] # "none"}

OwnedBy(t) == {c \in VCardIds : Exists(c) /\ TenantOf(vcard[c]) = t}

-----------------------------------------------------------------------------
(* generate_unique_slug: one that no committed card has, whatever the name. *)
FreeSlugs == {s \in Slugs : \A c \in VCardIds : vcard[c].slug # s}

(* MUTANT of CanCreate: <= for <.                                           *)
CanCreateOneMore(t) == Cardinality(OwnedBy(t)) <= limit[t]

(* can_create_vcard; nothing in the code archives a card.                   *)
CanCreate(t) == Cardinality(OwnedBy(t)) < limit[t]

(* MUTANT of PutVCard: the slug column is not unique.                       *)
PutVCardSameSlug(c, row) == vcard' = [vcard EXCEPT ![c] = row]

(* An INSERT; the unique slug column refuses one that was taken meanwhile.  *)
PutVCard(c, row) ==
    /\ row.slug \in FreeSlugs
    /\ vcard' = [vcard EXCEPT ![c] = row]

(* A new card, under a new key.                                             *)
InsertVCard(row) == \E c \in VCardIds : vcard[c] = NotYet /\ PutVCard(c, row)

(* The save of a PATCH writes the whole row it read: it changes nothing     *)
(* that matters here, unless the card was deleted meanwhile, and then it    *)
(* inserts it again, with its old key, slug and parties.                    *)
SaveVCard(c, row) ==
    \/ Exists(c) /\ UNCHANGED vcard
    \/ ~Exists(c) /\ PutVCard(c, row)

(* instance.delete(): the slug is free again.                               *)
DropVCard(c) ==
    /\ Exists(c)
    /\ vcard' = [vcard EXCEPT ![c] = Deleted]

(* Billing switches the tenant's plan, or ends or renews its subscription.  *)
SubscriptionChange(t) == \E l \in Limits[t] : limit' = [limit EXCEPT ![t] = l]

(* Team gives the user another role, or none.                               *)
RoleChange(u, o) ==
    \E r \in Roles[u][o] \ {role[u][o]} : role' = [role EXCEPT ![u][o] = r]
=============================================================================
