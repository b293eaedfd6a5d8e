----------------------------- MODULE Membership -----------------------------
(***************************************************************************)
(* Who belongs to which organization: OrganizationsService behind its      *)
(* guards, and AuthService.register, which makes a user, an organization   *)
(* and what links them by one call after another.  An organization is its  *)
(* slug, and every name asks for the same one.                             *)
(***************************************************************************)
EXTENDS Naturals, FiniteSets

CONSTANTS
  User,       \* users, by address
  Known,      \* those with an account from the start
  Role,       \* roles in use, OWNER and ADMIN among them
  Slugs,      \* bound: how many organizations there may be
  Request,    \* HTTP requests
  MaxFaults   \* bound: database calls that reject

ASSUME KnownAssumption == Known \subseteq User /\ Known # {}
ASSUME RoleAssumption == {"OWNER", "ADMIN"} \subseteq Role /\ "none" \notin Role
ASSUME SlugsAssumption == Slugs \in Nat \ {0}

Slug == 1..Slugs

VARIABLES
  users,      \* the rows of users
  orgs,       \* the rows of organizations
  member,     \* the rows of organization_members: a role, or "none"
  subscribed, \* organizations with a row in subscriptions
  req,        \* where each request is, and what it holds
  faults,
  moved,      \* history: users whose role somebody else has changed or taken
  overlapped  \* history: which Conflicts have been in progress at once

rows == <<users, orgs, member, subscribed>>
vars == <<rows, req, faults, moved, overlapped>>

Op == {"none", "register", "create", "invite", "updateRole", "remove"}
Label == {"idle", "account", "slug", "organization", "owner", "plan", "verify", "look", "write", "over"}

(* Pairs of operations of which one may decide on what the other changes.  *)
SlugRaces == {{"register"}, {"register", "create"}}
RoleRaces == {{"updateRole"}, {"updateRole", "remove"}}
Conflicts == SlugRaces \cup RoleRaces

RequestState == [op : Op, pc : Label, by : User, org : Slug, target : User, role : Role]

TypeOK ==
  /\ users \subseteq User /\ orgs \subseteq Slug
  /\ subscribed \subseteq orgs
  /\ member \in [Slug -> [User -> Role \cup {"none"}]]
  /\ \A s \in Slug, u \in User : member[s][u] # "none" => s \in orgs /\ u \in users
  /\ req \in [Request -> RequestState]
  /\ faults \in Nat /\ moved \subseteq User /\ overlapped \subseteq Conflicts

-----------------------------------------------------------------------------

Idle == LET u == CHOOSE v \in User : TRUE IN
  [op |-> "none", pc |-> "idle", by |-> u, org |-> 1, target |-> u, role |-> "OWNER"]

(* An organization that has been at work for some time: any roles among    *)
(* its users, of whom one at least is an OWNER.                            *)
Init ==
  /\ users = Known /\ orgs = {1} /\ subscribed = {1}
  /\ \E roles \in [Known -> Role] :
       /\ \E u \in Known : roles[u] = "OWNER"
       /\ member = [s \in Slug |-> [u \in User |-> IF s = 1 /\ u \in Known THEN roles[u] ELSE "none"]]
  /\ req = [r \in Request |-> Idle]
  /\ faults = 0 /\ moved = {} /\ overlapped = {}

InProgress(r) == req[r].pc \notin {"idle", "over"}

Step(r, fields) == req' = [req EXCEPT ![r] = fields]
Goto(r, label) == Step(r, IF label = "over" THEN [Idle EXCEPT !.pc = "over"] ELSE [req[r] EXCEPT !.pc = label])

Begin(r, op, label, fields) ==
  /\ req[r].pc = "idle"
  /\ Step(r, [fields EXCEPT !.op = op, !.pc = label])
  /\ overlapped' = overlapped \cup ({{op, req[q].op} : q \in {p \in Request : InProgress(p)}} \cap Conflicts)
  /\ UNCHANGED <<rows, faults, moved>>

At(r, label) == req[r].pc = label /\ UNCHANGED <<faults, overlapped>>

-----------------------------------------------------------------------------
(* register and create.                                                    *)

(* The address is looked up, the password hashed.                          *)
register(r, u) == u \notin users /\ Begin(r, "register", "account", [req[r] EXCEPT !.by = u])

create(r, u) == u \in users /\ Begin(r, "create", "slug", [req[r] EXCEPT !.by = u])

(* The address is unique: of two accounts the second is refused.           *)
CreateUser(r) ==
  /\ At(r, "account")
  /\ users' = users \cup {req[r].by}
  /\ Goto(r, IF req[r].by \in users THEN "over" ELSE "slug")
  /\ UNCHANGED <<orgs, member, subscribed, moved>>

(* generateUniqueSlug tries one suffix after another until one is free.    *)
PickSlug(r) ==
  /\ At(r, "slug")
  /\ \E s \in Slug \ orgs : (\A t \in 1..(s - 1) : t \in orgs) /\ Step(r, [req[r] EXCEPT !.pc = "organization", !.org = s])
  /\ UNCHANGED <<rows, moved>>

(* The slug is unique: of two organizations the second is refused.         *)
CreateOrganization(r) ==
  /\ At(r, "organization")
  /\ orgs' = orgs \cup {req[r].org}
  /\ Goto(r, IF req[r].org \in orgs THEN "over" ELSE "owner")
  /\ UNCHANGED <<users, member, subscribed, moved>>

CreateOwner(r) ==
  /\ At(r, "owner")
  /\ member' = [member EXCEPT ![req[r].org][req[r].by] = "OWNER"]
  /\ Goto(r, IF req[r].op = "register" THEN "plan" ELSE "over")
  /\ UNCHANGED <<users, orgs, subscribed, moved>>

(* Mutant of Subscribe: the plan is found and nothing made of it.          *)
FindPlanOnly(r) == At(r, "plan") /\ Goto(r, "over") /\ UNCHANGED <<rows, moved>>

(* The free plan is there; the key of the verification link and the tokens *)
(* come after, in Sessions.                                                *)
Subscribe(r) ==
  /\ At(r, "plan")
  /\ subscribed' = subscribed \cup {req[r].org}
  /\ Goto(r, "over")
  /\ UNCHANGED <<users, orgs, member, moved>>

-----------------------------------------------------------------------------
(* Members.                                                                *)

RoleOf(s, u) == member[s][u]

(* OrganizationGuard reads the role of the user, RolesGuard compares it.   *)
Allowed(op, s, u) ==
  RoleOf(s, u) \in (IF op = "updateRole" THEN {"OWNER"} ELSE {"OWNER", "ADMIN"})

inviteMember(r, s, u, v, role) ==
  /\ Allowed("invite", s, u) /\ v \in users
  /\ Begin(r, "invite", "verify", [req[r] EXCEPT !.by = u, !.org = s, !.target = v, !.role = role])

updateMemberRole(r, s, u, v, role) ==
  /\ Allowed("updateRole", s, u)
  /\ Begin(r, "updateRole", "verify", [req[r] EXCEPT !.by = u, !.org = s, !.target = v, !.role = role])

removeMember(r, s, u, v) ==
  /\ Allowed("remove", s, u)
  /\ Begin(r, "remove", "verify", [req[r] EXCEPT !.by = u, !.org = s, !.target = v])

(* Mutant of Verify: an owner may change the role of anyone.               *)
VerifyRoleOnly(r) ==
  LET q == req[r] IN
  /\ At(r, "verify")
  /\ Goto(r, IF ~Allowed(q.op, q.org, q.by) THEN "over"
             ELSE IF q.op = "updateRole" THEN "write" ELSE "look")
  /\ UNCHANGED <<rows, moved>>

(* verifyOwnerAccess and verifyAdminAccess read the role again; nobody     *)
(* changes or removes themselves.                                          *)
Verify(r) ==
  LET q == req[r] IN
  /\ At(r, "verify")
  /\ Goto(r, IF \/ ~Allowed(q.op, q.org, q.by)
                \/ q.op \in {"updateRole", "remove"} /\ q.target = q.by
             THEN "over" ELSE IF q.op = "updateRole" THEN "write" ELSE "look")
  /\ UNCHANGED <<rows, moved>>

(* The row of the other one: an invitation wants none, a removal none of   *)
(* an OWNER.                                                               *)
Look(r) ==
  LET q == req[r] IN
  /\ At(r, "look")
  /\ Goto(r, IF RoleOf(q.org, q.target) \in (IF q.op = "invite" THEN Role ELSE {"OWNER"}) THEN "over" ELSE "write")
  /\ UNCHANGED <<rows, moved>>

(* The insert is refused where there is a row, the update and the delete   *)
(* where there is none.                                                    *)
Write(r) ==
  LET q == req[r] IN
  /\ At(r, "write")
  /\ member' = IF (RoleOf(q.org, q.target) = "none") # (q.op = "invite") THEN member
               ELSE [member EXCEPT ![q.org][q.target] = IF q.op = "remove" THEN "none" ELSE q.role]
  /\ Goto(r, "over")
  /\ moved' = IF member' = member \/ q.op = "invite" THEN moved ELSE moved \cup {q.target}
  /\ UNCHANGED <<users, orgs, subscribed>>

Reject(r) ==
  /\ InProgress(r) /\ faults < MaxFaults /\ faults' = faults + 1
  /\ Goto(r, "over")
  /\ UNCHANGED <<rows, moved, overlapped>>

-----------------------------------------------------------------------------

Begins(r) ==
  \/ \E u \in User : register(r, u) \/ create(r, u)
  \/ \E s \in orgs, u, v \in User :
       \/ \E role \in Role : inviteMember(r, s, u, v, role) \/ updateMemberRole(r, s, u, v, role)
       \/ removeMember(r, s, u, v)

Continues(r) ==
  \/ CreateUser(r) \/ PickSlug(r) \/ CreateOrganization(r) \/ CreateOwner(r) \/ Subscribe(r)
  \/ Verify(r) \/ Look(r) \/ Write(r) \/ Reject(r)

Next == \E r \in Request : Begins(r) \/ Continues(r)

Spec == Init /\ [][Next]_vars

-----------------------------------------------------------------------------
(* Properties.                                                             *)

Quiet(s) == \A r \in Request : InProgress(r) => req[r].org # s

(* OrganizationsService: an organization keeps an OWNER, unless two role   *)
(* changes, or a role change and a removal, overlapped, or its creation    *)
(* was rejected half-way.                                                  *)
HasOwner ==
  faults = 0 /\ RoleRaces \cap overlapped = {} =>
    \A s \in orgs : Quiet(s) => \E u \in User : RoleOf(s, u) = "OWNER"

(* The type invariant, and an OWNER in every organization, with the        *)
(* exceptions of HasOwner.                                                 *)
MembershipInv == TypeOK /\ HasOwner

(* register: an account that is there has an organization to log in to,    *)
(* with a subscription, unless a call was rejected, two registrations      *)
(* asked for the same slug, or it was removed from its organization.       *)
AccountsHaveOrganization ==
  faults = 0 /\ SlugRaces \cap overlapped = {} =>
    \A u \in users \ Known :
      \/ \E s \in subscribed : RoleOf(s, u) = "OWNER"
      \/ \E r \in Request : req[r].by = u /\ req[r].op = "register" /\ InProgress(r)
      \/ u \in moved

-----------------------------------------------------------------------------
(* The inductive invariant.  Which operations are at which calls.          *)
CallsOfOps(q) ==
  /\ q.pc \in {"account", "plan"} => q.op = "register"
  /\ q.pc \in {"slug", "organization", "owner"} => q.op \in {"register", "create"}
  /\ q.pc \in {"verify", "write"} => q.op \in {"invite", "updateRole", "remove"}
  /\ q.pc = "look" => q.op \in {"invite", "remove"}

(* The rows a request works on are there; none is ever deleted but a       *)
(* member's.                                                               *)
RowsAreThere(q) ==
  /\ q.pc \in {"slug", "organization", "owner", "plan"} => q.by \in users
  /\ q.pc \in {"owner", "plan", "verify", "look", "write"} => q.org \in orgs
  /\ q.pc \in {"verify", "look", "write"} /\ q.op = "invite" => q.target \in users

(* An organization without its owner yet is nobody else's business.        *)
NobodyYet(r) ==
  req[r].pc = "owner" =>
    /\ \A u \in User : RoleOf(req[r].org, u) = "none"
    /\ \A q \in Request \ {r} :
         req[q].org = req[r].org => req[q].pc \notin {"owner", "verify", "look", "write"}

OverlapsAreSeen ==
  \A r, q \in Request : r # q /\ InProgress(r) /\ InProgress(q) =>
    ({{req[r].op, req[q].op}} \cap Conflicts) \subseteq overlapped

(* An OWNER of whom no removal decided before.                             *)
Secure(s, u) ==
  /\ RoleOf(s, u) = "OWNER"
  /\ \A r \in Request :
       req[r].pc = "write" /\ req[r].op = "remove" /\ req[r].org = s => req[r].target # u

OwnersAreSecure ==
  faults = 0 /\ RoleRaces \cap overlapped = {} =>
    /\ \A s \in orgs :
         \/ \E r \in Request : req[r].pc = "owner" /\ req[r].org = s
         \/ \E u \in User : Secure(s, u)
    /\ \A r \in Request : req[r].pc = "write" /\ req[r].op = "updateRole" =>
         RoleOf(req[r].org, req[r].by) = "OWNER" /\ req[r].target # req[r].by

(* A registration finds free what it was to find free.                     *)
RegistrationsSucceed ==
  faults = 0 /\ SlugRaces \cap overlapped = {} =>
    \A r \in Request : req[r].op = "register" =>
      /\ req[r].pc = "account" => req[r].by \notin users
      /\ req[r].pc = "organization" => req[r].org \notin orgs
      /\ req[r].pc = "plan" => RoleOf(req[r].org, req[r].by) = "OWNER" \/ req[r].by \in moved

IInv ==
  /\ TypeOK /\ OverlapsAreSeen /\ OwnersAreSecure /\ RegistrationsSucceed /\ AccountsHaveOrganization
  /\ \A r \in Request : CallsOfOps(req[r]) /\ RowsAreThere(req[r]) /\ NobodyYet(r)
=============================================================================
