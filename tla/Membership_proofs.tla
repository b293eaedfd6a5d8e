-------------------------- MODULE Membership_proofs --------------------------
(***************************************************************************)
(* Proofs about Membership: when an organization keeps an OWNER, and when  *)
(* an account has an organization to log in to, for any number of users,   *)
(* organizations and overlapping requests.                                 *)
(***************************************************************************)
EXTENDS Membership, TLAPS

-----------------------------------------------------------------------------
(* A step of one request.                                                  *)

LEMMA IdleIsTyped == Idle \in RequestState /\ Idle.pc = "idle" /\ Idle.op = "none"
<1>1. (CHOOSE v \in User : TRUE) \in User
  BY KnownAssumption
<1>2. 1 \in Slug
  BY SlugsAssumption DEF Slug
<1>3. QED
  BY <1>1, <1>2, RoleAssumption DEF Idle, RequestState, Op, Label

LEMMA Stepped ==
  ASSUME TypeOK, NEW r \in Request, NEW new \in RequestState, Step(r, new)
  PROVE  /\ req' \in [Request -> RequestState]
         /\ req'[r] = new
         /\ \A q \in Request \ {r} : req'[q] = req[q]
  BY DEF TypeOK, Step

(* A request goes on to its next call, or ends.                            *)
LEMMA Moved ==
  ASSUME TypeOK, NEW r \in Request, NEW label \in Label, Goto(r, label)
  PROVE  /\ req' \in [Request -> RequestState]
         /\ req'[r].pc = label
         /\ label # "over" => /\ req'[r].op = req[r].op /\ req'[r].by = req[r].by /\ req'[r].org = req[r].org
                              /\ req'[r].target = req[r].target
         /\ \A q \in Request \ {r} : req'[q] = req[q]
<1>1. CASE label = "over"
  <2> DEFINE new == [Idle EXCEPT !.pc = "over"]
  <2>1. new \in RequestState /\ new.pc = "over"
    BY IdleIsTyped DEF RequestState, Label
  <2>2. Step(r, new)
    BY <1>1 DEF Goto
  <2> HIDE DEF new
  <2>3. QED
    BY <1>1, <2>1, <2>2, Stepped
<1>2. CASE label # "over"
  <2> DEFINE new == [req[r] EXCEPT !.pc = label]
  <2>1. /\ new \in RequestState /\ new.pc = label /\ new.op = req[r].op /\ new.by = req[r].by
        /\ new.org = req[r].org /\ new.target = req[r].target
    BY DEF TypeOK, RequestState
  <2>2. Step(r, new)
    BY <1>2 DEF Goto
  <2> HIDE DEF new
  <2>3. QED
    BY <1>2, <2>1, <2>2, Stepped
<1>3. QED
  BY <1>1, <1>2

(* Two requests whose operations conflict are in progress only if the      *)
(* history says so.                                                        *)
LEMMA Races ==
  ASSUME IInv, NEW r \in Request, NEW q \in Request, r # q, InProgress(r), InProgress(q)
  PROVE  /\ RoleRaces \cap overlapped = {} /\ req[r].op = "updateRole" =>
              req[q].op \notin {"updateRole", "remove"}
         /\ SlugRaces \cap overlapped = {} /\ req[r].op = "register" =>
              req[q].op \notin {"register", "create"}
<1>1. ({{req[r].op, req[q].op}} \cap Conflicts) \subseteq overlapped
  BY DEF IInv, OverlapsAreSeen
<1>2. {req[r].op, req[q].op} \in RoleRaces => {req[r].op, req[q].op} \in overlapped
  BY <1>1 DEF Conflicts
<1>3. {req[r].op, req[q].op} \in SlugRaces => {req[r].op, req[q].op} \in overlapped
  BY <1>1 DEF Conflicts
<1>4. req[r].op = "updateRole" /\ req[q].op \in {"updateRole", "remove"} => {req[r].op, req[q].op} \in RoleRaces
  BY DEF RoleRaces
<1>5. req[r].op = "register" /\ req[q].op \in {"register", "create"} => {req[r].op, req[q].op} \in SlugRaces
  BY DEF SlugRaces
<1>6. QED
  BY <1>2, <1>3, <1>4, <1>5

(* A request that goes on adds no overlap.                                 *)
LEMMA SeenBefore ==
  ASSUME IInv, NEW r \in Request, InProgress(r), overlapped' = overlapped,
         req'[r].pc \in {"idle", "over"} \/ req'[r].op = req[r].op,
         \A q \in Request \ {r} : req'[q] = req[q]
  PROVE  OverlapsAreSeen'
<1> SUFFICES ASSUME NEW p \in Request, NEW q \in Request, p # q, InProgress(p)', InProgress(q)'
             PROVE  ({{req'[p].op, req'[q].op}} \cap Conflicts) \subseteq overlapped
  BY DEF OverlapsAreSeen, Conflicts, SlugRaces, RoleRaces
<1>1. InProgress(p) /\ InProgress(q) /\ req'[p].op = req[p].op /\ req'[q].op = req[q].op
  BY DEF InProgress
<1>2. QED
  BY <1>1 DEF IInv, OverlapsAreSeen

-----------------------------------------------------------------------------
(* Steps that write no row.                                                *)

LEMMA RowsKept ==
  ASSUME IInv, NEW r \in Request, req' \in [Request -> RequestState], \A q \in Request \ {r} : req'[q] = req[q],
         UNCHANGED <<rows, faults, moved>>, overlapped \subseteq overlapped', overlapped' \subseteq Conflicts,
         OverlapsAreSeen', CallsOfOps(req[r])', RowsAreThere(req[r])',
         req[r].pc # "owner", req'[r].pc \notin {"owner", "plan"},
         req'[r].pc \in {"verify", "look", "write"} =>
           \/ req[r].pc \in {"verify", "look"} /\ req'[r].org = req[r].org
           \/ \E u \in User : RoleOf(req'[r].org, u) # "none",
         req'[r].pc = "write" /\ req'[r].op = "remove" => RoleOf(req'[r].org, req'[r].target) # "OWNER",
         req'[r].pc = "write" /\ req'[r].op = "updateRole" =>
           RoleOf(req'[r].org, req'[r].by) = "OWNER" /\ req'[r].target # req'[r].by,
         req'[r].op = "register" => /\ req'[r].pc = "account" => req'[r].by \notin users
                                    /\ req'[r].pc = "organization" => req'[r].org \notin orgs,
         req[r].op = "register" /\ InProgress(r) =>
           req'[r].op = "register" /\ InProgress(r)' /\ req'[r].by = req[r].by
  PROVE  IInv'
<1>1. users' = users /\ orgs' = orgs /\ member' = member /\ subscribed' = subscribed /\ faults' = faults /\ moved' = moved
  BY DEF rows
<1>2. \A q \in Request : q # r => req'[q] = req[q]
  OBVIOUS
<1>3. TypeOK'
  BY <1>1 DEF IInv, TypeOK
<1>4. ASSUME NEW q \in Request PROVE CallsOfOps(req[q])' /\ RowsAreThere(req[q])' /\ NobodyYet(q)'
  <2>1. CallsOfOps(req[q])' /\ RowsAreThere(req[q])'
    BY <1>1, <1>2 DEF IInv, RowsAreThere, CallsOfOps
  <2>2. NobodyYet(q)'
    <3> SUFFICES ASSUME req'[q].pc = "owner"
                 PROVE  /\ \A u \in User : member[req'[q].org][u] = "none"
                        /\ \A p \in Request \ {q} :
                             req'[p].org = req'[q].org => req'[p].pc \notin {"owner", "verify", "look", "write"}
      BY <1>1 DEF NobodyYet, RoleOf
    <3>1. q # r /\ req'[q] = req[q] /\ NobodyYet(q)
      BY <1>2 DEF IInv
    <3>2. \A u \in User : member[req'[q].org][u] = "none"
      BY <3>1 DEF NobodyYet, RoleOf
    <3>3. ASSUME NEW p \in Request \ {q}, req'[p].org = req'[q].org
          PROVE  req'[p].pc \notin {"owner", "verify", "look", "write"}
      <4>1. CASE p # r
        BY <1>2, <3>1, <3>3, <4>1 DEF NobodyYet
      <4>2. CASE p = r
        BY <3>1, <3>2, <3>3, <4>2 DEF NobodyYet, RoleOf
      <4>3. QED
        BY <4>1, <4>2
    <3>4. QED
      BY <3>2, <3>3
  <2>3. QED
    BY <2>1, <2>2
<1>5. OwnersAreSecure'
  <2> SUFFICES ASSUME faults = 0, RoleRaces \cap overlapped = {}
               PROVE  /\ \A s \in orgs :
                           \/ \E q \in Request : req'[q].pc = "owner" /\ req'[q].org = s
                           \/ \E u \in User : Secure(s, u)'
                      /\ \A q \in Request : req'[q].pc = "write" /\ req'[q].op = "updateRole" =>
                           RoleOf(req'[q].org, req'[q].by) = "OWNER" /\ req'[q].target # req'[q].by
    BY <1>1 DEF OwnersAreSecure, RoleOf
  <2>1. \A s \in Slug, u \in User : Secure(s, u) => Secure(s, u)'
    BY <1>1, <1>2 DEF Secure, RoleOf
  <2>2. \A s \in orgs : s \in Slug
    BY DEF IInv, TypeOK
  <2>3. \A s \in orgs : (\E q \in Request : req[q].pc = "owner" /\ req[q].org = s) \/ \E u \in User : Secure(s, u)
    BY DEF IInv, OwnersAreSecure
  <2>4. \A q \in Request : req'[q].pc = "write" /\ req'[q].op = "updateRole" =>
                           RoleOf(req'[q].org, req'[q].by) = "OWNER" /\ req'[q].target # req'[q].by
    BY <1>2 DEF IInv, OwnersAreSecure
  <2>5. QED
    BY <1>2, <2>1, <2>2, <2>3, <2>4
<1>6. RegistrationsSucceed'
  BY <1>1, <1>2 DEF IInv, RegistrationsSucceed, RoleOf
<1>7. AccountsHaveOrganization'
  BY <1>1, <1>2 DEF IInv, AccountsHaveOrganization, RoleOf, InProgress
<1>8. QED
  BY <1>3, <1>4, <1>5, <1>6, <1>7 DEF IInv

(* A request that begins sees the overlap it makes.                        *)
LEMMA Begun ==
  ASSUME IInv, NEW r \in Request, NEW op \in Op, NEW label \in Label, NEW fields \in RequestState,
         Begin(r, op, label, fields)
  PROVE  /\ req' \in [Request -> RequestState] /\ \A q \in Request \ {r} : req'[q] = req[q]
         /\ req'[r].op = op /\ req'[r].pc = label /\ req'[r].by = fields.by /\ req'[r].org = fields.org
         /\ req'[r].target = fields.target
         /\ overlapped \subseteq overlapped' /\ overlapped' \subseteq Conflicts /\ OverlapsAreSeen'
         /\ UNCHANGED <<rows, faults, moved>> /\ req[r].pc = "idle"
<1> DEFINE new == [fields EXCEPT !.op = op, !.pc = label]
<1>1. /\ new \in RequestState /\ new.op = op /\ new.pc = label /\ new.by = fields.by /\ new.org = fields.org
      /\ new.target = fields.target
  BY DEF RequestState
<1>2. /\ req[r].pc = "idle" /\ Step(r, new) /\ UNCHANGED <<rows, faults, moved>>
      /\ overlapped' = overlapped \cup ({{op, req[q].op} : q \in {p \in Request : InProgress(p)}} \cap Conflicts)
  BY DEF Begin
<1> HIDE DEF new
<1>3. /\ req' \in [Request -> RequestState] /\ req'[r] = new /\ \A q \in Request \ {r} : req'[q] = req[q]
  BY <1>1, <1>2, Stepped DEF IInv
<1>4. overlapped \subseteq overlapped' /\ overlapped' \subseteq Conflicts
  BY <1>2 DEF IInv, TypeOK
<1>5. ASSUME NEW q \in Request, q # r, InProgress(q) PROVE ({{op, req[q].op}} \cap Conflicts) \subseteq overlapped'
  BY <1>2, <1>5
<1>6. OverlapsAreSeen'
  <2> SUFFICES ASSUME NEW p \in Request, NEW q \in Request, p # q, InProgress(p)', InProgress(q)'
               PROVE  ({{req'[p].op, req'[q].op}} \cap Conflicts) \subseteq overlapped'
    BY DEF OverlapsAreSeen, Conflicts, SlugRaces, RoleRaces
  <2>1. CASE p # r /\ q # r
    BY <1>3, <1>4, <2>1 DEF IInv, OverlapsAreSeen, InProgress
  <2>2. CASE p = r
    BY <1>1, <1>3, <1>5, <2>2 DEF InProgress
  <2>3. CASE q = r
    <3>1. {req'[p].op, req'[q].op} = {op, req[p].op}
      BY <1>1, <1>3, <2>3
    <3>2. QED
      BY <1>3, <1>5, <2>3, <3>1 DEF InProgress
  <2>4. QED
    BY <2>1, <2>2, <2>3
<1>7. QED
  BY <1>1, <1>2, <1>3, <1>4, <1>6

LEMMA BeginsKeep ==
  ASSUME IInv, NEW r \in Request, Begins(r)
  PROVE  IInv'
<1>1. req[r] \in RequestState /\ orgs \subseteq Slug
  BY DEF IInv, TypeOK
<1>2. ASSUME NEW u \in User, NEW op \in {"register", "create"}, NEW label \in {"account", "slug"},
             op = "register" => label = "account" /\ u \notin users,
             op = "create" => label = "slug" /\ u \in users,
             Begin(r, op, label, [req[r] EXCEPT !.by = u])
      PROVE  IInv'
  <2> DEFINE fields == [req[r] EXCEPT !.by = u]
  <2>1. fields \in RequestState /\ fields.by = u
    BY <1>1 DEF RequestState
  <2>2. op \in Op /\ label \in Label /\ Begin(r, op, label, fields)
    BY <1>2 DEF Op, Label
  <2> HIDE DEF fields
  <2>3. /\ req' \in [Request -> RequestState] /\ \A q \in Request \ {r} : req'[q] = req[q]
        /\ req'[r].op = op /\ req'[r].pc = label /\ req'[r].by = u
        /\ overlapped \subseteq overlapped' /\ overlapped' \subseteq Conflicts /\ OverlapsAreSeen'
        /\ UNCHANGED <<rows, faults, moved>> /\ req[r].pc = "idle"
    BY <2>1, <2>2, Begun
  <2>4. CallsOfOps(req[r])' /\ RowsAreThere(req[r])'
    BY <1>2, <2>3 DEF CallsOfOps, RowsAreThere, rows
  <2>5. ~InProgress(r)
    BY <2>3 DEF InProgress
  <2>6. req'[r].pc \notin {"verify", "look", "write", "organization", "owner", "plan"}
    BY <2>3
  <2>7. req'[r].op = "register" /\ req'[r].pc = "account" => req'[r].by \notin users
    BY <1>2, <2>3
  <2>8. QED
    BY <2>3, <2>4, <2>5, <2>6, <2>7, RowsKept
<1>3. ASSUME NEW s \in orgs, NEW u \in User, NEW v \in User, NEW op \in {"invite", "updateRole", "remove"},
             NEW fields \in RequestState, fields.by = u, fields.org = s, fields.target = v,
             Allowed(op, s, u), op = "invite" => v \in users, Begin(r, op, "verify", fields)
      PROVE  IInv'
  <2>1. op \in Op /\ "verify" \in Label
    BY <1>3 DEF Op, Label
  <2>2. /\ req' \in [Request -> RequestState] /\ \A q \in Request \ {r} : req'[q] = req[q]
        /\ req'[r].op = op /\ req'[r].pc = "verify" /\ req'[r].by = u /\ req'[r].org = s /\ req'[r].target = v
        /\ overlapped \subseteq overlapped' /\ overlapped' \subseteq Conflicts /\ OverlapsAreSeen'
        /\ UNCHANGED <<rows, faults, moved>> /\ req[r].pc = "idle"
    BY <1>3, <2>1, Begun
  <2>3. CallsOfOps(req[r])' /\ RowsAreThere(req[r])'
    BY <1>3, <2>2 DEF CallsOfOps, RowsAreThere, rows
  <2>4. ~InProgress(r)
    BY <2>2 DEF InProgress
  <2>5. RoleOf(req'[r].org, u) # "none"
    BY <1>3, <2>2 DEF Allowed
  <2>6. QED
    BY <1>3, <2>2, <2>3, <2>4, <2>5, RowsKept
<1>4. ASSUME NEW u \in User, register(r, u) \/ create(r, u) PROVE IInv'
  BY <1>2, <1>4 DEF register, create
<1>5. ASSUME NEW s \in orgs, NEW u \in User, NEW v \in User, NEW role \in Role,
             inviteMember(r, s, u, v, role) \/ updateMemberRole(r, s, u, v, role) \/ removeMember(r, s, u, v)
      PROVE  IInv'
  <2>1. s \in Slug
    BY <1>1, <1>5
  <2> DEFINE given == [req[r] EXCEPT !.by = u, !.org = s, !.target = v, !.role = role]
             named == [req[r] EXCEPT !.by = u, !.org = s, !.target = v]
  <2>2. /\ given \in RequestState /\ given.by = u /\ given.org = s /\ given.target = v
        /\ named \in RequestState /\ named.by = u /\ named.org = s /\ named.target = v
    BY <1>1, <2>1 DEF RequestState
  <2>3. CASE inviteMember(r, s, u, v, role)
    <3>1. Allowed("invite", s, u) /\ v \in users /\ Begin(r, "invite", "verify", given)
      BY <2>3 DEF inviteMember
    <3> HIDE DEF given
    <3>2. QED
      BY <1>3, <2>2, <3>1
  <2>4. CASE updateMemberRole(r, s, u, v, role)
    <3>1. Allowed("updateRole", s, u) /\ Begin(r, "updateRole", "verify", given)
      BY <2>4 DEF updateMemberRole
    <3> HIDE DEF given
    <3>2. QED
      BY <1>3, <2>2, <3>1
  <2>5. CASE removeMember(r, s, u, v)
    <3>1. Allowed("remove", s, u) /\ Begin(r, "remove", "verify", named)
      BY <2>5 DEF removeMember
    <3> HIDE DEF named
    <3>2. QED
      BY <1>3, <2>2, <3>1
  <2>6. QED
    BY <1>5, <2>3, <2>4, <2>5
<1>6. \E role \in Role : TRUE
  BY RoleAssumption
<1>7. QED
  BY <1>4, <1>5, <1>6 DEF Begins

LEMMA PickSlugKeeps ==
  ASSUME IInv, NEW r \in Request, PickSlug(r)
  PROVE  IInv'
<1>1. req[r] \in RequestState /\ CallsOfOps(req[r]) /\ RowsAreThere(req[r])
  BY DEF IInv, TypeOK
<1>2. PICK s \in Slug \ orgs : Step(r, [req[r] EXCEPT !.pc = "organization", !.org = s])
  BY DEF PickSlug
<1>3. req[r].pc = "slug" /\ UNCHANGED <<rows, faults, moved, overlapped>>
  BY DEF PickSlug, At
<1> DEFINE new == [req[r] EXCEPT !.pc = "organization", !.org = s]
<1>4. new \in RequestState /\ new.pc = "organization" /\ new.org = s /\ new.op = req[r].op /\ new.by = req[r].by
  BY <1>1, <1>2 DEF RequestState, Label
<1>5. Step(r, new)
  BY <1>2
<1> HIDE DEF new
<1>6. /\ req' \in [Request -> RequestState] /\ req'[r] = new /\ \A q \in Request \ {r} : req'[q] = req[q]
  BY <1>4, <1>5, Stepped DEF IInv
<1>7. CallsOfOps(req[r])' /\ RowsAreThere(req[r])'
  BY <1>1, <1>3, <1>4, <1>6 DEF CallsOfOps, RowsAreThere, rows
<1>8. InProgress(r) /\ InProgress(r)'
  BY <1>3, <1>4, <1>6 DEF InProgress
<1>9. OverlapsAreSeen'
  BY <1>3, <1>4, <1>6, <1>8, SeenBefore
<1>10. overlapped \subseteq overlapped' /\ overlapped' \subseteq Conflicts
  BY <1>3 DEF IInv, TypeOK
<1>11. QED
  BY <1>2, <1>3, <1>4, <1>6, <1>7, <1>8, <1>9, <1>10, RowsKept

LEMMA VerifyKeeps ==
  ASSUME IInv, NEW r \in Request, Verify(r)
  PROVE  IInv'
<1>1. req[r] \in RequestState /\ CallsOfOps(req[r]) /\ RowsAreThere(req[r])
  BY DEF IInv, TypeOK
<1>2. req[r].pc = "verify" /\ UNCHANGED <<rows, faults, moved, overlapped>>
  BY DEF Verify, At
<1>3. PICK label \in {"over", "write", "look"} :
        /\ Goto(r, label)
        /\ label = "write" => /\ req[r].op = "updateRole" /\ Allowed(req[r].op, req[r].org, req[r].by)
                              /\ req[r].target # req[r].by
        /\ label = "look" => req[r].op # "updateRole"
  BY DEF Verify
<1>4. label \in Label
  BY <1>3 DEF Label
<1>5. /\ req' \in [Request -> RequestState] /\ req'[r].pc = label
      /\ label # "over" => /\ req'[r].op = req[r].op /\ req'[r].by = req[r].by /\ req'[r].org = req[r].org
                           /\ req'[r].target = req[r].target
      /\ \A q \in Request \ {r} : req'[q] = req[q]
  BY <1>3, <1>4, Moved DEF IInv
<1>6. CallsOfOps(req[r])' /\ RowsAreThere(req[r])'
  BY <1>1, <1>2, <1>3, <1>5 DEF CallsOfOps, RowsAreThere, rows
<1>7. InProgress(r) /\ req[r].op # "register"
  BY <1>1, <1>2 DEF InProgress, CallsOfOps
<1>8. OverlapsAreSeen'
  BY <1>2, <1>3, <1>5, <1>7, SeenBefore
<1>9. overlapped \subseteq overlapped' /\ overlapped' \subseteq Conflicts
  BY <1>2 DEF IInv, TypeOK
<1>10. req'[r].pc = "write" => req'[r].op = "updateRole" /\ RoleOf(req'[r].org, req'[r].by) = "OWNER" /\ req'[r].target # req'[r].by
  BY <1>3, <1>5 DEF Allowed
<1>11. QED
  BY <1>2, <1>3, <1>5, <1>6, <1>7, <1>8, <1>9, <1>10, RowsKept

LEMMA LookKeeps ==
  ASSUME IInv, NEW r \in Request, Look(r)
  PROVE  IInv'
<1>1. req[r] \in RequestState /\ CallsOfOps(req[r]) /\ RowsAreThere(req[r])
  BY DEF IInv, TypeOK
<1>2. req[r].pc = "look" /\ UNCHANGED <<rows, faults, moved, overlapped>>
  BY DEF Look, At
<1>3. req[r].op \in {"invite", "remove"}
  BY <1>1, <1>2 DEF CallsOfOps
<1>4. PICK label \in {"over", "write"} :
        /\ Goto(r, label)
        /\ label = "write" /\ req[r].op = "remove" => RoleOf(req[r].org, req[r].target) # "OWNER"
  BY <1>3 DEF Look
<1>5. label \in Label
  BY <1>4 DEF Label
<1>6. /\ req' \in [Request -> RequestState] /\ req'[r].pc = label
      /\ label # "over" => /\ req'[r].op = req[r].op /\ req'[r].by = req[r].by /\ req'[r].org = req[r].org
                           /\ req'[r].target = req[r].target
      /\ \A q \in Request \ {r} : req'[q] = req[q]
  BY <1>4, <1>5, Moved DEF IInv
<1>7. CallsOfOps(req[r])' /\ RowsAreThere(req[r])'
  BY <1>1, <1>2, <1>3, <1>4, <1>6 DEF CallsOfOps, RowsAreThere, rows
<1>8. InProgress(r)
  BY <1>2 DEF InProgress
<1>9. OverlapsAreSeen'
  BY <1>2, <1>4, <1>6, <1>8, SeenBefore
<1>10. overlapped \subseteq overlapped' /\ overlapped' \subseteq Conflicts
  BY <1>2 DEF IInv, TypeOK
<1>11. QED
  BY <1>2, <1>3, <1>4, <1>6, <1>7, <1>8, <1>9, <1>10, RowsKept

-----------------------------------------------------------------------------
(* Steps that write rows.                                                  *)

(* What such a step has still to show.                                     *)
LEMMA Written ==
  ASSUME IInv, NEW r \in Request, NEW label \in Label, Goto(r, label), InProgress(r), overlapped' = overlapped,
         users \subseteq users', orgs \subseteq orgs', TypeOK', CallsOfOps(req[r])', RowsAreThere(req[r])',
         \A q \in Request : NobodyYet(q)',
         OwnersAreSecure', RegistrationsSucceed', AccountsHaveOrganization'
  PROVE  IInv'
<1>1. req'[r].pc = label /\ (label # "over" => req'[r].op = req[r].op) /\ \A q \in Request \ {r} : req'[q] = req[q]
  BY Moved DEF IInv
<1>2. OverlapsAreSeen'
  BY <1>1, SeenBefore
<1>3. ASSUME NEW q \in Request PROVE CallsOfOps(req[q])' /\ RowsAreThere(req[q])'
  BY <1>1 DEF IInv, CallsOfOps, RowsAreThere
<1>4. QED
  BY <1>2, <1>3 DEF IInv

LEMMA CreateUserKeeps ==
  ASSUME IInv, NEW r \in Request, CreateUser(r)
  PROVE  IInv'
<1>1. /\ req[r].pc = "account" /\ users' = users \cup {req[r].by}
      /\ UNCHANGED <<orgs, member, subscribed, moved, faults, overlapped>>
  BY DEF CreateUser, At
<1>2. PICK label \in {"over", "slug"} : Goto(r, label) /\ (req[r].by \notin users => label = "slug")
  BY DEF CreateUser
<1>3. label \in Label
  BY <1>2 DEF Label
<1>4. /\ req' \in [Request -> RequestState] /\ req'[r].pc = label
      /\ label # "over" => req'[r].op = req[r].op /\ req'[r].by = req[r].by /\ req'[r].org = req[r].org
      /\ \A q \in Request \ {r} : req'[q] = req[q]
  BY <1>2, <1>3, Moved DEF IInv
<1>5. req[r].by \in User /\ req[r].op = "register" /\ InProgress(r)
  BY <1>1 DEF IInv, TypeOK, RequestState, CallsOfOps, InProgress
<1>6. TypeOK'
  BY <1>1, <1>4, <1>5 DEF IInv, TypeOK
<1>7. CallsOfOps(req[r])' /\ RowsAreThere(req[r])'
  BY <1>1, <1>2, <1>4, <1>5 DEF CallsOfOps, RowsAreThere
<1>8. \A q \in Request : NobodyYet(q)'
  BY <1>1, <1>2, <1>4 DEF IInv, NobodyYet, RoleOf
<1>9. OwnersAreSecure'
  BY <1>1, <1>2, <1>4 DEF IInv, OwnersAreSecure, Secure, RoleOf
<1>10. RegistrationsSucceed'
  <2> SUFFICES ASSUME faults = 0, SlugRaces \cap overlapped = {}, NEW q \in Request, req'[q].op = "register"
               PROVE  /\ req'[q].pc = "account" => req'[q].by \notin users'
                      /\ req'[q].pc = "organization" => req'[q].org \notin orgs
                      /\ req'[q].pc = "plan" => member[req'[q].org][req'[q].by] = "OWNER" \/ req'[q].by \in moved
    BY <1>1 DEF RegistrationsSucceed, RoleOf
  <2>1. CASE q = r
    BY <1>2, <1>4, <2>1
  <2>2. CASE q # r
    <3>1. req'[q] = req[q]
      BY <1>4, <2>2
    <3>2. ~InProgress(q)
      BY <1>5, <2>2, <3>1, Races
    <3>3. QED
      BY <3>1, <3>2 DEF InProgress
  <2>3. QED
    BY <2>1, <2>2
<1>11. AccountsHaveOrganization'
  <2> SUFFICES ASSUME faults = 0, SlugRaces \cap overlapped = {}, NEW u \in users' \ Known
               PROVE  \/ \E s \in subscribed : member[s][u] = "OWNER"
                      \/ \E q \in Request : req'[q].by = u /\ req'[q].op = "register" /\ InProgress(q)'
                      \/ u \in moved
    BY <1>1 DEF AccountsHaveOrganization, RoleOf
  <2>1. req'[r].by = req[r].by /\ req'[r].op = "register" /\ InProgress(r)'
    BY <1>1, <1>2, <1>4, <1>5 DEF IInv, RegistrationsSucceed, InProgress
  <2>2. CASE u = req[r].by
    BY <2>1, <2>2
  <2>3. CASE u \in users
    BY <1>4, <2>1, <2>3 DEF IInv, AccountsHaveOrganization, RoleOf, InProgress
  <2>4. QED
    BY <1>1, <2>2, <2>3
<1>12. QED
  BY <1>1, <1>2, <1>3, <1>5, <1>6, <1>7, <1>8, <1>9, <1>10, <1>11, Written

LEMMA CreateOrganizationKeeps ==
  ASSUME IInv, NEW r \in Request, CreateOrganization(r)
  PROVE  IInv'
<1>1. /\ req[r].pc = "organization" /\ orgs' = orgs \cup {req[r].org}
      /\ UNCHANGED <<users, member, subscribed, moved, faults, overlapped>>
  BY DEF CreateOrganization, At
<1>2. PICK label \in {"over", "owner"} :
        Goto(r, label) /\ (req[r].org \notin orgs <=> label = "owner")
  BY DEF CreateOrganization
<1>3. label \in Label
  BY <1>2 DEF Label
<1>4. /\ req' \in [Request -> RequestState] /\ req'[r].pc = label
      /\ label # "over" => req'[r].op = req[r].op /\ req'[r].by = req[r].by /\ req'[r].org = req[r].org
      /\ \A q \in Request \ {r} : req'[q] = req[q]
  BY <1>2, <1>3, Moved DEF IInv
<1>5. /\ req[r].by \in users /\ req[r].org \in Slug /\ req[r].op \in {"register", "create"}
      /\ InProgress(r)
  BY <1>1 DEF IInv, TypeOK, RequestState, CallsOfOps, RowsAreThere, InProgress
<1>6. TypeOK'
  BY <1>1, <1>4, <1>5 DEF IInv, TypeOK
<1>7. CallsOfOps(req[r])' /\ RowsAreThere(req[r])'
  BY <1>1, <1>2, <1>4, <1>5 DEF CallsOfOps, RowsAreThere
<1>8. ASSUME NEW q \in Request PROVE NobodyYet(q)'
  <2> SUFFICES ASSUME req'[q].pc = "owner"
               PROVE  /\ \A u \in User : member[req'[q].org][u] = "none"
                      /\ \A p \in Request \ {q} :
                           req'[p].org = req'[q].org => req'[p].pc \notin {"owner", "verify", "look", "write"}
    BY <1>1 DEF NobodyYet, RoleOf
  <2>1. CASE q = r
    <3>1. req[r].org \notin orgs /\ req'[r].org = req[r].org
      BY <1>2, <1>4, <2>1
    <3>2. \A p \in Request : req[p].pc \in {"owner", "verify", "look", "write"} => req[p].org \in orgs
      BY DEF IInv, RowsAreThere
    <3>3. QED
      BY <1>4, <1>5, <2>1, <3>1, <3>2 DEF IInv, TypeOK
  <2>2. CASE q # r
    <3>1. req'[q] = req[q] /\ NobodyYet(q) /\ req[q].org \in orgs
      BY <1>4, <2>2 DEF IInv, RowsAreThere
    <3>2. QED
      BY <1>2, <1>4, <3>1 DEF NobodyYet, RoleOf
  <2>3. QED
    BY <2>1, <2>2
<1>9. OwnersAreSecure'
  <2> SUFFICES ASSUME faults = 0, RoleRaces \cap overlapped = {}
               PROVE  /\ \A s \in orgs' :
                           \/ \E q \in Request : req'[q].pc = "owner" /\ req'[q].org = s
                           \/ \E u \in User : Secure(s, u)'
                      /\ \A q \in Request : req'[q].pc = "write" /\ req'[q].op = "updateRole" =>
                           member[req'[q].org][req'[q].by] = "OWNER" /\ req'[q].target # req'[q].by
    BY <1>1 DEF OwnersAreSecure, RoleOf
  <2>1. \A s \in Slug, u \in User : Secure(s, u) => Secure(s, u)'
    BY <1>1, <1>2, <1>4 DEF Secure, RoleOf
  <2>2. \A s \in orgs : s \in Slug
    BY DEF IInv, TypeOK
  <2>3. \A s \in orgs : (\E q \in Request : req[q].pc = "owner" /\ req[q].org = s) \/ \E u \in User : Secure(s, u)
    BY DEF IInv, OwnersAreSecure
  <2>4. \A q \in Request : req[q].pc = "owner" => q # r /\ req'[q] = req[q]
    BY <1>1, <1>4
  <2>5. req[r].org \notin orgs => req'[r].pc = "owner" /\ req'[r].org = req[r].org
    BY <1>2, <1>4
  <2>6. \A q \in Request : req'[q].pc = "write" /\ req'[q].op = "updateRole" =>
                           member[req'[q].org][req'[q].by] = "OWNER" /\ req'[q].target # req'[q].by
    BY <1>2, <1>4 DEF IInv, OwnersAreSecure, RoleOf
  <2>7. QED
    BY <1>1, <2>1, <2>2, <2>3, <2>4, <2>5, <2>6
<1>10. RegistrationsSucceed'
  <2> SUFFICES ASSUME faults = 0, SlugRaces \cap overlapped = {}, NEW q \in Request, req'[q].op = "register"
               PROVE  /\ req'[q].pc = "account" => req'[q].by \notin users
                      /\ req'[q].pc = "organization" => req'[q].org \notin orgs'
                      /\ req'[q].pc = "plan" => member[req'[q].org][req'[q].by] = "OWNER" \/ req'[q].by \in moved
    BY <1>1 DEF RegistrationsSucceed, RoleOf
  <2>1. CASE q = r
    BY <1>2, <1>4, <2>1
  <2>2. CASE q # r
    <3>1. req'[q] = req[q]
      BY <1>4, <2>2
    <3>2. ~InProgress(q)
      BY <1>5, <2>2, <3>1, Races
    <3>3. QED
      BY <3>1, <3>2 DEF InProgress
  <2>3. QED
    BY <2>1, <2>2
<1>11. AccountsHaveOrganization'
  <2> SUFFICES ASSUME faults = 0, SlugRaces \cap overlapped = {}, NEW u \in users \ Known
               PROVE  \/ \E s \in subscribed : member[s][u] = "OWNER"
                      \/ \E q \in Request : req'[q].by = u /\ req'[q].op = "register" /\ InProgress(q)'
                      \/ u \in moved
    BY <1>1 DEF AccountsHaveOrganization, RoleOf
  <2>1. req[r].op = "register" => req'[r].by = req[r].by /\ req'[r].op = "register" /\ InProgress(r)'
    BY <1>1, <1>2, <1>4, <1>5 DEF IInv, RegistrationsSucceed, InProgress
  <2>2. QED
    BY <1>4, <2>1 DEF IInv, AccountsHaveOrganization, RoleOf, InProgress
<1>12. QED
  BY <1>1, <1>2, <1>3, <1>5, <1>6, <1>7, <1>8, <1>9, <1>10, <1>11, Written

LEMMA CreateOwnerKeeps ==
  ASSUME IInv, NEW r \in Request, CreateOwner(r)
  PROVE  IInv'
<1>1. /\ req[r].pc = "owner" /\ member' = [member EXCEPT ![req[r].org][req[r].by] = "OWNER"]
      /\ UNCHANGED <<users, orgs, subscribed, moved, faults, overlapped>>
  BY DEF CreateOwner, At
<1>2. PICK label \in {"over", "plan"} : Goto(r, label) /\ (req[r].op = "register" <=> label = "plan")
  BY DEF CreateOwner
<1>3. label \in Label
  BY <1>2 DEF Label
<1>4. /\ req' \in [Request -> RequestState] /\ req'[r].pc = label
      /\ label # "over" => req'[r].op = req[r].op /\ req'[r].by = req[r].by /\ req'[r].org = req[r].org
      /\ \A q \in Request \ {r} : req'[q] = req[q]
  BY <1>2, <1>3, Moved DEF IInv
<1>5. /\ req[r].by \in users /\ req[r].org \in orgs /\ req[r].org \in Slug /\ req[r].by \in User
      /\ InProgress(r) /\ NobodyYet(r)
  BY <1>1 DEF IInv, TypeOK, RequestState, RowsAreThere, InProgress
<1>6. /\ member' \in [Slug -> [User -> Role \cup {"none"}]] /\ member'[req[r].org][req[r].by] = "OWNER"
      /\ \A s \in Slug, u \in User : s # req[r].org \/ u # req[r].by => member'[s][u] = member[s][u]
  BY <1>1, <1>5, RoleAssumption DEF IInv, TypeOK
<1>7. TypeOK'
  BY <1>1, <1>4, <1>5, <1>6 DEF IInv, TypeOK
<1>8. CallsOfOps(req[r])' /\ RowsAreThere(req[r])'
  BY <1>1, <1>2, <1>4, <1>5 DEF CallsOfOps, RowsAreThere
<1>9. \A q \in Request : req[q] \in RequestState
  BY DEF IInv, TypeOK
<1>10. ASSUME NEW q \in Request \ {r}, req[q].org = req[r].org
       PROVE  req[q].pc \notin {"owner", "verify", "look", "write"}
  BY <1>1, <1>5, <1>10 DEF NobodyYet
<1>11. ASSUME NEW q \in Request PROVE NobodyYet(q)'
  <2>1. CASE q = r
    BY <1>2, <1>4, <2>1 DEF NobodyYet
  <2>2. CASE q # r
    <3> SUFFICES ASSUME req[q].pc = "owner"
                 PROVE  /\ \A u \in User : member'[req[q].org][u] = "none"
                        /\ \A p \in Request \ {q} :
                             req'[p].org = req[q].org => req'[p].pc \notin {"owner", "verify", "look", "write"}
      BY <1>4, <2>2 DEF NobodyYet, RoleOf
    <3>1. req[q].org # req[r].org /\ req[q].org \in Slug /\ NobodyYet(q)
      BY <1>9, <1>10, <2>2 DEF IInv, RequestState
    <3>2. \A u \in User : member'[req[q].org][u] = "none"
      BY <1>6, <3>1 DEF NobodyYet, RoleOf
    <3>3. QED
      BY <1>2, <1>4, <3>1, <3>2 DEF NobodyYet
  <2>3. QED
    BY <2>1, <2>2
<1>12. OwnersAreSecure'
  <2> SUFFICES ASSUME faults = 0, RoleRaces \cap overlapped = {}
               PROVE  /\ \A s \in orgs :
                           \/ \E q \in Request : req'[q].pc = "owner" /\ req'[q].org = s
                           \/ \E u \in User : Secure(s, u)'
                      /\ \A q \in Request : req'[q].pc = "write" /\ req'[q].op = "updateRole" =>
                           member'[req'[q].org][req'[q].by] = "OWNER" /\ req'[q].target # req'[q].by
    BY <1>1 DEF OwnersAreSecure, RoleOf
  <2>1. ASSUME NEW s \in Slug, s = req[r].org, NEW u \in User, u = req[r].by PROVE Secure(s, u)'
    BY <1>2, <1>4, <1>6, <1>10, <2>1 DEF Secure, RoleOf
  <2>2. ASSUME NEW s \in orgs, s # req[r].org
        PROVE  \/ \E q \in Request : req'[q].pc = "owner" /\ req'[q].org = s
               \/ \E u \in User : Secure(s, u)'
    <3>1. s \in Slug
      BY <2>2 DEF IInv, TypeOK
    <3>2. \A u \in User : Secure(s, u) => Secure(s, u)'
      BY <1>2, <1>4, <1>6, <2>2, <3>1 DEF Secure, RoleOf
    <3>3. (\E q \in Request : req[q].pc = "owner" /\ req[q].org = s) \/ \E u \in User : Secure(s, u)
      BY <2>2 DEF IInv, OwnersAreSecure
    <3>4. QED
      BY <1>4, <2>2, <3>2, <3>3
  <2>3. ASSUME NEW q \in Request, req'[q].pc = "write", req'[q].op = "updateRole"
        PROVE  member'[req'[q].org][req'[q].by] = "OWNER" /\ req'[q].target # req'[q].by
    <3>1. q # r /\ req'[q] = req[q]
      BY <1>2, <1>4, <2>3
    <3>2. member[req[q].org][req[q].by] = "OWNER" /\ req[q].target # req[q].by
      BY <2>3, <3>1 DEF IInv, OwnersAreSecure, RoleOf
    <3>3. QED
      BY <1>6, <1>9, <1>10, <2>3, <3>1, <3>2 DEF RequestState
  <2>4. QED
    BY <1>5, <2>1, <2>2, <2>3
<1>13. RegistrationsSucceed'
  <2> SUFFICES ASSUME faults = 0, SlugRaces \cap overlapped = {}, NEW q \in Request, req'[q].op = "register"
               PROVE  /\ req'[q].pc = "account" => req'[q].by \notin users
                      /\ req'[q].pc = "organization" => req'[q].org \notin orgs
                      /\ req'[q].pc = "plan" => member'[req'[q].org][req'[q].by] = "OWNER" \/ req'[q].by \in moved
    BY <1>1 DEF RegistrationsSucceed, RoleOf
  <2>1. CASE q = r
    BY <1>2, <1>4, <1>6, <2>1
  <2>2. CASE q # r
    <3>1. req'[q] = req[q] /\ req[q].org \in Slug /\ req[q].by \in User
      BY <1>4, <1>9, <2>2 DEF RequestState
    <3>2. member[req[q].org][req[q].by] = "OWNER" => member'[req[q].org][req[q].by] = "OWNER"
      BY <1>6, <3>1
    <3>3. QED
      BY <3>1, <3>2 DEF IInv, RegistrationsSucceed, RoleOf
  <2>3. QED
    BY <2>1, <2>2
<1>14. AccountsHaveOrganization'
  <2> SUFFICES ASSUME faults = 0, SlugRaces \cap overlapped = {}, NEW u \in users \ Known
               PROVE  \/ \E s \in subscribed : member'[s][u] = "OWNER"
                      \/ \E q \in Request : req'[q].by = u /\ req'[q].op = "register" /\ InProgress(q)'
                      \/ u \in moved
    BY <1>1 DEF AccountsHaveOrganization, RoleOf
  <2>1. req[r].op = "register" => req'[r].by = req[r].by /\ req'[r].op = "register" /\ InProgress(r)'
    BY <1>2, <1>4 DEF InProgress
  <2>2. \A s \in subscribed : s \in Slug /\ (member[s][u] = "OWNER" => member'[s][u] = "OWNER")
    BY <1>6 DEF IInv, TypeOK
  <2>3. QED
    BY <1>4, <2>1, <2>2 DEF IInv, AccountsHaveOrganization, RoleOf, InProgress
<1>15. QED
  BY <1>1, <1>2, <1>3, <1>5, <1>7, <1>8, <1>11, <1>12, <1>13, <1>14, Written

LEMMA SubscribeKeeps ==
  ASSUME IInv, NEW r \in Request, Subscribe(r)
  PROVE  IInv'
<1>1. /\ req[r].pc = "plan" /\ subscribed' = subscribed \cup {req[r].org} /\ Goto(r, "over")
      /\ UNCHANGED <<users, orgs, member, moved, faults, overlapped>>
  BY DEF Subscribe, At
<1>2. "over" \in Label
  BY DEF Label
<1>3. /\ req' \in [Request -> RequestState] /\ req'[r].pc = "over"
      /\ \A q \in Request \ {r} : req'[q] = req[q]
  BY <1>1, <1>2, Moved DEF IInv
<1>4. req[r].org \in orgs /\ InProgress(r) /\ req[r].op = "register"
  BY <1>1 DEF IInv, RowsAreThere, InProgress, CallsOfOps
<1>5. TypeOK'
  BY <1>1, <1>3, <1>4 DEF IInv, TypeOK
<1>6. CallsOfOps(req[r])' /\ RowsAreThere(req[r])'
  BY <1>3 DEF CallsOfOps, RowsAreThere
<1>7. \A q \in Request : NobodyYet(q)'
  BY <1>1, <1>3 DEF IInv, NobodyYet, RoleOf
<1>8. OwnersAreSecure'
  <2>1. \A s \in Slug, u \in User : Secure(s, u) => Secure(s, u)'
    BY <1>1, <1>3 DEF Secure, RoleOf
  <2>2. \A s \in orgs : s \in Slug
    BY DEF IInv, TypeOK
  <2>3. QED
    BY <1>1, <1>3, <2>1, <2>2 DEF IInv, OwnersAreSecure, RoleOf
<1>9. RegistrationsSucceed'
  BY <1>1, <1>3 DEF IInv, RegistrationsSucceed, RoleOf
<1>10. AccountsHaveOrganization'
  <2> SUFFICES ASSUME faults = 0, SlugRaces \cap overlapped = {}, NEW u \in users \ Known
               PROVE  \/ \E s \in subscribed' : member[s][u] = "OWNER"
                      \/ \E q \in Request : req'[q].by = u /\ req'[q].op = "register" /\ InProgress(q)'
                      \/ u \in moved
    BY <1>1 DEF AccountsHaveOrganization, RoleOf
  <2>1. member[req[r].org][req[r].by] = "OWNER" \/ req[r].by \in moved
    BY <1>1, <1>4 DEF IInv, RegistrationsSucceed, RoleOf
  <2>2. CASE u = req[r].by
    BY <1>1, <2>1, <2>2
  <2>3. CASE u # req[r].by
    BY <1>1, <1>3, <2>3 DEF IInv, AccountsHaveOrganization, RoleOf, InProgress
  <2>4. QED
    BY <2>2, <2>3
<1>11. QED
  BY <1>1, <1>2, <1>4, <1>5, <1>6, <1>7, <1>8, <1>9, <1>10, Written

LEMMA WriteKeeps ==
  ASSUME IInv, NEW r \in Request, Write(r)
  PROVE  IInv'
<1> DEFINE q == req[r]
<1>1. /\ q.pc = "write" /\ Goto(r, "over")
      /\ member' = IF (member[q.org][q.target] = "none") # (q.op = "invite") THEN member
                   ELSE [member EXCEPT ![q.org][q.target] = IF q.op = "remove" THEN "none" ELSE q.role]
      /\ moved' = IF member' = member \/ q.op = "invite" THEN moved ELSE moved \cup {q.target}
      /\ UNCHANGED <<users, orgs, subscribed, faults, overlapped>>
  BY DEF Write, At, RoleOf
<1>2. "over" \in Label
  BY DEF Label
<1>3. /\ req' \in [Request -> RequestState] /\ req'[r].pc = "over" /\ \A p \in Request \ {r} : req'[p] = req[p]
  BY <1>1, <1>2, Moved DEF IInv
<1>4. /\ q.org \in orgs /\ q.org \in Slug /\ q.by \in User /\ q.target \in User /\ q.role \in Role
      /\ q.op \in {"invite", "updateRole", "remove"} /\ InProgress(r)
      /\ q.op = "invite" => q.target \in users
  BY <1>1 DEF IInv, TypeOK, RequestState, RowsAreThere, CallsOfOps, InProgress
<1>5. /\ member' \in [Slug -> [User -> Role \cup {"none"}]]
      /\ \A s \in Slug, u \in User : member'[s][u] # member[s][u] =>
           /\ s = q.org /\ u = q.target
           /\ IF q.op = "invite" THEN member[s][u] = "none" ELSE member[s][u] # "none" /\ u \in moved'
      /\ moved \subseteq moved' /\ moved' \subseteq User
  <2>1. CASE (member[q.org][q.target] = "none") # (q.op = "invite")
    BY <1>1, <1>4, <2>1 DEF IInv, TypeOK
  <2>2. CASE ~((member[q.org][q.target] = "none") # (q.op = "invite"))
    <3> DEFINE role == IF q.op = "remove" THEN "none" ELSE q.role
    <3>1. role \in Role \cup {"none"} /\ member' = [member EXCEPT ![q.org][q.target] = role]
      BY <1>1, <1>4, <2>2
    <3> HIDE DEF role
    <3>2. member' \in [Slug -> [User -> Role \cup {"none"}]]
      BY <1>4, <3>1 DEF IInv, TypeOK
    <3>3. \A s \in Slug, u \in User : member'[s][u] # member[s][u] => s = q.org /\ u = q.target /\ member' # member
      BY <1>4, <3>1 DEF IInv, TypeOK
    <3>4. moved \subseteq moved' /\ moved' \subseteq User /\ (member' # member /\ q.op # "invite" => q.target \in moved')
      BY <1>1, <1>4 DEF IInv, TypeOK
    <3>5. QED
      BY <2>2, <3>2, <3>3, <3>4
  <2>3. QED
    BY <2>1, <2>2
<1>6. TypeOK'
  <2>1. \A s \in Slug, u \in User : member'[s][u] # "none" => s \in orgs /\ u \in users
    BY <1>4, <1>5 DEF IInv, TypeOK
  <2>2. QED
    BY <1>1, <1>3, <1>5, <2>1 DEF IInv, TypeOK
<1>7. CallsOfOps(req[r])' /\ RowsAreThere(req[r])'
  BY <1>3 DEF CallsOfOps, RowsAreThere
<1>8. \A p \in Request : req[p] \in RequestState
  BY DEF IInv, TypeOK
<1>9. ASSUME NEW p \in Request PROVE NobodyYet(p)'
  <2>1. CASE p = r
    BY <1>3, <2>1 DEF NobodyYet
  <2>2. CASE p # r
    <3> SUFFICES ASSUME req[p].pc = "owner"
                 PROVE  /\ \A u \in User : member'[req[p].org][u] = "none"
                        /\ \A o \in Request \ {p} :
                             req'[o].org = req[p].org => req'[o].pc \notin {"owner", "verify", "look", "write"}
      BY <1>3, <2>2 DEF NobodyYet, RoleOf
    <3>1. NobodyYet(p) /\ req[p].org \in Slug
      BY <1>8 DEF IInv, RequestState
    <3>2. req[p].org # q.org
      BY <1>1, <2>2, <3>1 DEF NobodyYet
    <3>3. \A u \in User : member'[req[p].org][u] = "none"
      BY <1>5, <3>1, <3>2 DEF NobodyYet, RoleOf
    <3>4. QED
      BY <1>3, <3>1, <3>3 DEF NobodyYet
  <2>3. QED
    BY <2>1, <2>2
<1>10. OwnersAreSecure'
  <2> SUFFICES ASSUME faults = 0, RoleRaces \cap overlapped = {}
               PROVE  /\ \A s \in orgs :
                           \/ \E p \in Request : req'[p].pc = "owner" /\ req'[p].org = s
                           \/ \E u \in User : Secure(s, u)'
                      /\ \A p \in Request : req'[p].pc = "write" /\ req'[p].op = "updateRole" =>
                           member'[req'[p].org][req'[p].by] = "OWNER" /\ req'[p].target # req'[p].by
    BY <1>1 DEF OwnersAreSecure, RoleOf
  <2>1. ASSUME NEW s \in Slug, NEW u \in User, Secure(s, u), member'[s][u] = member[s][u] PROVE Secure(s, u)'
    BY <1>3, <2>1 DEF Secure, RoleOf
  <2>2. ASSUME NEW s \in orgs
        PROVE  \/ \E p \in Request : req'[p].pc = "owner" /\ req'[p].org = s
               \/ \E u \in User : Secure(s, u)'
    <3>1. s \in Slug
      BY <2>2 DEF IInv, TypeOK
    <3>2. (\E p \in Request : req[p].pc = "owner" /\ req[p].org = s) \/ \E u \in User : Secure(s, u)
      BY <2>2 DEF IInv, OwnersAreSecure
    <3>3. CASE \E p \in Request : req[p].pc = "owner" /\ req[p].org = s
      BY <1>1, <1>3, <3>3
    <3>4. CASE s # q.org /\ \E u \in User : Secure(s, u)
      BY <1>5, <2>1, <3>1, <3>4
    <3>5. CASE s = q.org /\ q.op \in {"invite", "remove"} /\ \E u \in User : Secure(s, u)
      <4>1. PICK u \in User : Secure(s, u)
        BY <3>5
      <4>2. member[s][u] = "OWNER" /\ (q.op = "remove" => u # q.target)
        BY <1>1, <3>5, <4>1 DEF Secure, RoleOf
      <4>3. member'[s][u] = member[s][u]
        BY <1>5, <3>1, <3>5, <4>2
      <4>4. QED
        BY <2>1, <3>1, <4>1, <4>3
    <3>6. CASE s = q.org /\ q.op = "updateRole"
      <4>1. member[s][q.by] = "OWNER" /\ q.target # q.by
        BY <1>1, <3>6 DEF IInv, OwnersAreSecure, RoleOf
      <4>2. member'[s][q.by] = "OWNER"
        BY <1>4, <1>5, <3>1, <4>1
      <4>3. \A p \in Request : p # r /\ req[p].pc = "write" => req[p].op # "remove"
        BY <1>4, <3>6, Races DEF InProgress
      <4>4. ASSUME NEW u \in User, u = q.by PROVE Secure(s, u)'
        BY <1>3, <4>2, <4>3, <4>4 DEF Secure, RoleOf
      <4>5. QED
        BY <1>4, <4>4
    <3>7. QED
      BY <1>4, <3>2, <3>3, <3>4, <3>5, <3>6
  <2>3. ASSUME NEW p \in Request, req'[p].pc = "write", req'[p].op = "updateRole"
        PROVE  member'[req'[p].org][req'[p].by] = "OWNER" /\ req'[p].target # req'[p].by
    <3>1. p # r /\ req'[p] = req[p] /\ InProgress(p)
      BY <1>3, <2>3 DEF InProgress
    <3>2. member[req[p].org][req[p].by] = "OWNER" /\ req[p].target # req[p].by
      BY <2>3, <3>1 DEF IInv, OwnersAreSecure, RoleOf
    <3>3. q.op = "invite"
      BY <1>4, <2>3, <3>1, Races
    <3>4. QED
      BY <1>5, <1>8, <3>1, <3>2, <3>3 DEF RequestState
  <2>4. QED
    BY <2>2, <2>3
<1>11. \A s \in Slug, u \in User : member[s][u] = "OWNER" => member'[s][u] = "OWNER" \/ u \in moved'
  BY <1>5
<1>12. RegistrationsSucceed'
  <2> SUFFICES ASSUME faults = 0, SlugRaces \cap overlapped = {}, NEW p \in Request, req'[p].op = "register"
               PROVE  /\ req'[p].pc = "account" => req'[p].by \notin users
                      /\ req'[p].pc = "organization" => req'[p].org \notin orgs
                      /\ req'[p].pc = "plan" => member'[req'[p].org][req'[p].by] = "OWNER" \/ req'[p].by \in moved'
    BY <1>1 DEF RegistrationsSucceed, RoleOf
  <2>1. CASE p = r
    BY <1>3, <2>1
  <2>2. CASE p # r
    <3>1. req'[p] = req[p] /\ req[p].org \in Slug /\ req[p].by \in User
      BY <1>3, <1>8, <2>2 DEF RequestState
    <3>2. QED
      BY <1>5, <1>11, <3>1 DEF IInv, RegistrationsSucceed, RoleOf
  <2>3. QED
    BY <2>1, <2>2
<1>13. AccountsHaveOrganization'
  <2> SUFFICES ASSUME faults = 0, SlugRaces \cap overlapped = {}, NEW u \in users \ Known
               PROVE  \/ \E s \in subscribed : member'[s][u] = "OWNER"
                      \/ \E p \in Request : req'[p].by = u /\ req'[p].op = "register" /\ InProgress(p)'
                      \/ u \in moved'
    BY <1>1 DEF AccountsHaveOrganization, RoleOf
  <2>1. u \in User /\ \A s \in subscribed : s \in Slug
    BY DEF IInv, TypeOK
  <2>2. \/ \E s \in subscribed : member[s][u] = "OWNER"
        \/ \E p \in Request : req[p].by = u /\ req[p].op = "register" /\ InProgress(p)
        \/ u \in moved
    BY DEF IInv, AccountsHaveOrganization, RoleOf
  <2>3. \A p \in Request : req[p].op = "register" /\ InProgress(p) => req'[p] = req[p] /\ InProgress(p)'
    BY <1>3, <1>4 DEF InProgress
  <2>4. QED
    BY <1>5, <1>11, <2>1, <2>2, <2>3
<1>14. QED
  BY <1>1, <1>2, <1>4, <1>6, <1>7, <1>9, <1>10, <1>12, <1>13, Written

LEMMA RejectKeeps ==
  ASSUME IInv, NEW r \in Request, Reject(r)
  PROVE  IInv'
<1>1. /\ InProgress(r) /\ Goto(r, "over") /\ faults' = faults + 1
      /\ UNCHANGED <<users, orgs, member, subscribed, moved, overlapped>>
  BY DEF Reject, rows
<1>2. "over" \in Label /\ faults' \in Nat /\ faults' # 0
  BY <1>1 DEF Label, IInv, TypeOK
<1>3. /\ req' \in [Request -> RequestState] /\ req'[r].pc = "over" /\ \A p \in Request \ {r} : req'[p] = req[p]
  BY <1>1, <1>2, Moved DEF IInv
<1>4. TypeOK'
  BY <1>1, <1>2, <1>3 DEF IInv, TypeOK
<1>5. CallsOfOps(req[r])' /\ RowsAreThere(req[r])'
  BY <1>3 DEF CallsOfOps, RowsAreThere
<1>6. \A q \in Request : NobodyYet(q)'
  BY <1>1, <1>3 DEF IInv, NobodyYet, RoleOf
<1>7. OwnersAreSecure' /\ RegistrationsSucceed' /\ AccountsHaveOrganization'
  BY <1>2 DEF OwnersAreSecure, RegistrationsSucceed, AccountsHaveOrganization
<1>8. QED
  BY <1>1, <1>2, <1>4, <1>5, <1>6, <1>7, Written

-----------------------------------------------------------------------------
(* The invariant holds, and what it implies.                               *)

LEMMA InitHolds == Init => IInv
<1> SUFFICES ASSUME Init PROVE IInv
  OBVIOUS
<1>1. PICK roles \in [Known -> Role], u \in Known :
        /\ roles[u] = "OWNER"
        /\ member = [s \in Slug |-> [v \in User |-> IF s = 1 /\ v \in Known THEN roles[v] ELSE "none"]]
  BY DEF Init
<1>2. /\ users = Known /\ orgs = {1} /\ subscribed = {1} /\ faults = 0 /\ moved = {} /\ overlapped = {}
      /\ \A r \in Request : req[r] = Idle
      /\ req = [r \in Request |-> Idle]
  BY DEF Init
<1>3. 1 \in Slug /\ u \in User /\ member[1][u] = "OWNER"
  BY <1>1, SlugsAssumption, KnownAssumption DEF Slug
<1>4. TypeOK
  <2>1. member \in [Slug -> [User -> Role \cup {"none"}]]
    BY <1>1
  <2>2. \A s \in Slug, v \in User : member[s][v] # "none" => s \in orgs /\ v \in users
    BY <1>1, <1>2
  <2>3. QED
    BY <1>2, <1>3, <2>1, <2>2, KnownAssumption, IdleIsTyped DEF TypeOK
<1>5. \A r \in Request : req[r].pc = "idle" /\ req[r].op = "none"
  BY <1>2, IdleIsTyped
<1>6. OverlapsAreSeen
  BY <1>5 DEF OverlapsAreSeen, InProgress
<1>7. Secure(1, u)
  BY <1>3, <1>5 DEF Secure, RoleOf
<1>8. OwnersAreSecure
  BY <1>2, <1>3, <1>5, <1>7 DEF OwnersAreSecure
<1>9. RegistrationsSucceed
  BY <1>5 DEF RegistrationsSucceed
<1>10. AccountsHaveOrganization
  BY <1>2 DEF AccountsHaveOrganization
<1>11. ASSUME NEW r \in Request PROVE CallsOfOps(req[r]) /\ RowsAreThere(req[r]) /\ NobodyYet(r)
  BY <1>5 DEF CallsOfOps, RowsAreThere, NobodyYet
<1>12. QED
  BY <1>4, <1>6, <1>8, <1>9, <1>10, <1>11 DEF IInv

LEMMA StutterKeeps == IInv /\ UNCHANGED vars => IInv'
  BY DEF IInv, vars, rows, TypeOK, OverlapsAreSeen, OwnersAreSecure, Secure, RegistrationsSucceed,
         AccountsHaveOrganization, CallsOfOps, RowsAreThere, NobodyYet, InProgress, RoleOf

LEMMA NextKeeps == IInv /\ Next => IInv'
<1> SUFFICES ASSUME IInv, Next PROVE IInv'
  OBVIOUS
<1>1. PICK r \in Request : Begins(r) \/ Continues(r)
  BY DEF Next
<1>2. CASE Begins(r)
  BY <1>2, BeginsKeep
<1>3. CASE Continues(r)
  BY <1>3, CreateUserKeeps, PickSlugKeeps, CreateOrganizationKeeps, CreateOwnerKeeps, SubscribeKeeps, VerifyKeeps,
     LookKeeps, WriteKeeps, RejectKeeps DEF Continues
<1>4. QED
  BY <1>1, <1>2, <1>3

LEMMA Inductive == Spec => []IInv
<1>1. IInv /\ [Next]_vars => IInv'
  BY NextKeeps, StutterKeeps
<1>2. QED
  BY InitHolds, <1>1, PTL DEF Spec

LEMMA OwnersKept == IInv => HasOwner
<1> SUFFICES ASSUME IInv, faults = 0, RoleRaces \cap overlapped = {}, NEW s \in orgs, Quiet(s)
             PROVE  \E u \in User : RoleOf(s, u) = "OWNER"
  BY DEF HasOwner
<1>1. \A r \in Request : req[r].pc = "owner" => req[r].org # s
  BY DEF Quiet, InProgress
<1>2. QED
  BY <1>1 DEF IInv, OwnersAreSecure, Secure

(* An organization has an OWNER whenever nothing is under way in it,       *)
(* however invitations, changes of role, removals and new organizations    *)
(* overlap: only two changes of role at once, a change and a removal, or a *)
(* call rejected half-way can take the last one                            *)
(* (OrganizationsService.updateMemberRole, removeMember).                  *)
THEOREM OwnersRemain == Spec => []MembershipInv
<1>1. IInv => MembershipInv
  BY OwnersKept DEF IInv, MembershipInv
<1>2. QED
  BY Inductive, <1>1, PTL

(* Whoever has registered has an organization with a subscription and is   *)
(* its OWNER, unless a call was rejected, another organization was being   *)
(* made at the same time, or somebody has changed the role since           *)
(* (AuthService.register).                                                 *)
THEOREM AccountsAreWhole == Spec => []AccountsHaveOrganization
<1>1. IInv => AccountsHaveOrganization
  BY DEF IInv
<1>2. QED
  BY Inductive, <1>1, PTL

=============================================================================
