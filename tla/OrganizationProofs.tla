------------------------- MODULE OrganizationProofs -------------------------
(***************************************************************************)
(* Proofs about Organization, for any number of accounts, organizations,   *)
(* member rows and requests in flight: the tables are well formed, clients *)
(* that wait have one membership each, and the handlers implement          *)
(* MembershipLifecycle while requests about a membership keep apart.       *)
(***************************************************************************)
EXTENDS Organization, RequestsProofs

\* The requests that write the status of a membership, and what they start from.
From == [join |-> {"cancelled", "left", "rejected", "removed"},
         cancel |-> {"pending"}, leave |-> {"approved"},
         approve |-> {"pending"}, reject |-> {"pending"},
         approveBack |-> {"rejected", "removed"}, remove |-> {"approved"}]
Writers == {"join", "cancel", "leave", "approve", "reject", "approveBack", "remove"}

\* A request is about the membership it writes: that of the row it has found, or the one a
\* join creates.
Known(r) ==
    /\ DOMAIN r = Fields
    /\ r.op \in Writers /\ r.seen # 0 => r.seen \in DOMAIN member /\ r.on = MembershipOf(r.seen)
    /\ r.op = "join" => r.arg \in DOMAIN org /\ r.on = Membership(r.by, r.arg)

\* It finds its membership as it has seen it.
Fresh(r) == r.op = "join" /\ r.seen = 0 => RowsOf(r.by, r.arg) = {}
Current(r) == r.op \in Writers /\ r.seen # 0 => member[r.seen].status \in From[r.op]

OneRow == \A m, n \in DOMAIN member :
    member[m].account = member[n].account /\ member[m].org = member[n].org => m = n

Tables ==
    /\ OrganizationTypeOK
    /\ IsFiniteSet(DOMAIN org) /\ IsFiniteSet(DOMAIN member)
    /\ DOMAIN org \subseteq 1..MaxOrgs

Slots ==
    /\ DOMAIN req = Handlers
    /\ \A h \in Handlers : Known(req[h])
    /\ manner # "any" => \A h \in Handlers : Fresh(req[h])
    /\ Apart => \A h \in Handlers : Current(req[h])

OrganizationInv ==
    /\ manner \in Manners
    /\ Tables /\ Slots /\ Exclusive
    /\ manner # "any" => OneRow

\* What a step does to the memberships: nothing, a new status for one row, a new row.
Kept ==
    /\ DOMAIN org \subseteq DOMAIN org'
    /\ DOMAIN member \subseteq DOMAIN member'
    /\ \A m \in DOMAIN member : /\ member'[m].account = member[m].account
                                /\ member'[m].org = member[m].org
Still == Kept /\ DOMAIN member' = DOMAIN member
              /\ \A m \in DOMAIN member : member'[m].status = member[m].status

-----------------------------------------------------------------------------
(* The slots. *)

LEMMA IdleKnown == /\ Known(Idle) /\ Fresh(Idle) /\ Current(Idle) /\ Idle.op = "idle"
BY DEF Known, Fresh, Current, Idle, Writers, Fields

-----------------------------------------------------------------------------
(* What a membership stands at. *)

LEMMA IdsAreNat ==
    ASSUME Tables
    PROVE  /\ DOMAIN member \subseteq Nat \ {0}
           /\ \A m \in DOMAIN member : member[m] \in MemberRow
BY FS_CardinalityType DEF Tables, OrganizationTypeOK

\* The only row of an account in an organization says it.
LEMMA StandingOfRow ==
    ASSUME Tables, OneRow, NEW m \in DOMAIN member
    PROVE  /\ <<member[m].account, member[m].org>> \in Accounts \X (1..MaxOrgs)
           /\ RowsOf(member[m].account, member[m].org) = {m}
           /\ Standing[<<member[m].account, member[m].org>>] = member[m].status
<1>1. member[m].account \in Accounts /\ member[m].org \in 1..MaxOrgs
  BY IdsAreNat DEF Tables, MemberRow
<1>2. RowsOf(member[m].account, member[m].org) = {m}
  BY DEF RowsOf, OneRow
<1> QED BY <1>1, <1>2 DEF Standing

\* A step that leaves the memberships alone leaves what they stand at.
LEMMA StandingStill ==
    ASSUME Still
    PROVE  /\ \A a, o : RowsOf(a, o)' = RowsOf(a, o)
           /\ Standing' = Standing
<1>1. ASSUME NEW a, NEW o PROVE RowsOf(a, o)' = RowsOf(a, o)
  BY DEF Still, Kept, RowsOf
<1>2. ASSUME NEW p \in Accounts \X (1..MaxOrgs)
      PROVE  (IF RowsOf(p[1], p[2]) # {}
              THEN member[CHOOSE m \in RowsOf(p[1], p[2]) : TRUE].status ELSE "none")'
             = IF RowsOf(p[1], p[2]) # {}
               THEN member[CHOOSE m \in RowsOf(p[1], p[2]) : TRUE].status ELSE "none"
  <2>1. RowsOf(p[1], p[2])' = RowsOf(p[1], p[2])
    BY <1>1
  <2>2. CASE RowsOf(p[1], p[2]) = {}
    BY <2>1, <2>2
  <2>3. CASE RowsOf(p[1], p[2]) # {}
    <3> DEFINE m == CHOOSE m \in RowsOf(p[1], p[2]) : TRUE
    <3>1. m \in DOMAIN member
      BY <2>3 DEF RowsOf
    <3>2. member'[m].status = member[m].status
      BY <3>1 DEF Still
    <3> QED BY <2>1, <2>3, <3>2
  <2> QED BY <2>2, <2>3
<1> QED BY <1>1, <1>2 DEF Standing

\* A slot takes another request, and the memberships stay.
LEMMA StillKeeps ==
    ASSUME OrganizationInv, NEW h \in Handlers, NEW r, req' = [req EXCEPT ![h] = r],
           manner' = manner, Exclusive', Tables', Still,
           Known(r), manner # "any" => Fresh(r), Apart => Current(r)
    PROVE  OrganizationInv' /\ Standing' = Standing
<1>1. /\ DOMAIN req' = Handlers /\ req'[h] = r
      /\ \A g \in Handlers \ {h} : req'[g] = req[g]
  BY DEF OrganizationInv, Slots
<1>2. \A q : /\ Known(q) => Known(q)'
             /\ Fresh(q) => Fresh(q)'
             /\ Known(q) /\ Current(q) => Current(q)'
  <2>1. \A a, o : RowsOf(a, o)' = RowsOf(a, o)
    BY StandingStill
  <2> QED BY <2>1 DEF Still, Kept, Known, Fresh, Current, MembershipOf, Membership
<1>3. Slots'
  BY <1>1, <1>2 DEF OrganizationInv, Slots, Apart
<1>4. manner # "any" => OneRow'
  BY DEF OrganizationInv, OneRow, Still, Kept
<1> QED BY <1>3, <1>4, StandingStill DEF OrganizationInv

\* A request writes the status of the row it has found, and ends.
LEMMA WriteKeeps ==
    ASSUME OrganizationInv, NEW h \in Handlers, NEW op \in Writers, NEW m \in DOMAIN member,
           NEW st \in MemberStatus, req[h].op = op, req[h].seen = m,
           req' = [req EXCEPT ![h] = Idle], manner' = manner,
           member' = SetStatus(m, st), org' = org
    PROVE  /\ OrganizationInv'
           /\ Apart => L!Change(member[m].account, member[m].org, From[op], st)
<1>1. /\ DOMAIN req' = Handlers /\ req'[h] = Idle
      /\ \A g \in Handlers \ {h} : req'[g] = req[g]
  BY DEF OrganizationInv, Slots
<1>2. /\ DOMAIN member' = DOMAIN member
      /\ member'[m] = [member[m] EXCEPT !.status = st]
      /\ \A n \in DOMAIN member \ {m} : member'[n] = member[n]
  BY DEF SetStatus
<1>3. /\ \A n \in DOMAIN member : member[n] \in MemberRow
      /\ DOMAIN member \subseteq Nat \ {0}
  BY IdsAreNat DEF OrganizationInv
<1>4. \A n \in DOMAIN member' : /\ member'[n].account = member[n].account
                                /\ member'[n].org = member[n].org
                                /\ member'[n] \in MemberRow
  BY <1>2, <1>3 DEF MemberRow
<1>5. member'[m].status = st
  BY <1>2, <1>3 DEF MemberRow
<1>6. Tables'
  <2>1. /\ Tables /\ MemberRow' = MemberRow
        /\ (org \in [DOMAIN org -> OrgRow])' = (org \in [DOMAIN org -> OrgRow])
    BY DEF OrganizationInv, MemberRow
  <2>2. member' \in [DOMAIN member' -> MemberRow]
    BY <1>4 DEF SetStatus
  <2> QED BY <1>2, <2>1, <2>2 DEF Tables, OrganizationTypeOK
<1>7. \A a, o : RowsOf(a, o)' = RowsOf(a, o)
  BY <1>2, <1>4 DEF RowsOf
<1>8. \A q : (Known(q) => Known(q)') /\ (Fresh(q) => Fresh(q)')
  BY <1>2, <1>4, <1>7 DEF Known, Fresh, MembershipOf, Membership
<1>9. ASSUME Apart, NEW g \in Handlers \ {h} PROVE Current(req[g])'
  <2>1. Current(req[g]) /\ Known(req[g]) /\ Known(req[h]) /\ req'[g] = req[g]
    BY <1>1, <1>9 DEF OrganizationInv, Slots
  <2> SUFFICES ASSUME req[g].op \in Writers, req[g].seen # 0
               PROVE  member'[req[g].seen].status \in From[req[g].op]
    BY <2>1 DEF Current
  <2>2. req[g].on = MembershipOf(req[g].seen) /\ req[h].on = MembershipOf(m)
        /\ req[g].seen \in DOMAIN member
    BY <1>3, <2>1 DEF Known
  <2>3. Busy(g) /\ Busy(h)
    BY DEF Busy, Writers
  <2>4. req[g].seen # m
    <3> SUFFICES ASSUME req[g].seen = m PROVE FALSE
      OBVIOUS
    <3>1. \E x : x \in req[g].on /\ x \in req[h].on
      BY <2>2 DEF MembershipOf, Membership
    <3>2. Exclusive
      BY DEF OrganizationInv
    <3> QED BY <1>9, <2>3, <3>1, <3>2, OneInFlight
  <2> QED BY <1>2, <2>1, <2>2, <2>4 DEF Current
<1>10. Slots'
  <2>1. \A g \in Handlers : Known(req[g])'
    BY <1>1, <1>8, IdleKnown DEF OrganizationInv, Slots
  <2>2. manner # "any" => \A g \in Handlers : Fresh(req[g])'
    BY <1>1, <1>8, IdleKnown DEF OrganizationInv, Slots
  <2>3. Current(req[h])'
    BY <1>1, IdleKnown DEF Current, Writers
  <2> QED BY <1>1, <1>9, <2>1, <2>2, <2>3 DEF Slots, Apart
<1>11. Exclusive'
  BY ExclusiveGoesOn, IdleKnown DEF OrganizationInv, Slots
<1>12. manner # "any" => OneRow'
  BY <1>2, <1>4 DEF OrganizationInv, OneRow
<1>13. ASSUME Apart PROVE L!Change(member[m].account, member[m].org, From[op], st)
  <2>1. OneRow /\ manner # "any"
    BY <1>13 DEF Apart, OrganizationInv
  <2>2. Current(req[h]) /\ member[m].status \in From[op]
    BY <1>3, <1>13 DEF OrganizationInv, Slots, Current
  <2> DEFINE k == <<member[m].account, member[m].org>>
  <2>3. k \in Accounts \X (1..MaxOrgs) /\ Standing[k] = member[m].status
        /\ RowsOf(member[m].account, member[m].org) = {m}
    BY <2>1, StandingOfRow DEF OrganizationInv
  <2>4. Standing' = [Standing EXCEPT ![k] = st]
    <3>1. ASSUME NEW p \in Accounts \X (1..MaxOrgs)
          PROVE  (IF RowsOf(p[1], p[2]) # {}
                  THEN member[CHOOSE n \in RowsOf(p[1], p[2]) : TRUE].status ELSE "none")'
                 = IF p = k THEN st
                   ELSE IF RowsOf(p[1], p[2]) # {}
                   THEN member[CHOOSE n \in RowsOf(p[1], p[2]) : TRUE].status ELSE "none"
      <4>1. RowsOf(p[1], p[2])' = RowsOf(p[1], p[2])
        BY <1>7
      <4>2. CASE p = k
        <5>1. RowsOf(p[1], p[2]) = {m} /\ (CHOOSE n \in RowsOf(p[1], p[2]) : TRUE) = m
          BY <2>3, <4>2
        <5> QED BY <1>5, <4>1, <4>2, <5>1
      <4>3. CASE p # k /\ RowsOf(p[1], p[2]) = {}
        BY <4>1, <4>3
      <4>4. CASE p # k /\ RowsOf(p[1], p[2]) # {}
        <5> DEFINE n == CHOOSE n \in RowsOf(p[1], p[2]) : TRUE
        <5>1. n \in RowsOf(p[1], p[2])
          BY <4>4
        <5>2. n \in DOMAIN member /\ <<member[n].account, member[n].org>> = p
          BY <5>1 DEF RowsOf
        <5>3. member'[n].status = member[n].status
          BY <1>2, <4>4, <5>2
        <5> QED BY <4>1, <4>4, <5>3
      <4> QED BY <4>2, <4>3, <4>4
    <3> QED BY <2>3, <3>1 DEF Standing
  <2> QED BY <2>2, <2>3, <2>4 DEF L!Change
<1> QED BY <1>6, <1>10, <1>11, <1>12, <1>13 DEF OrganizationInv

\* A new row, of an account that has none in the organization.
LEMMA InsertKeeps ==
    ASSUME OrganizationInv, manner' = manner, Exclusive',
           NEW a \in Accounts, NEW o \in DOMAIN org', NEW st \in MemberStatus,
           NEW roles \in SUBSET MemberRole,
           member' = Insert(member, [account |-> a, org |-> o, status |-> st, roles |-> roles]),
           DOMAIN org' = 1..Cardinality(DOMAIN org'), IsFiniteSet(DOMAIN org'),
           org' \in [DOMAIN org' -> OrgRow],
           DOMAIN org \subseteq DOMAIN org', DOMAIN org' \subseteq 1..MaxOrgs,
           manner # "any" => RowsOf(a, o) = {},
           DOMAIN req' = Handlers, \A g \in Handlers : req'[g] \in {req[g], Idle},
           manner # "any" => \A g \in Handlers :
                req'[g].op = "join" /\ req'[g].seen = 0 => req'[g].by # a \/ req'[g].arg # o
    PROVE  /\ OrganizationInv'
           /\ Apart => L!Change(a, o, {"none"}, st)
<1> DEFINE i == NextId(member)
           row == [account |-> a, org |-> o, status |-> st, roles |-> roles]
<1>1. /\ \A n \in DOMAIN member : member[n] \in MemberRow
      /\ DOMAIN member \subseteq Nat \ {0} /\ Cardinality(DOMAIN member) \in Nat
      /\ DOMAIN member = 1..Cardinality(DOMAIN member)
  BY IdsAreNat, FS_CardinalityType DEF OrganizationInv, Tables, OrganizationTypeOK
<1>2. /\ DOMAIN member' = DOMAIN member \cup {i} /\ IsFiniteSet(DOMAIN member')
      /\ DOMAIN member' = 1..Cardinality(DOMAIN member')
      /\ i \in Nat \ {0} /\ i \notin DOMAIN member
      /\ member'[i] = row
      /\ \A n \in DOMAIN member : member'[n] = member[n]
  <2> DEFINE T == Insert(member, row)
  <2>1. /\ DOMAIN T = DOMAIN member \cup {NextId(member)}
        /\ DOMAIN T = 1..Cardinality(DOMAIN T) /\ IsFiniteSet(DOMAIN T)
        /\ NextId(member) \in Nat \ {0} /\ NextId(member) \notin DOMAIN member
        /\ T[NextId(member)] = row
        /\ \A n \in DOMAIN member : T[n] = member[n]
    <3> HIDE DEF row
    <3> QED BY <1>1, InsertRow
  <2>2. member' = T
    OBVIOUS
  <2> HIDE DEF T, row
  <2> QED BY <2>1, <2>2
<1> HIDE DEF i
<1>3. Kept
  BY <1>2 DEF Kept
<1>4. Tables'
  <2>1. \A n \in DOMAIN member' : member'[n] \in MemberRow'
    BY <1>1, <1>2 DEF MemberRow
  <2>2. member' \in [DOMAIN member' -> MemberRow']
    BY <2>1 DEF Insert
  <2> QED BY <1>2, <2>2 DEF Tables, OrganizationTypeOK
<1>5. /\ RowsOf(a, o)' = RowsOf(a, o) \cup {i}
      /\ \A b, p : b # a \/ p # o => RowsOf(b, p)' = RowsOf(b, p)
  <2>1. member'[i].account = a /\ member'[i].org = o
    BY <1>2
  <2> QED BY <1>2, <2>1 DEF RowsOf
<1>6. Slots'
  <2>1. \A q : Known(q) => Known(q)'
    BY <1>3 DEF Kept, Known, MembershipOf, Membership
  <2>2. \A q : Fresh(q) /\ (q.op = "join" /\ q.seen = 0 => q.by # a \/ q.arg # o) => Fresh(q)'
    BY <1>5 DEF Fresh
  <2>3. \A q : Known(q) /\ Current(q) => Current(q)'
    BY <1>2 DEF Known, Current
  <2>4. \A g \in Handlers : Known(req[g])'
    BY <2>1, IdleKnown DEF OrganizationInv, Slots
  <2>5. ASSUME manner # "any", NEW g \in Handlers PROVE Fresh(req[g])'
    <3>1. Fresh(req'[g])
      BY <2>5, IdleKnown DEF OrganizationInv, Slots
    <3> QED BY <2>2, <2>5, <3>1
  <2>6. ASSUME Apart, NEW g \in Handlers PROVE Current(req[g])'
    <3>1. Known(req'[g]) /\ Current(req'[g])
      BY <2>6, IdleKnown DEF OrganizationInv, Slots
    <3> QED BY <2>3, <3>1
  <2> QED BY <2>4, <2>5, <2>6 DEF Slots, Apart
<1>7. ASSUME manner # "any" PROVE OneRow'
  <2>1. OneRow /\ RowsOf(a, o) = {}
    BY <1>7 DEF OrganizationInv
  <2>2. \A n \in DOMAIN member : member[n].account # a \/ member[n].org # o
    BY <2>1 DEF RowsOf
  <2> QED BY <1>2, <2>1, <2>2 DEF OneRow
<1>8. ASSUME Apart PROVE L!Change(a, o, {"none"}, st)
  <2> DEFINE k == <<a, o>>
  <2>1. k \in Accounts \X (1..MaxOrgs) /\ RowsOf(a, o) = {} /\ RowsOf(a, o)' = {i}
    BY <1>5, <1>8 DEF Apart
  <2>2. Standing[k] = "none"
    BY <2>1 DEF Standing
  <2>3. Standing' = [Standing EXCEPT ![k] = st]
    <3>1. ASSUME NEW p \in Accounts \X (1..MaxOrgs)
          PROVE  (IF RowsOf(p[1], p[2]) # {}
                  THEN member[CHOOSE n \in RowsOf(p[1], p[2]) : TRUE].status ELSE "none")'
                 = IF p = k THEN st
                   ELSE IF RowsOf(p[1], p[2]) # {}
                   THEN member[CHOOSE n \in RowsOf(p[1], p[2]) : TRUE].status ELSE "none"
      <4>1. CASE p = k
        <5>1. RowsOf(p[1], p[2])' = {i} /\ (CHOOSE n \in RowsOf(p[1], p[2])' : TRUE) = i
          BY <2>1, <4>1
        <5>2. member'[i].status = st
          BY <1>2
        <5> QED BY <4>1, <5>1, <5>2
      <4>2. CASE p # k
        <5>1. RowsOf(p[1], p[2])' = RowsOf(p[1], p[2])
          BY <1>5, <4>2
        <5>2. CASE RowsOf(p[1], p[2]) = {}
          BY <4>2, <5>1, <5>2
        <5>3. CASE RowsOf(p[1], p[2]) # {}
          <6> DEFINE n == CHOOSE n \in RowsOf(p[1], p[2]) : TRUE
          <6>1. n \in DOMAIN member
            BY <5>3 DEF RowsOf
          <6>2. member'[n].status = member[n].status
            BY <1>2, <6>1
          <6> QED BY <4>2, <5>1, <5>3, <6>2
        <5> QED BY <5>2, <5>3
      <4> QED BY <4>1, <4>2
    <3> QED BY <2>1, <3>1 DEF Standing
  <2> QED BY <2>1, <2>2, <2>3 DEF L!Change
<1> QED BY <1>4, <1>6, <1>7, <1>8 DEF OrganizationInv

-----------------------------------------------------------------------------
(* The steps. *)

Step == OrganizationInv' /\ KeepsLifecycle

LEMMA OtherKnown ==
    \A r : r.op \notin Writers /\ DOMAIN r = Fields => Known(r) /\ Fresh(r) /\ Current(r)
BY DEF Known, Fresh, Current, Writers

\* A request arrives.
LEMMA ArriveStep ==
    ASSUME OrganizationInv, NEW h \in Handlers, NEW r, Begin(h, r), UNCHANGED organizationVars,
           Known(r), manner # "any" => Fresh(r), Apart => Current(r)
    PROVE  Step
<1>1. Exclusive' /\ req' = [req EXCEPT ![h] = r] /\ manner' = manner
  BY ExclusiveBegin DEF OrganizationInv, Slots, Begin
<1>2. org' = org /\ member' = member
  BY DEF organizationVars
<1>3. Tables' /\ Still
  BY <1>2 DEF OrganizationInv, Tables, OrganizationTypeOK, MemberRow, Still, Kept
<1>4. OrganizationInv' /\ Standing' = Standing
  BY <1>1, <1>3, StillKeeps
<1> QED BY <1>4 DEF Step, KeepsLifecycle, L!vars

\* A request goes on or ends, and writes something else than the status of a membership.
LEMMA OtherStep ==
    ASSUME OrganizationInv, NEW h \in Handlers, NEW r, req' = [req EXCEPT ![h] = r],
           manner' = manner, r.op \notin Writers, DOMAIN r = Fields,
           r.op # "idle" => r.op = req[h].op /\ r.by = req[h].by /\ r.on = req[h].on,
           org' \in [DOMAIN org -> OrgRow], member' \in [DOMAIN member -> MemberRow],
           \A m \in DOMAIN member : /\ member'[m].account = member[m].account
                                    /\ member'[m].org = member[m].org
                                    /\ member'[m].status = member[m].status
    PROVE  Step
<1>1. Exclusive'
  BY ExclusiveGoesOn DEF OrganizationInv, Slots
<1>2. DOMAIN org' = DOMAIN org /\ DOMAIN member' = DOMAIN member
  OBVIOUS
<1>3. Still
  BY <1>2 DEF Still, Kept
<1>4. Tables'
  BY <1>2 DEF OrganizationInv, Tables, OrganizationTypeOK, MemberRow
<1>5. OrganizationInv' /\ Standing' = Standing
  BY <1>1, <1>3, <1>4, OtherKnown, StillKeeps
<1> QED BY <1>5 DEF Step, KeepsLifecycle, L!vars

\* The request goes on or ends, and writes nothing.
LEMMA GoesOnStep ==
    ASSUME OrganizationInv, NEW h \in Handlers, NEW at, NEW seen, req[h].op \notin Writers,
           UNCHANGED organizationVars, Goto(h, at, seen) \/ End(h) \/ Abort(h)
    PROVE  Step
<1>1. /\ org' \in [DOMAIN org -> OrgRow] /\ member' \in [DOMAIN member -> MemberRow]
      /\ member' = member
  BY DEF organizationVars, OrganizationInv, Tables, OrganizationTypeOK
<1>2. CASE Goto(h, at, seen)
  <2> DEFINE q == [req[h] EXCEPT !.at = at, !.seen = seen]
  <2>1. DOMAIN req[h] = Fields
    BY DEF OrganizationInv, Slots, Known
  <2>2. req' = [req EXCEPT ![h] = q] /\ manner' = manner
    BY <1>2 DEF Goto, OrganizationInv, Slots
  <2>3. DOMAIN q = Fields /\ q.op = req[h].op /\ q.by = req[h].by /\ q.on = req[h].on
    BY <2>1 DEF Fields
  <2> HIDE DEF q
  <2> QED BY <1>1, <2>2, <2>3, OtherStep
<1>3. CASE End(h) \/ Abort(h)
  <2>1. req' = [req EXCEPT ![h] = Idle] /\ manner' = manner
    BY <1>3 DEF End, Abort
  <2>2. Idle.op = "idle" /\ Idle.op \notin Writers /\ DOMAIN Idle = Fields
    BY IdleKnown DEF Writers, Known
  <2> QED BY <1>1, <2>1, <2>2, OtherStep
<1> QED BY <1>2, <1>3

LEMMA CreateStep ==
    ASSUME OrganizationInv, NEW h \in Handlers, NEW a \in Accounts, Create(h, a)
    PROVE  Step
<1> DEFINE o == NextId(org)
           orgRow == [owner |-> a, status |-> "pending", founder |-> a, displaced |-> {}]
<1>1. /\ DOMAIN org = 1..Cardinality(DOMAIN org) /\ Cardinality(DOMAIN org) \in Nat
      /\ org \in [DOMAIN org -> OrgRow] /\ DOMAIN org \subseteq 1..MaxOrgs
      /\ DOMAIN member \subseteq Nat \ {0} /\ \A m \in DOMAIN member : member[m] \in MemberRow
  BY IdsAreNat, FS_CardinalityType DEF OrganizationInv, Tables, OrganizationTypeOK
<1>2. /\ org' = Insert(org, orgRow) /\ o <= MaxOrgs
      /\ member' = Insert(member, [account |-> a, org |-> o,
                                   status |-> "approved", roles |-> {"owner"}])
      /\ UNCHANGED requestVars
  BY DEF Create
<1>3. /\ DOMAIN org' = DOMAIN org \cup {o}
      /\ DOMAIN org' = 1..Cardinality(DOMAIN org') /\ IsFiniteSet(DOMAIN org')
      /\ o \in Nat \ {0} /\ o \notin DOMAIN org
      /\ org'[o] = orgRow /\ \A p \in DOMAIN org : org'[p] = org[p]
  <2> DEFINE T == Insert(org, orgRow)
  <2>1. /\ DOMAIN T = DOMAIN org \cup {NextId(org)}
        /\ DOMAIN T = 1..Cardinality(DOMAIN T) /\ IsFiniteSet(DOMAIN T)
        /\ NextId(org) \in Nat \ {0} /\ NextId(org) \notin DOMAIN org
        /\ T[NextId(org)] = orgRow
        /\ \A p \in DOMAIN org : T[p] = org[p]
    <3> HIDE DEF orgRow
    <3> QED BY <1>1, InsertRow
  <2>2. org' = T
    BY <1>2
  <2> HIDE DEF T, orgRow
  <2> QED BY <2>1, <2>2
<1>4. org' \in [DOMAIN org' -> OrgRow]
  <2>1. \A p \in DOMAIN org' : org'[p] \in OrgRow
    BY <1>1, <1>3 DEF OrgRow, OrganizationStatus
  <2> QED BY <1>2, <2>1 DEF Insert
<1> HIDE DEF o, orgRow
<1>5. DOMAIN org' \subseteq 1..MaxOrgs /\ DOMAIN org \subseteq DOMAIN org' /\ o \in DOMAIN org'
  BY <1>1, <1>2, <1>3, BoundsAssumption
<1>6. RowsOf(a, o) = {}
  BY <1>1, <1>3 DEF RowsOf, MemberRow
<1>7. /\ manner' = manner /\ req' = req /\ Exclusive' /\ DOMAIN req' = Handlers
      /\ \A g \in Handlers : req'[g].op = "join" => req'[g].arg # o
  BY <1>2, <1>3 DEF requestVars, OrganizationInv, Slots, Exclusive, Busy, Waits, Known
<1>8. /\ "approved" \in MemberStatus /\ {"owner"} \in SUBSET MemberRole
  BY DEF MemberStatus, MemberRole
<1>9. OrganizationInv' /\ (Apart => L!Change(a, o, {"none"}, "approved"))
  BY <1>2, <1>3, <1>4, <1>5, <1>6, <1>7, <1>8, InsertKeeps
<1>10. Apart => L!Next
  BY <1>5, <1>9 DEF L!Next, L!Found
<1> QED BY <1>9, <1>10 DEF Step, KeepsLifecycle, Apart

LEMMA UpdateStatusStep ==
    ASSUME OrganizationInv, NEW h \in Handlers, NEW o \in DOMAIN org,
           NEW st \in OrganizationStatus, UpdateStatus(h, o, st)
    PROVE  Step
<1>1. CASE Arrives(h, "status", "write", 0, Of(o), <<o, st>>, 0)
  <2> DEFINE r == [op |-> "status", at |-> "write", by |-> 0, on |-> Of(o),
                   arg |-> <<o, st>>, seen |-> 0]
  <2>1. Begin(h, r) /\ UNCHANGED organizationVars
    BY <1>1 DEF Arrives
  <2>2. r.op \notin Writers /\ DOMAIN r = Fields
    BY DEF Writers, Fields
  <2> HIDE DEF r
  <2> QED BY <2>1, <2>2, OtherKnown, ArriveStep
<1>2. CASE At(h, "status", "write") /\ org' = [org EXCEPT ![o].status = st]
           /\ UNCHANGED member /\ End(h)
  <2>1. org[o] \in OrgRow /\ org \in [DOMAIN org -> OrgRow]
        /\ member \in [DOMAIN member -> MemberRow]
    BY DEF OrganizationInv, Tables, OrganizationTypeOK
  <2>2. org' \in [DOMAIN org -> OrgRow] /\ member' \in [DOMAIN member -> MemberRow]
    BY <1>2, <2>1 DEF OrgRow
  <2>3. req' = [req EXCEPT ![h] = Idle] /\ manner' = manner
    BY <1>2 DEF End
  <2>4. Idle.op = "idle" /\ Idle.op \notin Writers /\ DOMAIN Idle = Fields
    BY IdleKnown DEF Writers, Known
  <2> QED BY <1>2, <2>2, <2>3, <2>4, OtherStep
<1> QED BY <1>1, <1>2 DEF UpdateStatus

\* The steps that are promised of a membership, by the request that takes them.
To == [join |-> "pending", cancel |-> "cancelled", leave |-> "left", approve |-> "approved",
       reject |-> "rejected", approveBack |-> "approved", remove |-> "removed"]

LEMMA Promised ==
    ASSUME NEW op \in Writers, NEW a \in Accounts, NEW o \in 1..MaxOrgs,
           L!Change(a, o, From[op], To[op])
    PROVE  L!Next
<1>1. CASE op = "join"
  BY <1>1 DEF L!Next, L!Join, L!Change, From, To
<1>2. CASE op = "cancel"
  BY <1>2 DEF L!Next, L!Cancel, From, To
<1>3. CASE op = "leave"
  BY <1>3 DEF L!Next, L!Leave, From, To
<1>4. CASE op = "approve"
  BY <1>4 DEF L!Next, L!Approve, From, To
<1>5. CASE op = "reject"
  BY <1>5 DEF L!Next, L!Reject, From, To
<1>6. CASE op = "approveBack"
  BY <1>6 DEF L!Next, L!ApproveBack, From, To
<1>7. CASE op = "remove"
  BY <1>7 DEF L!Next, L!Remove, From, To
<1> QED BY <1>1, <1>2, <1>3, <1>4, <1>5, <1>6, <1>7 DEF Writers

\* A request writes the row it has found.
LEMMA WriteStep ==
    ASSUME OrganizationInv, NEW h \in Handlers, NEW op \in Writers, NEW m \in DOMAIN member,
           At(h, op, "write"), req[h].seen = m,
           member' = SetStatus(m, To[op]), org' = org, End(h)
    PROVE  Step
<1>1. /\ req[h].op = op /\ req' = [req EXCEPT ![h] = Idle] /\ manner' = manner
      /\ To[op] \in MemberStatus
  BY DEF At, End, To, MemberStatus, Writers
<1>2. /\ OrganizationInv'
      /\ Apart => L!Change(member[m].account, member[m].org, From[op], To[op])
  BY <1>1, WriteKeeps
<1>3. member[m].account \in Accounts /\ member[m].org \in 1..MaxOrgs
  BY IdsAreNat DEF OrganizationInv, Tables, MemberRow
<1>4. Apart => L!Next
  BY <1>2, <1>3, Promised
<1> QED BY <1>2, <1>4 DEF Step, KeepsLifecycle, Apart

\* A request that has found row m arrives.
LEMMA FoundStep ==
    ASSUME OrganizationInv, NEW h \in Handlers, NEW op \in Writers, NEW m \in DOMAIN member,
           NEW by, NEW arg, member[m].status \in From[op],
           op = "join" => arg \in DOMAIN org /\ MembershipOf(m) = Membership(by, arg),
           Arrives(h, op, "write", by, MembershipOf(m), arg, m)
    PROVE  Step
<1> DEFINE r == [op |-> op, at |-> "write", by |-> by, on |-> MembershipOf(m),
                 arg |-> arg, seen |-> m]
<1>1. Begin(h, r) /\ UNCHANGED organizationVars
  BY DEF Arrives
<1>2. m # 0
  BY IdsAreNat DEF OrganizationInv
<1>3. Known(r) /\ Fresh(r) /\ Current(r)
  BY <1>2 DEF Known, Fresh, Current, Fields
<1> HIDE DEF r
<1> QED BY <1>1, <1>3, ArriveStep

LEMMA JoinStep ==
    ASSUME OrganizationInv, NEW h \in Handlers, NEW a \in Accounts, NEW o \in DOMAIN org,
           Join(h, a, o)
    PROVE  Step
<1>1. ASSUME NEW m \in FirstOf(RowsOf(a, o)),
             m # 0 => member[m].status \notin {"pending", "approved"},
             Arrives(h, "join", "write", a, Membership(a, o), o, m)
      PROVE  Step
  <2>1. CASE RowsOf(a, o) = {}
    <3> DEFINE r == [op |-> "join", at |-> "write", by |-> a, on |-> Membership(a, o),
                     arg |-> o, seen |-> 0]
    <3>1. Begin(h, r) /\ UNCHANGED organizationVars
      BY <1>1, <2>1 DEF Arrives, FirstOf
    <3>2. Known(r) /\ Fresh(r) /\ Current(r)
      BY <2>1 DEF Known, Fresh, Current, Fields
    <3> HIDE DEF r
    <3> QED BY <3>1, <3>2, ArriveStep
  <2>2. CASE RowsOf(a, o) # {}
    <3>1. m \in DOMAIN member /\ member[m].account = a /\ member[m].org = o
      BY <1>1, <2>2 DEF FirstOf, RowsOf
    <3>2. m # 0 /\ member[m].status \in MemberStatus
      BY <3>1, IdsAreNat DEF OrganizationInv, MemberRow
    <3>3. member[m].status \in From["join"]
      BY <1>1, <3>2 DEF From, MemberStatus
    <3>4. MembershipOf(m) = Membership(a, o)
      BY <3>1 DEF MembershipOf
    <3>5. "join" \in Writers
      BY DEF Writers
    <3> QED BY <1>1, <3>1, <3>3, <3>4, <3>5, FoundStep
  <2> QED BY <2>1, <2>2
<1>2. ASSUME JoinRow(h, a, o), req[h].seen # 0
      PROVE  Step
  <2>1. /\ At(h, "join", "write") /\ End(h) /\ org' = org
        /\ member' = SetStatus(req[h].seen, "pending")
    BY <1>2 DEF JoinRow
  <2>2. "join" \in Writers /\ To["join"] = "pending"
    BY DEF Writers, To
  <2>3. req[h].seen \in DOMAIN member
    BY <1>2, <2>1, <2>2 DEF OrganizationInv, Slots, Known, At
  <2> DEFINE m == req[h].seen
  <2>4. m \in DOMAIN member /\ req[h].seen = m /\ member' = SetStatus(m, To["join"])
    BY <2>1, <2>2, <2>3
  <2> HIDE DEF m
  <2> QED BY <2>1, <2>2, <2>4, WriteStep
<1>3. ASSUME JoinRow(h, a, o), req[h].seen = 0
      PROVE  Step
  <2>1. /\ req[h].op = "join" /\ req[h].by = a /\ req[h].arg = o /\ org' = org
        /\ req' = [req EXCEPT ![h] = Idle] /\ manner' = manner
        /\ member' = Insert(member, [account |-> a, org |-> o,
                                     status |-> "pending", roles |-> {}])
    BY <1>3 DEF JoinRow, At, End
  <2>2. Exclusive'
    BY <2>1, ExclusiveGoesOn, IdleKnown DEF OrganizationInv, Slots
  <2>3. /\ DOMAIN req' = Handlers /\ \A g \in Handlers : req'[g] \in {req[g], Idle}
        /\ req'[h] = Idle /\ \A g \in Handlers \ {h} : req'[g] = req[g]
    BY <2>1 DEF OrganizationInv, Slots
  <2>4. manner # "any" => RowsOf(a, o) = {}
    BY <1>3, <2>1 DEF OrganizationInv, Slots, Fresh
  <2>5. ASSUME manner # "any", NEW g \in Handlers, req'[g].op = "join"
        PROVE  req'[g].by # a \/ req'[g].arg # o
    <3> SUFFICES ASSUME req'[g].by = a, req'[g].arg = o PROVE FALSE
      OBVIOUS
    <3>1. g # h /\ req'[g] = req[g]
      BY <2>3, <2>5, IdleKnown
    <3>2. /\ Known(req[g]) /\ Known(req[h]) /\ Busy(g) /\ Busy(h)
          /\ req[g].by = req[h].by /\ req[g].on = Membership(a, o)
          /\ req[h].on = Membership(a, o)
      BY <2>1, <2>5, <3>1 DEF OrganizationInv, Slots, Known, Busy
    <3>3. ~ Waits(req[g], req[h]) /\ manner \in {"client", "subject", "serial"}
      BY <2>5, <3>1, <3>2 DEF OrganizationInv, Exclusive, Manners
    <3>4. req[g].on \cap req[h].on # {}
      BY <3>2 DEF Membership
    <3> QED BY <3>2, <3>3, <3>4 DEF Waits
  <2>6. /\ org' \in [DOMAIN org' -> OrgRow] /\ DOMAIN org' = DOMAIN org
        /\ DOMAIN org' = 1..Cardinality(DOMAIN org') /\ IsFiniteSet(DOMAIN org')
        /\ DOMAIN org' \subseteq 1..MaxOrgs /\ o \in DOMAIN org'
    BY <2>1 DEF OrganizationInv, Tables, OrganizationTypeOK
  <2>7. "pending" \in MemberStatus /\ {} \in SUBSET MemberRole
    BY DEF MemberStatus
  <2>8. OrganizationInv' /\ (Apart => L!Change(a, o, {"none"}, "pending"))
    BY <2>1, <2>2, <2>3, <2>4, <2>5, <2>6, <2>7, InsertKeeps
  <2>9. Apart => L!Next
    BY <2>6, <2>8 DEF L!Next, L!Join, L!Change
  <2> QED BY <2>8, <2>9 DEF Step, KeepsLifecycle, Apart
<1> QED BY <1>1, <1>2, <1>3 DEF Join

\* cancel and leave.
LEMMA FromOwnStep ==
    ASSUME OrganizationInv, NEW h \in Handlers, NEW op \in {"cancel", "leave"},
           NEW a, NEW o, NEW st, From[op] = {st},
           FromOwn(h, op, a, o, st, To[op])
    PROVE  Step
<1>1. op \in Writers /\ op # "join"
  BY DEF Writers
<1>2. ASSUME NEW m \in With(RowsOf(a, o), st),
             Arrives(h, op, "write", a, Membership(a, o), o, m)
      PROVE  Step
  <2>1. m \in DOMAIN member /\ member[m].status \in From[op] /\ MembershipOf(m) = Membership(a, o)
    BY <1>2 DEF With, RowsOf, MembershipOf
  <2> QED BY <1>1, <1>2, <2>1, FoundStep
<1>3. ASSUME NEW m \in RowsOf(a, o), Write(h, op, m, To[op])
      PROVE  Step
  <2>1. m \in DOMAIN member
    BY DEF RowsOf
  <2>2. At(h, op, "write") /\ req[h].seen = m /\ member' = SetStatus(m, To[op])
        /\ org' = org /\ End(h)
    BY <1>3 DEF Write
  <2> QED BY <1>1, <2>1, <2>2, WriteStep
<1> QED BY <1>2, <1>3 DEF FromOwn

\* approve, reject, approveBack and remove.
LEMMA ByIdStep ==
    ASSUME OrganizationInv, NEW h \in Handlers,
           NEW op \in {"approve", "reject", "approveBack", "remove"},
           NEW m \in DOMAIN member, NEW from \in SUBSET From[op],
           ById(h, op, m, from, To[op])
    PROVE  Step
<1>1. op \in Writers /\ op # "join"
  BY DEF Writers
<1>2. CASE member[m].status \in from /\ Arrives(h, op, "write", 0, MembershipOf(m), m, m)
  BY <1>1, <1>2, FoundStep
<1>3. CASE Write(h, op, m, To[op])
  <2>1. At(h, op, "write") /\ req[h].seen = m /\ member' = SetStatus(m, To[op])
        /\ org' = org /\ End(h)
    BY <1>3 DEF Write
  <2> QED BY <1>1, <2>1, WriteStep
<1> QED BY <1>2, <1>3 DEF ById

LEMMA StatusSteps ==
    ASSUME OrganizationInv, NEW h \in Handlers
    PROVE  /\ \A a \in Accounts, o \in DOMAIN org : Cancel(h, a, o) \/ Leave(h, a, o) => Step
           /\ \A m \in DOMAIN member, o \in DOMAIN org :
                Approve(h, o, m) \/ Reject(h, o, m) => Step
           /\ \A m \in DOMAIN member : ApproveBack(h, m) \/ Remove(h, m) => Step
<1>1. ASSUME NEW a, NEW o, Cancel(h, a, o) PROVE Step
  <2>1. From["cancel"] = {"pending"} /\ To["cancel"] = "cancelled"
    BY DEF From, To
  <2> QED BY <1>1, <2>1, FromOwnStep DEF Cancel
<1>2. ASSUME NEW a, NEW o, Leave(h, a, o) PROVE Step
  <2>1. From["leave"] = {"approved"} /\ To["leave"] = "left"
    BY DEF From, To
  <2> QED BY <1>2, <2>1, FromOwnStep DEF Leave
<1>3. ASSUME NEW m \in DOMAIN member, NEW o, Approve(h, o, m) PROVE Step
  <2>1. Pending(o) \in SUBSET From["approve"] /\ To["approve"] = "approved"
    BY DEF From, To, Pending
  <2> QED BY <1>3, <2>1, ByIdStep DEF Approve
<1>4. ASSUME NEW m \in DOMAIN member, NEW o, Reject(h, o, m) PROVE Step
  <2>1. Pending(o) \in SUBSET From["reject"] /\ To["reject"] = "rejected"
    BY DEF From, To, Pending
  <2> QED BY <1>4, <2>1, ByIdStep DEF Reject
<1>5. ASSUME NEW m \in DOMAIN member, ApproveBack(h, m) PROVE Step
  <2>1. {"rejected", "removed"} \in SUBSET From["approveBack"] /\ To["approveBack"] = "approved"
    BY DEF From, To
  <2> QED BY <1>5, <2>1, ByIdStep DEF ApproveBack
<1>6. ASSUME NEW m \in DOMAIN member, Remove(h, m) PROVE Step
  <2>1. {"approved"} \in SUBSET From["remove"] /\ To["remove"] = "removed"
    BY DEF From, To
  <2> QED BY <1>6, <2>1, ByIdStep DEF Remove
<1> QED BY <1>1, <1>2, <1>3, <1>4, <1>5, <1>6

\* A request about roles arrives.
LEMMA RolesArrive ==
    ASSUME OrganizationInv, NEW h \in Handlers, NEW op, op \notin Writers,
           NEW at, NEW a, NEW on, NEW arg, NEW seen, Arrives(h, op, at, a, on, arg, seen)
    PROVE  Step
<1> DEFINE r == [op |-> op, at |-> at, by |-> a, on |-> on, arg |-> arg, seen |-> seen]
<1>1. Begin(h, r) /\ UNCHANGED organizationVars
  BY DEF Arrives
<1>2. r.op \notin Writers /\ DOMAIN r = Fields
  BY DEF Fields
<1> HIDE DEF r
<1> QED BY <1>1, <1>2, OtherKnown, ArriveStep

\* A request ends with other roles in some rows, and another owner perhaps.
LEMMA RolesStep ==
    ASSUME OrganizationInv, NEW h \in Handlers, End(h),
           org' \in [DOMAIN org -> OrgRow], member' \in [DOMAIN member -> MemberRow],
           \A m \in DOMAIN member : /\ member'[m].account = member[m].account
                                    /\ member'[m].org = member[m].org
                                    /\ member'[m].status = member[m].status
    PROVE  Step
<1>1. req' = [req EXCEPT ![h] = Idle] /\ manner' = manner
  BY DEF End
<1>2. Idle.op = "idle" /\ Idle.op \notin Writers /\ DOMAIN Idle = Fields
  BY IdleKnown DEF Writers, Known
<1> QED BY <1>1, <1>2, OtherStep

\* What the roles of a row are replaced by.
LEMMA RolesType ==
    ASSUME NEW table \in [DOMAIN member -> MemberRow], NEW m, NEW gone, NEW new \in MemberRole
    PROVE  /\ SetRoles(table, m, gone, new) \in [DOMAIN member -> MemberRow]
           /\ \A n \in DOMAIN member :
                /\ SetRoles(table, m, gone, new)[n].account = table[n].account
                /\ SetRoles(table, m, gone, new)[n].org = table[n].org
                /\ SetRoles(table, m, gone, new)[n].status = table[n].status
BY DEF SetRoles, MemberRow

LEMMA TablesType ==
    ASSUME OrganizationInv
    PROVE  org \in [DOMAIN org -> OrgRow] /\ member \in [DOMAIN member -> MemberRow]
BY DEF OrganizationInv, Tables, OrganizationTypeOK

LEMMA MayGrantStep ==
    ASSUME OrganizationInv, NEW h \in Handlers, NEW op \in {"grant", "revoke"},
           NEW a, NEW m, NEW r, MayGrant(h, op, a, m, r) \/ Target(h, op, a, m, r)
    PROVE  Step
<1>1. op \notin Writers
  BY DEF Writers
<1>2. CASE \E g \in With(RowsOf(a, member[m].org), "approved") :
              Arrives(h, op, "roles", a, MembershipOf(m), <<m, r>>, g)
  BY <1>1, <1>2, RolesArrive
<1>3. CASE /\ At(h, op, "roles") \/ At(h, op, "target")
           /\ UNCHANGED organizationVars
           /\ Goto(h, "target", 0) \/ Goto(h, "change", 0) \/ End(h)
  BY <1>1, <1>3, GoesOnStep DEF At
<1> QED BY <1>2, <1>3 DEF MayGrant, Target

LEMMA GrantSteps ==
    ASSUME OrganizationInv, NEW h \in Handlers, NEW a \in Accounts, NEW m \in DOMAIN member,
           NEW r \in Granted, GrantRole(h, a, m, r) \/ RevokeRole(h, a, m, r)
    PROVE  Step
<1>1. r \in MemberRole
  BY GrantedAssumption DEF MemberRole
<1>2. "grant" \notin Writers
  BY DEF Writers
<1>3. CASE MayGrant(h, "grant", a, m, r) \/ Target(h, "grant", a, m, r)
           \/ MayGrant(h, "revoke", a, m, r) \/ Target(h, "revoke", a, m, r)
  BY <1>3, MayGrantStep
<1>4. CASE /\ At(h, "grant", "change") /\ UNCHANGED organizationVars
           /\ Goto(h, "commit", member[m].roles)
  <2>1. req[h].op = "grant"
    BY <1>4 DEF At
  <2> QED BY <1>2, <1>4, <2>1, GoesOnStep
<1>5. CASE /\ member' = SetRoles(member, m, req[h].seen, r) \/ UNCHANGED member
           /\ UNCHANGED org /\ End(h)
  BY <1>1, <1>5, TablesType, RolesType, RolesStep
<1>6. CASE /\ member' = [member EXCEPT ![m].roles = @ \ {r}]
           /\ UNCHANGED org /\ End(h)
  <2>1. /\ member' \in [DOMAIN member -> MemberRow]
        /\ \A n \in DOMAIN member : /\ member'[n].account = member[n].account
                                    /\ member'[n].org = member[n].org
                                    /\ member'[n].status = member[n].status
    BY <1>6, TablesType DEF MemberRow
  <2> QED BY <1>6, <2>1, TablesType, RolesStep
<1> QED BY <1>3, <1>4, <1>5, <1>6 DEF GrantRole, RevokeRole

LEMMA TransferStep ==
    ASSUME OrganizationInv, NEW h \in Handlers, NEW a \in Accounts, NEW o \in DOMAIN org,
           NEW m \in DOMAIN member, TransferOwnership(h, a, o, m)
    PROVE  Step
<1>1. "transfer" \notin Writers
  BY DEF Writers
<1>2. CASE Arrives(h, "transfer", "owner", a,
                   Of(o) \cup Membership(a, o) \cup MembershipOf(m), <<o, m>>, 0)
  BY <1>1, <1>2, RolesArrive
<1>3. ASSUME NEW at, NEW seen, req[h].op = "transfer", UNCHANGED organizationVars,
             Goto(h, at, seen) \/ End(h)
      PROVE  Step
  BY <1>1, <1>3, GoesOnStep
<1>4. CASE TransferCommit(h, a, o, m)
  <2> DEFINE w == req[h].seen
             t == SetRoles(member, w.row, w.gone, "manager")
  <2>1. CASE /\ member' = SetRoles(t, m, w.of, "owner")
             /\ org' = HandOver(a, o, m) /\ End(h)
    <3>1. /\ t \in [DOMAIN member -> MemberRow]
          /\ \A n \in DOMAIN member : /\ t[n].account = member[n].account
                                      /\ t[n].org = member[n].org
                                      /\ t[n].status = member[n].status
      BY TablesType, RolesType DEF MemberRole
    <3>2. /\ member' \in [DOMAIN member -> MemberRow]
          /\ \A n \in DOMAIN member : /\ member'[n].account = t[n].account
                                      /\ member'[n].org = t[n].org
                                      /\ member'[n].status = t[n].status
      <4> HIDE DEF t, w
      <4>1. "owner" \in MemberRole
        BY DEF MemberRole
      <4>2. member' = SetRoles(t, m, w.of, "owner")
        BY <2>1
      <4> QED BY <3>1, <4>1, <4>2, RolesType
    <3>3. member[m].account \in Accounts
      BY TablesType DEF MemberRow
    <3>4. org' \in [DOMAIN org -> OrgRow]
      BY <2>1, <3>3, TablesType DEF OrgRow, HandOver
    <3> HIDE DEF t
    <3> QED BY <2>1, <3>1, <3>2, <3>4, RolesStep
  <2>2. CASE UNCHANGED organizationVars /\ End(h)
    BY <1>3, <1>4, <2>2 DEF TransferCommit, At
  <2> QED BY <1>4, <2>1, <2>2 DEF TransferCommit
<1>5. CASE /\ At(h, "transfer", "owner") /\ UNCHANGED organizationVars
           /\ (\E w \in DOMAIN member : Goto(h, "clear", [row |-> w, gone |-> {}, of |-> {}]))
                \/ End(h)
  <2>1. req[h].op = "transfer"
    BY <1>5 DEF At
  <2> QED BY <1>3, <1>5, <2>1
<1>6. CASE /\ At(h, "transfer", "clear") /\ UNCHANGED organizationVars
           /\ \E seen : Goto(h, "commit", seen)
  <2>1. req[h].op = "transfer"
    BY <1>6 DEF At
  <2> QED BY <1>3, <1>6, <2>1
<1> QED
  BY <1>2, <1>4, <1>5, <1>6 DEF TransferOwnership, TransferRead, With, RowsOf

\* An abort of any request.
LEMMA AbortStep ==
    ASSUME OrganizationInv, NEW h \in Handlers, Abort(h), UNCHANGED organizationVars
    PROVE  Step
<1>1. req' = [req EXCEPT ![h] = Idle] /\ manner' = manner /\ org' = org /\ member' = member
  BY DEF Abort, organizationVars
<1>2. Idle.op = "idle" /\ Idle.op \notin Writers /\ DOMAIN Idle = Fields
  BY IdleKnown DEF Writers, Known
<1> QED BY <1>1, <1>2, TablesType, OtherStep

LEMMA OrganizationInvInit == RequestsInit /\ OrganizationInit => OrganizationInv /\ L!Init
<1> SUFFICES ASSUME RequestsInit, OrganizationInit PROVE OrganizationInv /\ L!Init
  OBVIOUS
<1>1. DOMAIN org = {} /\ DOMAIN member = {} /\ Cardinality({}) = 0 /\ IsFiniteSet({})
  BY FS_EmptySet DEF OrganizationInit
<1>2. Tables
  <2>1. org \in [DOMAIN org -> OrgRow] /\ member \in [DOMAIN member -> MemberRow]
    BY <1>1 DEF OrganizationInit
  <2>2. {} = 1..0
    OBVIOUS
  <2> QED BY <1>1, <2>1, <2>2 DEF Tables, OrganizationTypeOK
<1>3. Slots
  BY IdleKnown DEF RequestsInit, Slots
<1>4. Exclusive
  BY IdleKnown DEF RequestsInit, Exclusive, Busy
<1>5. OneRow
  BY <1>1 DEF OneRow
<1>6. L!Init
  BY <1>1 DEF L!Init, Standing, RowsOf
<1> QED BY <1>2, <1>3, <1>4, <1>5, <1>6 DEF OrganizationInv, RequestsInit

LEMMA OrganizationInvStep ==
    OrganizationInv /\ [OrganizationNext]_organizationAllVars
        => OrganizationInv' /\ [KeepsLifecycle]_organizationAllVars
<1> SUFFICES ASSUME OrganizationInv, [OrganizationNext]_organizationAllVars
             PROVE  OrganizationInv' /\ [KeepsLifecycle]_organizationAllVars
  OBVIOUS
<1>1. CASE UNCHANGED organizationAllVars
  <2>1. UNCHANGED <<req, manner, org, member>>
    BY <1>1 DEF organizationAllVars, requestVars, organizationVars
  <2> QED
    BY <1>1, <2>1 DEF OrganizationInv, Tables, Slots, Exclusive, OneRow, OrganizationTypeOK,
                      MemberRow, Known, Fresh, Current, Apart, RowsOf, MembershipOf,
                      Membership, Busy, Waits
<1>2. ASSUME NEW h \in Handlers, NEW m \in DOMAIN member, OfMember(h, m) PROVE Step
  BY <1>2, StatusSteps, GrantSteps DEF OfMember
<1>3. ASSUME NEW h \in Handlers, NEW a \in Accounts, NEW o \in DOMAIN org, OfAccount(h, a, o)
      PROVE  Step
  BY <1>3, StatusSteps, JoinStep, TransferStep DEF OfAccount
<1>4. CASE OrganizationNext
  <2>1. Step
    BY <1>2, <1>3, <1>4, CreateStep, UpdateStatusStep, AbortStep DEF OrganizationNext
  <2> QED BY <2>1 DEF Step
<1> QED BY <1>1, <1>4

-----------------------------------------------------------------------------
(* Who governs an organization. *)

\* A transfer in flight is between two rows of its organization, the first of which is one
\* of the account that asked for it, and takes the role of the owner from that if it has it.
Handing(q) ==
    q.op = "transfer" =>
        LET o == q.arg[1]  m == q.arg[2]  w == q.seen
        IN  /\ o \in DOMAIN org /\ <<"org", o>> \in q.on
            /\ m \in DOMAIN member /\ member[m].org = o
            /\ q.at \in {"clear", "commit"} =>
                  /\ DOMAIN w = {"row", "gone", "of"} /\ w.row \in DOMAIN member \ {m}
                  /\ member[w.row].account = q.by /\ member[w.row].org = o
            /\ q.at = "commit" /\ "owner" \in member[w.row].roles => "owner" \in w.gone

\* A decision in flight is about an organization that is still pending, a join about one
\* that is still verified.
Settling(q) ==
    /\ q.op = "status" =>
          LET o == q.arg[1]
          IN  o \in DOMAIN org /\ org[o].status = "pending" /\ <<"org", o>> \in q.on
    /\ q.op = "join" => q.arg \in DOMAIN org /\ Verified(q.arg)

Governing(q) ==
    Apart => Handing(q) /\ Settling(q)

GovernanceInv ==
    /\ OwnerRoleIsOwners /\ MembersOfVerified
    /\ \A h \in Handlers : Governing(req[h])

\* A step leaves the organizations there are as they are; rows keep whose they are, and
\* none comes to the role of the owner but that of an organization that is founded.
Governed ==
    /\ Kept
    /\ \A o \in DOMAIN org : org'[o] = org[o]
    /\ \A m \in DOMAIN member :
          "owner" \in member'[m].roles => "owner" \in member[m].roles
    /\ \A m \in DOMAIN member' \ DOMAIN member :
          /\ "owner" \in member'[m].roles
                => org'[member'[m].org].owner = member'[m].account
          /\ Apart => \/ member'[m].account = org'[member'[m].org].founder
                      \/ org'[member'[m].org].status = "verified"

\* What is known of requests in flight stays known.
LEMMA GoverningKept ==
    ASSUME Governed, UNCHANGED manner, NEW q, Governing(q)
    PROVE  Governing(q)'
<1>1. Apart => Handing(q)'
  BY DEF Governed, Kept, Governing, Handing
<1>2. Apart => Settling(q)'
  BY DEF Governed, Kept, Governing, Settling, Verified
<1> QED BY <1>1, <1>2 DEF Governing, Apart

LEMMA GovernedKeeps ==
    ASSUME OrganizationInv, GovernanceInv, Governed, UNCHANGED manner,
           NEW h \in Handlers, NEW r, Governing(r), req' = [req EXCEPT ![h] = r] \/ UNCHANGED req
    PROVE  GovernanceInv'
<1>1. \A g \in Handlers : req'[g] = req[g] \/ req'[g] = r
  BY DEF OrganizationInv, Slots
<1>2. \A g \in Handlers : Governing(req[g])'
  BY <1>1, GoverningKept DEF GovernanceInv
<1>3. \A m \in DOMAIN member : member[m].org \in DOMAIN org
  BY IdsAreNat DEF OrganizationInv, MemberRow
<1>4. OwnerRoleIsOwners'
  <2> SUFFICES ASSUME Apart, NEW m \in DOMAIN member', "owner" \in member'[m].roles
               PROVE  LET o == member'[m].org
                      IN  member'[m].account \in {org'[o].owner} \cup org'[o].displaced
    BY DEF OwnerRoleIsOwners, Apart
  <2>1. CASE m \in DOMAIN member
    BY <1>3, <2>1 DEF Governed, Kept, GovernanceInv, OwnerRoleIsOwners, Apart
  <2>2. CASE m \notin DOMAIN member
    BY <2>2 DEF Governed
  <2> QED BY <2>1, <2>2
<1>5. MembersOfVerified'
  <2> SUFFICES ASSUME Apart, NEW m \in DOMAIN member',
                      member'[m].account # org'[member'[m].org].founder
               PROVE  org'[member'[m].org].status = "verified"
    BY DEF MembersOfVerified, Verified, Apart
  <2>1. CASE m \in DOMAIN member
    BY <1>3, <2>1 DEF Governed, Kept, GovernanceInv, MembersOfVerified, Verified, Apart
  <2>2. CASE m \notin DOMAIN member
    BY <2>2 DEF Governed
  <2> QED BY <2>1, <2>2
<1> QED BY <1>2, <1>4, <1>5 DEF GovernanceInv

LEMMA PlainGoverns ==
    /\ \A q : q.op \notin {"transfer", "status", "join"} => Governing(q)
    /\ Governing(Idle)
BY IdleKnown DEF Governing, Handing, Settling, Idle

LEMMA UnchangedGoverned == UNCHANGED organizationVars => Governed
BY DEF organizationVars, Governed, Kept

\* A step of a request about neither the owner nor the organization, which ends or goes on.
LEMMA PlainStep ==
    ASSUME OrganizationInv, GovernanceInv, Governed, NEW h \in Handlers, NEW at, NEW seen,
           \/ End(h) \/ Abort(h)
           \/ Goto(h, at, seen) /\ req[h].op \notin {"transfer", "status", "join"}
    PROVE  GovernanceInv'
<1>1. CASE End(h) \/ Abort(h)
  BY <1>1, PlainGoverns, GovernedKeeps DEF End, Abort
<1>2. CASE Goto(h, at, seen) /\ req[h].op \notin {"transfer", "status", "join"}
  <2> DEFINE r == [req[h] EXCEPT !.at = at, !.seen = seen]
  <2>1. DOMAIN req[h] = Fields
    BY DEF OrganizationInv, Slots, Known
  <2>2. req' = [req EXCEPT ![h] = r] /\ manner' = manner /\ r.op = req[h].op
    BY <1>2, <2>1 DEF Goto, OrganizationInv, Slots, Fields
  <2> HIDE DEF r
  <2>3. Governing(r)
    BY <1>2, <2>2, PlainGoverns
  <2> QED BY <2>2, <2>3, GovernedKeeps
<1> QED BY <1>1, <1>2

LEMMA ArriveGoverns ==
    ASSUME OrganizationInv, GovernanceInv, NEW h \in Handlers, NEW op, NEW at, NEW a, NEW on,
           NEW arg, NEW seen, Arrives(h, op, at, a, on, arg, seen),
           Governing([op |-> op, at |-> at, by |-> a, on |-> on, arg |-> arg, seen |-> seen])
    PROVE  GovernanceInv'
<1>1. Governed /\ manner' = manner
  BY UnchangedGoverned DEF Arrives, Begin
<1> QED BY <1>1, GovernedKeeps DEF Arrives, Begin

LEMMA PlainArrives ==
    ASSUME OrganizationInv, GovernanceInv, NEW h \in Handlers,
           NEW op, op \notin {"transfer", "status", "join"}, NEW at, NEW a, NEW on,
           NEW arg, NEW seen, Arrives(h, op, at, a, on, arg, seen)
    PROVE  GovernanceInv'
BY ArriveGoverns, PlainGoverns

\* Whoever founds an organization is its owner, and its first member.
LEMMA CreateGoverns ==
    ASSUME OrganizationInv, GovernanceInv, NEW h \in Handlers, NEW a \in Accounts, Create(h, a)
    PROVE  GovernanceInv'
<1> DEFINE orgRow == [owner |-> a, status |-> "pending", founder |-> a, displaced |-> {}]
           row == [account |-> a, org |-> NextId(org), status |-> "approved", roles |-> {"owner"}]
<1>1. /\ DOMAIN org = 1..Cardinality(DOMAIN org) /\ Cardinality(DOMAIN org) \in Nat
      /\ DOMAIN member = 1..Cardinality(DOMAIN member) /\ Cardinality(DOMAIN member) \in Nat
  BY FS_CardinalityType DEF OrganizationInv, Tables, OrganizationTypeOK
<1>2. org' = Insert(org, orgRow) /\ member' = Insert(member, row) /\ UNCHANGED <<req, manner>>
  BY DEF Create, requestVars
<1>3. /\ DOMAIN org' = DOMAIN org \cup {NextId(org)} /\ org'[NextId(org)] = orgRow
      /\ \A o \in DOMAIN org : org'[o] = org[o]
  <2> DEFINE T == Insert(org, orgRow)
  <2> HIDE DEF orgRow
  <2>1. /\ DOMAIN T = DOMAIN org \cup {NextId(org)} /\ T[NextId(org)] = orgRow
        /\ \A o \in DOMAIN org : T[o] = org[o]
    BY <1>1, InsertRow
  <2>2. org' = T
    BY <1>2
  <2> HIDE DEF T
  <2> QED BY <2>1, <2>2
<1>4. /\ DOMAIN member' = DOMAIN member \cup {NextId(member)} /\ member'[NextId(member)] = row
      /\ \A m \in DOMAIN member : member'[m] = member[m]
  <2> DEFINE T == Insert(member, row)
  <2> HIDE DEF row
  <2>1. /\ DOMAIN T = DOMAIN member \cup {NextId(member)} /\ T[NextId(member)] = row
        /\ \A m \in DOMAIN member : T[m] = member[m]
    BY <1>1, InsertRow
  <2>2. member' = T
    BY <1>2
  <2> HIDE DEF T
  <2> QED BY <2>1, <2>2
<1>5. Governed
  BY <1>3, <1>4 DEF Governed, Kept
<1> QED BY <1>2, <1>5, PlainGoverns, GovernedKeeps

\* A decision is about an organization that is pending, so that none but its founder is in.
LEMMA UpdateStatusGoverns ==
    ASSUME OrganizationInv, GovernanceInv, NEW h \in Handlers, NEW o \in DOMAIN org,
           NEW st, UpdateStatus(h, o, st)
    PROVE  GovernanceInv'
<1>1. CASE org[o].status = "pending" /\ Arrives(h, "status", "write", 0, Of(o), <<o, st>>, 0)
  <2>1. Governing([op |-> "status", at |-> "write", by |-> 0, on |-> Of(o),
                   arg |-> <<o, st>>, seen |-> 0])
    BY <1>1 DEF Governing, Handing, Settling, Of
  <2> QED BY <1>1, <2>1, ArriveGoverns
<1>2. CASE /\ At(h, "status", "write") /\ req[h].arg = <<o, st>>
           /\ org' = [org EXCEPT ![o].status = st] /\ UNCHANGED member /\ End(h)
  <2>1. /\ DOMAIN org' = DOMAIN org
        /\ \A p \in DOMAIN org : /\ org'[p].owner = org[p].owner
                                 /\ org'[p].founder = org[p].founder
                                 /\ org'[p].displaced = org[p].displaced
        /\ \A p \in DOMAIN org \ {o} : org'[p] = org[p]
    BY <1>2, TablesType DEF OrgRow
  <2>2. /\ manner' = manner /\ req'[h] = Idle
        /\ \A g \in Handlers \ {h} : req'[g] = req[g]
    BY <1>2 DEF End, OrganizationInv, Slots
  <2>3. \A m \in DOMAIN member : member[m].org \in DOMAIN org
    BY TablesType DEF MemberRow
  <2>4. Apart => org[o].status = "pending" /\ <<"org", o>> \in req[h].on
    BY <1>2 DEF GovernanceInv, Governing, Settling, At
  <2>5. OwnerRoleIsOwners'
    BY <1>2, <2>1, <2>2, <2>3 DEF GovernanceInv, OwnerRoleIsOwners
  <2>6. MembersOfVerified'
    BY <1>2, <2>1, <2>2, <2>3, <2>4 DEF GovernanceInv, MembersOfVerified, Verified, Apart
  <2>7. ASSUME NEW g \in Handlers \ {h} PROVE Governing(req[g])'
    <3>1. Apart => Handing(req[g])'
      BY <1>2, <2>1, <2>2 DEF GovernanceInv, Governing, Handing
    <3>2. ASSUME Apart PROVE Settling(req[g])'
      <4>1. Settling(req[g])
        BY <3>2 DEF GovernanceInv, Governing
      <4>2. ~ (req[g].op = "status" /\ req[g].arg[1] = o)
        <5> SUFFICES ASSUME req[g].op = "status", req[g].arg[1] = o PROVE FALSE
          OBVIOUS
        <5>1. <<"org", o>> \in req[g].on /\ Busy(g) /\ Busy(h)
          BY <1>2, <4>1 DEF Settling, Busy, At
        <5>2. Exclusive
          BY DEF OrganizationInv
        <5> QED BY <2>4, <3>2, <5>1, <5>2, OneInFlight
      <4>3. req[g].op = "join" => req[g].arg # o
        BY <2>4, <3>2, <4>1 DEF Settling, Verified
      <4> QED BY <2>1, <2>2, <4>1, <4>2, <4>3 DEF Settling, Verified
    <3> QED BY <2>2, <3>1, <3>2 DEF Governing, Apart
  <2>8. Governing(req[h])'
    <3>1. req'[h].op = "idle"
      BY <2>2, IdleKnown
    <3> QED BY <3>1 DEF Governing, Handing, Settling
  <2> QED BY <2>5, <2>6, <2>7, <2>8 DEF GovernanceInv
<1> QED BY <1>1, <1>2 DEF UpdateStatus

\* A request writes the status of a row: no more than that.
LEMMA SetStatusGoverned ==
    ASSUME OrganizationInv, NEW m, NEW st, member' = SetStatus(m, st), org' = org
    PROVE  Governed
BY TablesType DEF SetStatus, MemberRow, Governed, Kept

LEMMA WriteGoverns ==
    ASSUME OrganizationInv, GovernanceInv, NEW h \in Handlers, NEW m, NEW st,
           member' = SetStatus(m, st), org' = org, End(h)
    PROVE  GovernanceInv'
BY SetStatusGoverned, PlainStep

\* A join is for an organization that is verified, and stays so.
LEMMA JoinGoverns ==
    ASSUME OrganizationInv, GovernanceInv, NEW h \in Handlers, NEW a \in Accounts,
           NEW o \in DOMAIN org, Join(h, a, o)
    PROVE  GovernanceInv'
<1>1. ASSUME NEW m, Verified(o), Arrives(h, "join", "write", a, Membership(a, o), o, m)
      PROVE  GovernanceInv'
  <2>1. Governing([op |-> "join", at |-> "write", by |-> a, on |-> Membership(a, o),
                   arg |-> o, seen |-> m])
    BY <1>1 DEF Governing, Handing, Settling
  <2> QED BY <1>1, <2>1, ArriveGoverns
<1>2. CASE JoinRow(h, a, o) /\ req[h].seen # 0
  BY <1>2, WriteGoverns DEF JoinRow
<1>3. CASE JoinRow(h, a, o) /\ req[h].seen = 0
  <2> DEFINE row == [account |-> a, org |-> o, status |-> "pending", roles |-> {}]
  <2>1. member' = Insert(member, row) /\ org' = org /\ End(h)
        /\ req[h].op = "join" /\ req[h].arg = o
    BY <1>3 DEF JoinRow, At
  <2>2. DOMAIN member = 1..Cardinality(DOMAIN member) /\ Cardinality(DOMAIN member) \in Nat
    BY FS_CardinalityType DEF OrganizationInv, Tables, OrganizationTypeOK
  <2>3. /\ DOMAIN member' = DOMAIN member \cup {NextId(member)} /\ member'[NextId(member)] = row
        /\ \A m \in DOMAIN member : member'[m] = member[m]
    <3> DEFINE T == Insert(member, row)
    <3> HIDE DEF row
    <3>1. /\ DOMAIN T = DOMAIN member \cup {NextId(member)} /\ T[NextId(member)] = row
          /\ \A m \in DOMAIN member : T[m] = member[m]
      BY <2>2, InsertRow
    <3>2. member' = T
      BY <2>1
    <3> HIDE DEF T
    <3> QED BY <3>1, <3>2
  <2>4. Apart => Verified(o)
    BY <2>1 DEF GovernanceInv, Governing, Settling
  <2>5. /\ member'[NextId(member)].org = o /\ member'[NextId(member)].roles = {}
        /\ \A m \in DOMAIN member' \ DOMAIN member : m = NextId(member)
    BY <2>3
  <2> HIDE DEF row
  <2>6. Governed
    BY <2>1, <2>3, <2>4, <2>5 DEF Governed, Kept, Verified
  <2> QED BY <2>1, <2>6, PlainStep
<1> QED BY <1>1, <1>2, <1>3 DEF Join

LEMMA StatusGoverns ==
    ASSUME OrganizationInv, GovernanceInv, NEW h \in Handlers
    PROVE  /\ \A a \in Accounts, o \in DOMAIN org :
                Cancel(h, a, o) \/ Leave(h, a, o) => GovernanceInv'
           /\ \A m \in DOMAIN member, o \in DOMAIN org :
                Approve(h, o, m) \/ Reject(h, o, m) => GovernanceInv'
           /\ \A m \in DOMAIN member : ApproveBack(h, m) \/ Remove(h, m) => GovernanceInv'
<1>1. ASSUME NEW op \in {"cancel", "leave"}, NEW a, NEW o, NEW from, NEW to,
             FromOwn(h, op, a, o, from, to)
      PROVE  GovernanceInv'
  BY <1>1, PlainArrives, WriteGoverns DEF FromOwn, Write
<1>2. ASSUME NEW op \in {"approve", "reject", "approveBack", "remove"}, NEW m, NEW from, NEW to,
             ById(h, op, m, from, to)
      PROVE  GovernanceInv'
  BY <1>2, PlainArrives, WriteGoverns DEF ById, Write
<1> QED BY <1>1, <1>2 DEF Cancel, Leave, Approve, Reject, ApproveBack, Remove

\* A grant or a revocation takes roles away, and gives one that is not the owner's.
LEMMA RolesGoverned ==
    ASSUME OrganizationInv, NEW m, NEW r \in Granted, org' = org,
           \/ \E gone : member' = SetRoles(member, m, gone, r)
           \/ member' = [member EXCEPT ![m].roles = @ \ {r}]
           \/ member' = member
    PROVE  Governed
<1>1. r # "owner"
  BY GrantedAssumption
<1>2. CASE \E gone : member' = SetRoles(member, m, gone, r)
  BY <1>1, <1>2, TablesType DEF SetRoles, MemberRow, Governed, Kept
<1>3. CASE member' = [member EXCEPT ![m].roles = @ \ {r}]
  BY <1>3, TablesType DEF MemberRow, Governed, Kept
<1>4. CASE member' = member
  BY <1>4 DEF Governed, Kept
<1> QED BY <1>2, <1>3, <1>4

LEMMA GrantGoverns ==
    ASSUME OrganizationInv, GovernanceInv, NEW h \in Handlers, NEW a, NEW m,
           NEW r \in Granted, GrantRole(h, a, m, r) \/ RevokeRole(h, a, m, r)
    PROVE  GovernanceInv'
<1>1. ASSUME NEW op \in {"grant", "revoke"}, MayGrant(h, op, a, m, r) \/ Target(h, op, a, m, r)
      PROVE  GovernanceInv'
  <2>1. ASSUME NEW g, Arrives(h, op, "roles", a, MembershipOf(m), <<m, r>>, g)
        PROVE  GovernanceInv'
    BY <2>1, PlainArrives
  <2>2. ASSUME NEW at, Goto(h, at, 0) \/ End(h), req[h].op = op, UNCHANGED organizationVars
        PROVE  GovernanceInv'
    BY <2>2, UnchangedGoverned, PlainStep
  <2> QED BY <1>1, <2>1, <2>2 DEF MayGrant, Target, At
<1>2. ASSUME req[h].op = "grant", UNCHANGED organizationVars,
             Goto(h, "commit", member[m].roles)
      PROVE  GovernanceInv'
  BY <1>2, UnchangedGoverned, PlainStep
<1>3. ASSUME End(h), org' = org,
             \/ member' = SetRoles(member, m, req[h].seen, r)
             \/ member' = [member EXCEPT ![m].roles = @ \ {r}]
             \/ member' = member
      PROVE  GovernanceInv'
  <2>1. Governed
    BY <1>3, RolesGoverned
  <2> QED BY <1>3, <2>1, PlainStep
<1>4. CASE GrantRole(h, a, m, r)
  BY <1>1, <1>2, <1>3, <1>4 DEF GrantRole, At
<1>5. CASE RevokeRole(h, a, m, r)
  BY <1>1, <1>3, <1>5 DEF RevokeRole, At
<1> QED BY <1>4, <1>5

\* Of two transfers of an organization only one is under way, so that it finds what it has
\* read.
LEMMA TransferReadGoverns ==
    ASSUME OrganizationInv, GovernanceInv, NEW h \in Handlers, NEW a \in Accounts,
           NEW o \in DOMAIN org, NEW m \in DOMAIN member, TransferRead(h, a, o, m)
    PROVE  GovernanceInv'
<1>1. ASSUME Approved(m, o),
             Arrives(h, "transfer", "owner", a,
                     Of(o) \cup Membership(a, o) \cup MembershipOf(m), <<o, m>>, 0)
      PROVE  GovernanceInv'
  <2> DEFINE on == Of(o) \cup Membership(a, o) \cup MembershipOf(m)
  <2>1. <<"org", o>> \in on
    BY DEF Of
  <2> HIDE DEF on
  <2>2. Governing([op |-> "transfer", at |-> "owner", by |-> a, on |-> on,
                   arg |-> <<o, m>>, seen |-> 0])
    BY <1>1, <2>1 DEF Governing, Handing, Settling, Approved
  <2> QED BY <1>1, <2>2, ArriveGoverns DEF on
<1>2. ASSUME NEW at \in {"clear", "commit"}, NEW seen, UNCHANGED organizationVars,
             At(h, "transfer", "owner") \/ At(h, "transfer", "clear"),
             req[h].by = a, req[h].arg = <<o, m>>, Goto(h, at, seen),
             Apart =>
                /\ DOMAIN seen = {"row", "gone", "of"} /\ seen.row \in DOMAIN member \ {m}
                /\ member[seen.row].account = a /\ member[seen.row].org = o
                /\ at = "commit" /\ "owner" \in member[seen.row].roles => "owner" \in seen.gone
      PROVE  GovernanceInv'
  <2> DEFINE r == [req[h] EXCEPT !.at = at, !.seen = seen]
  <2>1. DOMAIN req[h] = Fields
    BY DEF OrganizationInv, Slots, Known
  <2>2. /\ req' = [req EXCEPT ![h] = r] /\ manner' = manner
        /\ r.op = "transfer" /\ r.at = at /\ r.by = a /\ r.arg = <<o, m>> /\ r.seen = seen
        /\ r.on = req[h].on
    BY <1>2, <2>1 DEF Goto, At, OrganizationInv, Slots, Fields
  <2> HIDE DEF r
  <2>3. Governing(req[h]) /\ req[h].op = "transfer" /\ req[h].arg = <<o, m>> /\ req[h].by = a
    BY <1>2 DEF GovernanceInv, At
  <2>4. Governing(r)
    BY <1>2, <2>2, <2>3 DEF Governing, Handing, Settling
  <2>5. Governed
    BY <1>2, UnchangedGoverned
  <2> QED BY <2>2, <2>4, <2>5, GovernedKeeps
<1>3. CASE /\ At(h, "transfer", "owner") /\ req[h].by = a /\ req[h].arg = <<o, m>>
           /\ UNCHANGED organizationVars
           /\ \E w \in With(RowsOf(a, o), "approved") \ {m} :
                 Goto(h, "clear", [row |-> w, gone |-> {}, of |-> {}])
  <2>1. PICK w \in With(RowsOf(a, o), "approved") \ {m} :
            Goto(h, "clear", [row |-> w, gone |-> {}, of |-> {}])
    BY <1>3
  <2>2. w \in DOMAIN member \ {m} /\ member[w].account = a /\ member[w].org = o
    BY DEF With, RowsOf
  <2> QED BY <1>2, <1>3, <2>1, <2>2
<1>4. CASE UNCHANGED organizationVars /\ End(h)
  BY <1>4, UnchangedGoverned, PlainStep
<1>5. CASE /\ At(h, "transfer", "clear") /\ req[h].by = a /\ req[h].arg = <<o, m>>
           /\ Goto(h, "commit", [req[h].seen EXCEPT !.gone = member[req[h].seen.row].roles,
                                                    !.of = member[m].roles])
           /\ UNCHANGED organizationVars
  <2> DEFINE seen == [req[h].seen EXCEPT !.gone = member[req[h].seen.row].roles,
                                         !.of = member[m].roles]
  <2>1. ASSUME Apart
        PROVE  /\ DOMAIN seen = {"row", "gone", "of"} /\ seen.row \in DOMAIN member \ {m}
               /\ member[seen.row].account = a /\ member[seen.row].org = o
               /\ seen.gone = member[seen.row].roles
    <3> DEFINE q == req[h]
    <3>0. q.op = "transfer" /\ q.at = "clear" /\ q.by = a /\ q.arg = <<o, m>>
      BY <1>5 DEF At
    <3>1. Handing(q)
      BY <2>1, <3>0 DEF GovernanceInv, Governing
    <3> HIDE DEF q
    <3>2. /\ DOMAIN q.seen = {"row", "gone", "of"} /\ q.seen.row \in DOMAIN member \ {m}
          /\ member[q.seen.row].account = a /\ member[q.seen.row].org = o
      BY <3>0, <3>1 DEF Handing
    <3>3. DOMAIN seen = {"row", "gone", "of"} /\ seen.row = q.seen.row
          /\ seen.gone = member[q.seen.row].roles
      BY <3>2 DEF q
    <3> HIDE DEF seen
    <3> QED BY <3>2, <3>3
  <2> HIDE DEF seen
  <2>2. Goto(h, "commit", seen)
    BY <1>5 DEF seen
  <2> QED BY <1>2, <1>5, <2>1, <2>2
<1> QED BY <1>1, <1>3, <1>4, <1>5 DEF TransferRead

\* Who hands an organization over has the role of its owner no more; whose it was has it
\* still, unless it is the one who hands over or the one who takes over.
LEMMA TransferCommitGoverns ==
    ASSUME OrganizationInv, GovernanceInv, NEW h \in Handlers, NEW a \in Accounts,
           NEW o \in DOMAIN org, NEW m \in DOMAIN member, TransferCommit(h, a, o, m)
    PROVE  GovernanceInv'
<1> DEFINE w == req[h].seen
           t == SetRoles(member, w.row, w.gone, "manager")
<1>1. CASE UNCHANGED organizationVars /\ End(h)
  BY <1>1, UnchangedGoverned, PlainStep
<1>2. CASE /\ member' = SetRoles(t, m, w.of, "owner")
           /\ org' = HandOver(a, o, m) /\ End(h)
  <2>1. /\ req[h].op = "transfer" /\ req[h].at = "commit" /\ req[h].by = a
        /\ req[h].arg = <<o, m>> /\ Busy(h)
    BY DEF TransferCommit, At, Busy
  <2>2. /\ manner' = manner /\ req'[h] = Idle
        /\ \A g \in Handlers \ {h} : req'[g] = req[g]
    BY <1>2 DEF End, OrganizationInv, Slots
  <2>3. /\ DOMAIN org' = DOMAIN org
        /\ org'[o].owner = member[m].account
        /\ org'[o].displaced = (org[o].displaced \cup {org[o].owner}) \ {a, member[m].account}
        /\ \A p \in DOMAIN org : /\ org'[p].founder = org[p].founder
                                 /\ org'[p].status = org[p].status
        /\ \A p \in DOMAIN org \ {o} : org'[p] = org[p]
    BY <1>2, TablesType DEF OrgRow, HandOver
  <2>4. /\ DOMAIN member' = DOMAIN member
        /\ \A n \in DOMAIN member : /\ member[n].org \in DOMAIN org
                                    /\ member'[n].account = member[n].account
                                    /\ member'[n].org = member[n].org
        /\ \A n \in DOMAIN member \ {m} :
              "owner" \in member'[n].roles =>
                  "owner" \in member[n].roles /\ (n = w.row => "owner" \notin w.gone)
    BY <1>2, TablesType DEF SetRoles, MemberRow
  <2>5. ASSUME Apart
        PROVE  /\ <<"org", o>> \in req[h].on /\ member[m].org = o
               /\ w.row \in DOMAIN member \ {m}
               /\ member[w.row].account = a /\ member[w.row].org = o
               /\ "owner" \in member[w.row].roles => "owner" \in w.gone
    BY <2>1, <2>5 DEF GovernanceInv, Governing, Handing
  <2> HIDE DEF w, t
  <2>6. OwnerRoleIsOwners'
    <3> SUFFICES ASSUME Apart, NEW n \in DOMAIN member, "owner" \in member'[n].roles
                 PROVE  LET p == member[n].org
                        IN  member[n].account \in {org'[p].owner} \cup org'[p].displaced
      BY <2>2, <2>4 DEF OwnerRoleIsOwners, Apart
    <3>1. OneRow /\ manner # "any"
      BY DEF OrganizationInv, Apart
    <3>2. CASE n = m
      BY <2>3, <2>5, <3>2
    <3>3. CASE n # m /\ member[n].org = o
      <4>1. "owner" \in member[n].roles
        BY <2>4, <3>3
      <4>2. member[n].account \in {org[o].owner} \cup org[o].displaced
        BY <3>3, <4>1 DEF GovernanceInv, OwnerRoleIsOwners, Apart
      <4>3. member[n].account # member[m].account
        BY <2>5, <3>1, <3>3 DEF OneRow
      <4>4. member[n].account # a
        <5> SUFFICES ASSUME member[n].account = a PROVE FALSE
          OBVIOUS
        <5>1. n = w.row
          BY <2>5, <3>1, <3>3 DEF OneRow
        <5> QED BY <2>4, <2>5, <3>3, <4>1, <5>1
      <4> QED BY <2>3, <3>3, <4>2, <4>3, <4>4
    <3>4. CASE n # m /\ member[n].org # o
      BY <2>3, <2>4, <3>4 DEF GovernanceInv, OwnerRoleIsOwners, Apart
    <3> QED BY <3>2, <3>3, <3>4
  <2>7. MembersOfVerified'
    BY <2>2, <2>3, <2>4 DEF GovernanceInv, MembersOfVerified, Verified
  <2>8. ASSUME NEW g \in Handlers \ {h} PROVE Governing(req[g])'
    <3>1. ASSUME Apart, req[g].op = "transfer"
          PROVE  Handing(req[g])'
      <4>1. Handing(req[g]) /\ Busy(g)
        BY <3>1 DEF GovernanceInv, Governing, Busy
      <4>2. req[g].arg[1] # o
        <5> SUFFICES ASSUME req[g].arg[1] = o PROVE FALSE
          OBVIOUS
        <5>1. <<"org", o>> \in req[g].on
          BY <3>1, <4>1 DEF Handing
        <5>2. Exclusive /\ <<"org", o>> \in req[h].on
          BY <2>5, <3>1 DEF OrganizationInv
        <5> QED BY <2>1, <3>1, <4>1, <5>1, <5>2, OneInFlight
      <4>3. /\ req[g].arg[1] \in DOMAIN org /\ org'[req[g].arg[1]] = org[req[g].arg[1]]
            /\ member[m].org # req[g].arg[1]
        BY <2>3, <2>5, <3>1, <4>1, <4>2 DEF Handing
      <4>4. ASSUME NEW q, q = req[g] PROVE Handing(q)'
        <5>1. Handing(q) /\ q.op = "transfer" /\ member[m].org # q.arg[1]
              /\ org'[q.arg[1]] = org[q.arg[1]]
          BY <3>1, <4>1, <4>3, <4>4
        <5>2. q.at = "commit" /\ "owner" \in member'[q.seen.row].roles
                  => "owner" \in member[q.seen.row].roles
          BY <2>4, <5>1 DEF Handing
        <5> QED BY <2>3, <2>4, <5>1, <5>2 DEF Handing
      <4> QED BY <2>2, <4>4
    <3>2. Apart => Settling(req[g])'
      BY <2>2, <2>3 DEF GovernanceInv, Governing, Settling, Verified
    <3> QED BY <2>2, <3>1, <3>2 DEF Governing, Handing, Apart
  <2>9. Governing(req[h])'
    <3>1. req'[h].op = "idle"
      BY <2>2, IdleKnown
    <3> QED BY <3>1 DEF Governing, Handing, Settling
  <2> QED BY <2>6, <2>7, <2>8, <2>9 DEF GovernanceInv
<1> QED BY <1>1, <1>2 DEF TransferCommit

LEMMA GovernanceInvInit == RequestsInit /\ OrganizationInit => GovernanceInv
<1> SUFFICES ASSUME RequestsInit, OrganizationInit PROVE GovernanceInv
  OBVIOUS
<1>1. OwnerRoleIsOwners /\ MembersOfVerified
  BY DEF OrganizationInit, OwnerRoleIsOwners, MembersOfVerified
<1> QED BY <1>1, PlainGoverns DEF RequestsInit, GovernanceInv

LEMMA GovernanceInvStep ==
    OrganizationInv /\ GovernanceInv /\ [OrganizationNext]_organizationAllVars
        => GovernanceInv'
<1> SUFFICES ASSUME OrganizationInv, GovernanceInv, [OrganizationNext]_organizationAllVars
             PROVE  GovernanceInv'
  OBVIOUS
<1>1. CASE UNCHANGED organizationAllVars
  <2>1. Governed /\ UNCHANGED <<req, manner>>
    BY <1>1, UnchangedGoverned DEF organizationAllVars, requestVars
  <2>2. \A g \in Handlers : Governing(req[g])'
    BY <2>1, GoverningKept DEF GovernanceInv
  <2> QED BY <1>1, <2>2 DEF organizationAllVars, requestVars, organizationVars, GovernanceInv,
                            OwnerRoleIsOwners, MembersOfVerified, Verified
<1>2. ASSUME NEW h \in Handlers, NEW m \in DOMAIN member, OfMember(h, m) PROVE GovernanceInv'
  BY <1>2, StatusGoverns, GrantGoverns DEF OfMember
<1>3. ASSUME NEW h \in Handlers, NEW a \in Accounts, NEW o \in DOMAIN org, OfAccount(h, a, o)
      PROVE  GovernanceInv'
  BY <1>3, StatusGoverns, JoinGoverns, TransferReadGoverns, TransferCommitGoverns
     DEF OfAccount, TransferOwnership
<1>4. ASSUME NEW h \in Handlers, Abort(h), UNCHANGED organizationVars PROVE GovernanceInv'
  BY <1>4, UnchangedGoverned, PlainStep
<1> QED
  BY <1>1, <1>2, <1>3, <1>4, CreateGoverns, UpdateStatusGoverns DEF OrganizationNext
-----------------------------------------------------------------------------

\* Whatever requests race and wherever queries reject, the tables are well formed: a
\* member is one of an organization there is.
THEOREM OrganizationTypeCorrect == OrganizationSpec => []OrganizationTypeOK
<1>1. OrganizationInv => OrganizationTypeOK
  BY DEF OrganizationInv, Tables
<1> QED BY <1>1, OrganizationInvInit, OrganizationInvStep, PTL DEF OrganizationSpec

\* An account that waits for its answers is in an organization at most once: a join that
\* found no row finds none when it creates one.
THEOREM OneMembershipEach == OrganizationSpec => []OneMembership
<1>1. OrganizationInv => OneMembership
  <2> SUFFICES ASSUME OrganizationInv, manner # "any", NEW a \in Accounts, NEW o \in DOMAIN org
               PROVE  Cardinality(RowsOf(a, o)) <= 1
    BY DEF OneMembership
  <2>1. OneRow
    BY DEF OrganizationInv
  <2>2. CASE RowsOf(a, o) = {}
    BY <2>2, FS_EmptySet
  <2>3. CASE RowsOf(a, o) # {}
    <3>1. PICK m \in RowsOf(a, o) : TRUE
      BY <2>3
    <3>2. RowsOf(a, o) = {m}
      BY <2>1, <3>1 DEF RowsOf, OneRow
    <3>3. Cardinality({m}) = 1
      BY FS_Singleton
    <3> QED BY <3>2, <3>3
  <2> QED BY <2>2, <2>3
<1> QED BY <1>1, OrganizationInvInit, OrganizationInvStep, PTL DEF OrganizationSpec

\* While requests about a membership keep apart, every step of the handlers is a promised
\* step of that membership or leaves all memberships as they are: a request writes the row
\* as it has seen it, and a new row is the first of its account.
THEOREM MembershipsImplemented == OrganizationSpec => ImplementsMembership
<1> QED
  BY OrganizationInvInit, OrganizationInvStep, PTL DEF OrganizationSpec, ImplementsMembership

\* While requests about an organization keep apart, and although any member may hand it
\* over, none has the role of its owner but the account it names and those whose ownership
\* another member gave away: who hands over gives the role up, and no grant gives it.
THEOREM OwnersHoldTheirRole == OrganizationSpec => []OwnerRoleIsOwners
<1>1. GovernanceInv => OwnerRoleIsOwners
  BY DEF GovernanceInv
<1> QED BY <1>1, OrganizationInvInit, OrganizationInvStep, GovernanceInvInit, GovernanceInvStep,
           PTL DEF OrganizationSpec

\* While requests about an organization keep apart, it has members beside its founder only
\* after it has been verified, and then it stays so.
THEOREM OnlyVerifiedHaveMembers == OrganizationSpec => []MembersOfVerified
<1>1. GovernanceInv => MembersOfVerified
  BY DEF GovernanceInv
<1> QED BY <1>1, OrganizationInvInit, OrganizationInvStep, GovernanceInvInit, GovernanceInvStep,
           PTL DEF OrganizationSpec
=============================================================================
