--------------------------- MODULE RequestsProofs ---------------------------
(***************************************************************************)
(* Facts about requests in flight and about tables, for the proofs about   *)
(* the services: requests that keep apart go on doing so, and what a table *)
(* is with a row more.                                                     *)
(***************************************************************************)
EXTENDS Requests, FiniteSetTheorems, TLAPS

\* Requests in flight do not wait for each other.
Exclusive ==
    \A g, h \in Handlers : g # h /\ Busy(g) /\ Busy(h) => ~ Waits(req[g], req[h])

\* The fields of a request.
Fields == {"op", "at", "by", "on", "arg", "seen"}

\* Requests about one thing are not under way at once.
Apart == manner \in {"subject", "serial"}

-----------------------------------------------------------------------------
(* Requests. *)

\* A request that has come keeps those apart that were.
LEMMA ExclusiveBegin ==
    ASSUME DOMAIN req = Handlers, Exclusive, NEW h \in Handlers, NEW r, Begin(h, r)
    PROVE  Exclusive'
<1>1. /\ manner' = manner /\ req' = [req EXCEPT ![h] = r]
      /\ \A g \in Handlers \ {h} : Busy(g) => ~ Waits(r, req[g])
  BY DEF Begin
<1>2. DOMAIN req' = Handlers /\ req'[h] = r /\ \A g \in Handlers \ {h} : req'[g] = req[g]
  BY <1>1
<1>3. ASSUME NEW f \in Handlers, NEW g \in Handlers, f # g, Busy(f)', Busy(g)'
      PROVE  ~ Waits(req[f], req[g])'
  <2>1. CASE f # h /\ g # h
    BY <1>1, <1>2, <1>3, <2>1 DEF Exclusive, Busy, Waits
  <2>2. CASE f = h
    <3>1. Busy(g) /\ req'[g] = req[g] /\ req'[f] = r
      BY <1>2, <1>3, <2>2 DEF Busy
    <3>2. ~ Waits(r, req[g])
      BY <1>1, <1>3, <2>2, <3>1
    <3> QED BY <1>1, <3>1, <3>2 DEF Waits
  <2>3. CASE g = h
    <3>1. Busy(f) /\ req'[f] = req[f] /\ req'[g] = r
      BY <1>2, <1>3, <2>3 DEF Busy
    <3>2. ~ Waits(r, req[f])
      BY <1>1, <1>3, <2>3, <3>1
    <3> QED BY <1>1, <3>1, <3>2 DEF Waits
  <2> QED BY <2>1, <2>2, <2>3
<1> QED BY <1>3 DEF Exclusive

\* One that goes on, or ends, does so too.
LEMMA ExclusiveGoesOn ==
    ASSUME DOMAIN req = Handlers, Exclusive, NEW h \in Handlers, NEW r,
           req' = [req EXCEPT ![h] = r], manner' = manner,
           r.op # "idle" => r.op = req[h].op /\ r.by = req[h].by /\ r.on = req[h].on
    PROVE  Exclusive'
<1>1. DOMAIN req' = Handlers /\ req'[h] = r /\ \A g \in Handlers \ {h} : req'[g] = req[g]
  OBVIOUS
<1>2. \A g \in Handlers : Busy(g)' => Busy(g) /\ req'[g].by = req[g].by /\ req'[g].on = req[g].on
  BY <1>1 DEF Busy
<1> QED BY <1>2 DEF Exclusive, Waits

\* Of those about one thing there is one, if they keep apart.
LEMMA OneInFlight ==
    ASSUME Exclusive, Apart, NEW g \in Handlers, NEW h \in Handlers, g # h,
           Busy(g), Busy(h), NEW x, x \in req[g].on, x \in req[h].on
    PROVE  FALSE
<1>1. ~ Waits(req[g], req[h])
  BY DEF Exclusive
<1> QED BY <1>1 DEF Waits, Apart

\* Slot h takes the request r.
Takes(h, r) ==
    /\ DOMAIN req' = Handlers /\ req'[h] = r
    /\ \A g \in Handlers \ {h} : req'[g] = req[g]

\* What a request that goes on to its next query becomes.
LEMMA GoesOn ==
    ASSUME NEW h \in Handlers, DOMAIN req = Handlers, Exclusive, DOMAIN req[h] = Fields,
           NEW at, NEW seen, Goto(h, at, seen)
    PROVE  \E r : /\ Takes(h, r) /\ Exclusive' /\ DOMAIN r = Fields
                  /\ r.op = req[h].op /\ r.by = req[h].by /\ r.on = req[h].on
                  /\ r.arg = req[h].arg /\ r.at = at /\ r.seen = seen
<1> DEFINE r == [[req[h] EXCEPT !.at = at] EXCEPT !.seen = seen]
<1>1. req' = [req EXCEPT ![h] = r] /\ manner' = manner
  BY DEF Goto
<1>2. /\ DOMAIN r = Fields /\ r.op = req[h].op /\ r.by = req[h].by /\ r.on = req[h].on
      /\ r.arg = req[h].arg /\ r.at = at /\ r.seen = seen
  BY DEF Fields
<1> HIDE DEF r
<1>3. Takes(h, r)
  BY <1>1 DEF Takes
<1>4. Exclusive'
  BY <1>1, <1>2, ExclusiveGoesOn
<1> QED BY <1>2, <1>3, <1>4

\* One that ends leaves its slot idle.
LEMMA Ends ==
    ASSUME NEW h \in Handlers, DOMAIN req = Handlers, Exclusive, End(h)
    PROVE  Takes(h, Idle) /\ Exclusive'
<1>1. req' = [req EXCEPT ![h] = Idle] /\ manner' = manner /\ Idle.op = "idle"
  BY DEF End, Idle
<1>2. Takes(h, Idle)
  BY <1>1 DEF Takes
<1> QED BY <1>1, <1>2, ExclusiveGoesOn

\* One that comes takes an idle slot.
LEMMA Begins ==
    ASSUME NEW h \in Handlers, NEW r, DOMAIN req = Handlers, Exclusive, Begin(h, r)
    PROVE  Takes(h, r) /\ Exclusive' /\ req[h].op = "idle"
<1>1. req' = [req EXCEPT ![h] = r] /\ req[h].op = "idle"
  BY DEF Begin, Busy
<1> QED BY <1>1, ExclusiveBegin DEF Takes

-----------------------------------------------------------------------------
(* Tables. *)

\* A set with no two elements has at most one.
LEMMA AtMostOne ==
    ASSUME NEW S, \A x, y \in S : x = y
    PROVE  Cardinality(S) <= 1
<1>1. CASE S = {}
  BY <1>1, FS_EmptySet
<1>2. CASE S # {}
  <2>1. PICK x \in S : TRUE
    BY <1>2
  <2>2. S = {x}
    BY <2>1
  <2> QED BY <2>2, FS_Singleton
<1> QED BY <1>1, <1>2

\* A table of rows 1..n has a row n + 1 after one is inserted.
LEMMA InsertRow ==
    ASSUME NEW table, NEW row, DOMAIN table = 1..Cardinality(DOMAIN table),
           Cardinality(DOMAIN table) \in Nat
    PROVE  /\ DOMAIN Insert(table, row) = DOMAIN table \cup {NextId(table)}
           /\ DOMAIN Insert(table, row) = 1..Cardinality(DOMAIN Insert(table, row))
           /\ IsFiniteSet(DOMAIN Insert(table, row))
           /\ NextId(table) \in Nat \ {0} /\ NextId(table) \notin DOMAIN table
           /\ Insert(table, row)[NextId(table)] = row
           /\ \A i \in DOMAIN table : Insert(table, row)[i] = table[i]
<1> DEFINE n == Cardinality(DOMAIN table)
           D == DOMAIN Insert(table, row)
<1>1. NextId(table) = n + 1 /\ n + 1 \notin DOMAIN table
  BY DEF NextId
<1>2. D = DOMAIN table \cup {NextId(table)}
  BY DEF Insert
<1>3. D = 1..(n + 1)
  BY <1>1, <1>2
<1>4. Cardinality(1..(n + 1)) = n + 1 /\ IsFiniteSet(1..(n + 1))
  BY FS_Interval
<1>5. D = 1..Cardinality(D) /\ IsFiniteSet(D)
  BY <1>3, <1>4
<1>6. Insert(table, row)[NextId(table)] = row
  BY <1>1 DEF Insert
<1>7. \A i \in DOMAIN table : Insert(table, row)[i] = table[i]
  BY DEF Insert
<1>8. NextId(table) \in Nat \ {0} /\ NextId(table) \notin DOMAIN table
  BY <1>1
<1> HIDE DEF n
<1> QED BY <1>2, <1>5, <1>6, <1>7, <1>8
=============================================================================
