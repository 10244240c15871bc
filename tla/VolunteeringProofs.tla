------------------------- MODULE VolunteeringProofs -------------------------
(***************************************************************************)
(* Proofs about what follows a shift: Attendance, Review, Ratings, and the *)
(* window of the activity (ActivityWindow), for any number of volunteers,  *)
(* shifts and requests in flight, and any limits.                          *)
(***************************************************************************)
EXTENDS Attendance, Review, Ratings, ActivityWindow, RequestsProofs,
        WellFoundedInduction

-----------------------------------------------------------------------------
(* Sums over a finite set, and the least and the largest of numbers.  What the  *)
(* library defines over a set it defines by recursion on its subsets; what is   *)
(* said of every subset is shown by taking a smallest one it would fail for.    *)

LEMMA LeastNat ==
    ASSUME NEW T, T \subseteq Nat, T # {}
    PROVE  \E n \in T : \A m \in T : n <= m
<1> DEFINE R == OpToRel(<, Nat)
<1>1. PICK n \in T : \A m \in T : <<m, n>> \notin R
  <2>1. IsWellFoundedOn(R, Nat)
    BY NatLessThanWellFounded
  <2> HIDE DEF R
  <2> QED BY <2>1, WFMin
<1>2. \A m \in T : ~ (m < n)
  BY <1>1 DEF OpToRel
<1> QED BY <1>2

\* The element that is taken out first.
Pick(T) == CHOOSE x \in T : TRUE

LEMMA Smaller ==
    ASSUME NEW T, IsFiniteSet(T), T # {}
    PROVE  /\ Pick(T) \in T /\ IsFiniteSet(T \ {Pick(T)})
           /\ Cardinality(T \ {Pick(T)}) \in Nat /\ Cardinality(T) \in Nat
           /\ Cardinality(T \ {Pick(T)}) = Cardinality(T) - 1
<1>1. Pick(T) \in T
  BY DEF Pick
<1> QED BY <1>1, FS_RemoveElement, FS_CardinalityType

\* No subset is bad if a nonempty one is bad only when it is with an element less.
LEMMA NoneBad ==
    ASSUME NEW S, IsFiniteSet(S), NEW Bad, Bad \subseteq SUBSET S, {} \notin Bad,
           \A T \in Bad : T # {} => T \ {Pick(T)} \in Bad
    PROVE  Bad = {}
<1> SUFFICES ASSUME Bad # {} PROVE FALSE
  OBVIOUS
<1>1. \A T \in Bad : IsFiniteSet(T) /\ Cardinality(T) \in Nat
  BY FS_Subset, FS_CardinalityType
<1> DEFINE Sizes == {Cardinality(T) : T \in Bad}
<1>2. PICK n \in Sizes : \A m \in Sizes : n <= m
  <2>1. Sizes \subseteq Nat /\ Sizes # {}
    BY <1>1
  <2> HIDE DEF Sizes
  <2> QED BY <2>1, LeastNat
<1>3. PICK T \in Bad : n = Cardinality(T)
  BY <1>2
<1>4. T \ {Pick(T)} \in Bad
  BY <1>3
<1>5. n <= Cardinality(T \ {Pick(T)})
  BY <1>2, <1>4
<1>6. T # {} /\ IsFiniteSet(T)
  BY <1>1
<1>7. /\ Cardinality(T) \in Nat /\ Cardinality(T \ {Pick(T)}) \in Nat
      /\ Cardinality(T \ {Pick(T)}) = Cardinality(T) - 1
  BY <1>6, Smaller
<1> QED BY <1>3, <1>5, <1>7

\* How the sum of f over the subsets of S is computed.
SumsOf(f, S, sum) ==
    sum = [T \in SUBSET S |-> IF T = {} THEN 0 ELSE f[Pick(T)] + sum[T \ {Pick(T)}]]

LEMMA SumsExist ==
    ASSUME NEW S, IsFiniteSet(S), NEW f \in [S -> Int]
    PROVE  \E sum : SumsOf(f, S, sum) /\ sum \in [SUBSET S -> Int]
<1> DEFINE Small(n) == {T \in SUBSET S : Cardinality(T) <= n}
           Next(n, sum) == [T \in Small(n) |-> IF T = {} THEN 0
                                ELSE f[Pick(T)] + sum[T \ {Pick(T)}]]
           Sums(n) == \E sum \in [Small(n) -> Int] : sum = Next(n, sum)
           Missing == {n \in Nat : ~ Sums(n)}
<1>1. \A T \in SUBSET S : IsFiniteSet(T) /\ Cardinality(T) \in Nat
  BY FS_Subset, FS_CardinalityType
<1>2. \A T \in SUBSET S : T # {} =>
        /\ Pick(T) \in T /\ T \ {Pick(T)} \in SUBSET S
        /\ Cardinality(T \ {Pick(T)}) = Cardinality(T) - 1
  BY <1>1, Smaller
<1>3. Sums(0)
  <2> DEFINE sum == [T \in Small(0) |-> 0]
  <2>1. \A T \in Small(0) : T = {}
    <3>1. ASSUME NEW T \in Small(0), T # {} PROVE FALSE
      <4>1. T \in SUBSET S /\ Cardinality(T) <= 0
        OBVIOUS
      <4>2. Cardinality(T \ {Pick(T)}) = Cardinality(T) - 1 /\ T \ {Pick(T)} \in SUBSET S
        BY <1>2, <3>1, <4>1
      <4> QED BY <1>1, <4>1, <4>2
    <3> QED BY <3>1
  <2>2. sum = Next(0, sum) /\ sum \in [Small(0) -> Int]
    <3> HIDE DEF Small
    <3> QED BY <2>1
  <2> QED BY <2>2
<1>4. ASSUME NEW n \in Nat, Sums(n) PROVE Sums(n + 1)
  <2>1. PICK sum \in [Small(n) -> Int] : sum = Next(n, sum)
    BY <1>4
  <2> DEFINE more == [T \in Small(n + 1) |-> IF T = {} THEN 0
                                ELSE f[Pick(T)] + sum[T \ {Pick(T)}]]
  <2>2. ASSUME NEW T \in Small(n + 1), T # {}
        PROVE  T \ {Pick(T)} \in Small(n) /\ T \ {Pick(T)} \in Small(n + 1) /\ f[Pick(T)] \in Int
    <3>1. T \in SUBSET S /\ Cardinality(T) <= n + 1 /\ Cardinality(T) \in Nat
      BY <1>1
    <3> QED BY <1>2, <2>2, <3>1
  <2>3. \A U \in Small(n) : sum[U] = IF U = {} THEN 0 ELSE f[Pick(U)] + sum[U \ {Pick(U)}]
    <3> HIDE DEF Small
    <3> QED BY <2>1
  <2>4. \A U \in Small(n + 1) : more[U] = IF U = {} THEN 0 ELSE f[Pick(U)] + sum[U \ {Pick(U)}]
    OBVIOUS
  <2>5. \A U \in Small(n) : U \in Small(n + 1) => more[U] = sum[U]
    <3> HIDE DEF Small, more
    <3> QED BY <2>3, <2>4
  <2> HIDE DEF Small
  <2>6. more \in [Small(n + 1) -> Int]
    <3>1. ASSUME NEW T \in Small(n + 1)
          PROVE  (IF T = {} THEN 0 ELSE f[Pick(T)] + sum[T \ {Pick(T)}]) \in Int
      <4>1. ASSUME T # {} PROVE f[Pick(T)] \in Int /\ sum[T \ {Pick(T)}] \in Int
        BY <2>1, <2>2, <4>1
      <4> QED BY <4>1
    <3> QED BY <3>1
  <2>7. more = Next(n + 1, more)
    BY <2>2, <2>5
  <2> QED BY <2>6, <2>7
<1>5. Missing = {}
  <2> SUFFICES ASSUME Missing # {} PROVE FALSE
    OBVIOUS
  <2>1. PICK n \in Missing : \A m \in Missing : n <= m
    <3>1. Missing \subseteq Nat
      OBVIOUS
    <3> HIDE DEF Missing
    <3> QED BY <3>1, LeastNat
  <2> HIDE DEF Sums
  <2>2. n # 0 /\ n \in Nat
    BY <1>3
  <2>3. n - 1 \in Nat /\ n - 1 \notin Missing
    BY <2>1, <2>2
  <2>4. Sums(n)
    <3>1. Sums(n - 1)
      BY <2>3
    <3> QED BY <1>4, <2>2, <2>3, <3>1
  <2> QED BY <2>4
<1>6. Small(Cardinality(S)) = SUBSET S
  <2>1. \A T \in SUBSET S : Cardinality(T) <= Cardinality(S)
    BY FS_Subset
  <2> QED BY <2>1
<1>7. Sums(Cardinality(S))
  <2> HIDE DEF Sums
  <2> QED BY <1>1, <1>5
<1>8. PICK sum \in [Small(Cardinality(S)) -> Int] : sum = Next(Cardinality(S), sum)
  BY <1>7
<1> HIDE DEF Small
<1> QED BY <1>6, <1>8 DEF SumsOf

\* Two ways to sum agree on every subset if they agree on what they add.
LEMMA SameSums ==
    ASSUME NEW S, IsFiniteSet(S), NEW f, NEW g, NEW sum, NEW sum1,
           SumsOf(f, S, sum), SumsOf(g, S, sum1), \A x \in S : f[x] = g[x]
    PROVE  sum = sum1
<1> DEFINE Bad == {T \in SUBSET S : sum[T] # sum1[T]}
<1>1. \A T \in SUBSET S : T # {} => Pick(T) \in T
  BY DEF Pick
<1>2. /\ \A T \in SUBSET S : sum[T] = IF T = {} THEN 0 ELSE f[Pick(T)] + sum[T \ {Pick(T)}]
      /\ \A T \in SUBSET S : sum1[T] = IF T = {} THEN 0 ELSE g[Pick(T)] + sum1[T \ {Pick(T)}]
  BY DEF SumsOf
<1>3. {} \notin Bad /\ \A T \in Bad : T # {} => T \ {Pick(T)} \in Bad
  BY <1>1, <1>2
<1>4. Bad = {}
  <2>1. Bad \subseteq SUBSET S
    OBVIOUS
  <2> HIDE DEF Bad
  <2> QED BY <1>3, <2>1, NoneBad
<1>5. \A T \in SUBSET S : sum[T] = sum1[T]
  BY <1>4
<1> QED BY <1>5 DEF SumsOf

Total(f, S) == MapThenSumSet(LAMBDA x : f[x], S)

LEMMA TotalIsSum ==
    ASSUME NEW S, IsFiniteSet(S), NEW f \in [S -> Int], NEW sum, SumsOf(f, S, sum)
    PROVE  Total(f, S) = sum[S]
<1> DEFINE chosen == CHOOSE s : SumsOf(f, S, s)
<1>1. Total(f, S) = chosen[S]
  BY DEF Total, MapThenSumSet, MapThenFoldSet, SumsOf, Pick
<1>2. SumsOf(f, S, chosen)
  OBVIOUS
<1> HIDE DEF chosen
<1> QED BY <1>1, <1>2, SameSums

LEMMA TotalType ==
    ASSUME NEW S, IsFiniteSet(S), NEW f \in [S -> Int]
    PROVE  Total(f, S) \in Int
<1>1. PICK sum : SumsOf(f, S, sum) /\ sum \in [SUBSET S -> Int]
  BY SumsExist
<1> QED BY <1>1, TotalIsSum

\* A sum changes by what one of its parts does.
LEMMA TotalChange ==
    ASSUME NEW S, IsFiniteSet(S), NEW f \in [S -> Int], NEW a \in S, NEW d \in Int
    PROVE  Total([f EXCEPT ![a] = f[a] + d], S) = Total(f, S) + d
<1> DEFINE g == [f EXCEPT ![a] = f[a] + d]
<1>1. g \in [S -> Int] /\ g[a] = f[a] + d /\ \A x \in S \ {a} : g[x] = f[x]
  OBVIOUS
<1> HIDE DEF g
<1>2. PICK sum : SumsOf(f, S, sum) /\ sum \in [SUBSET S -> Int]
  BY SumsExist
<1>3. PICK sum1 : SumsOf(g, S, sum1) /\ sum1 \in [SUBSET S -> Int]
  BY <1>1, SumsExist
<1> DEFINE Bad == {T \in SUBSET S : sum1[T] # sum[T] + IF a \in T THEN d ELSE 0}
<1>4. /\ \A T \in SUBSET S : sum[T] = IF T = {} THEN 0 ELSE f[Pick(T)] + sum[T \ {Pick(T)}]
      /\ \A T \in SUBSET S : sum1[T] = IF T = {} THEN 0 ELSE g[Pick(T)] + sum1[T \ {Pick(T)}]
  BY <1>2, <1>3 DEF SumsOf
<1>5. ASSUME NEW T \in Bad, T # {} PROVE T \ {Pick(T)} \in Bad
  <2> DEFINE U == T \ {Pick(T)}
  <2>1. /\ T \in SUBSET S /\ U \in SUBSET S /\ Pick(T) \in T /\ Pick(T) \notin U
        /\ sum1[T] # sum[T] + IF a \in T THEN d ELSE 0
    BY <1>5 DEF Pick
  <2>2. /\ sum[T] = f[Pick(T)] + sum[U] /\ sum1[T] = g[Pick(T)] + sum1[U]
        /\ sum[T] \in Int /\ sum1[T] \in Int /\ sum[U] \in Int /\ sum1[U] \in Int
        /\ f[Pick(T)] \in Int /\ g[Pick(T)] \in Int
    BY <1>1, <1>2, <1>3, <1>4, <1>5, <2>1
  <2>3. CASE Pick(T) = a
    <3>1. a \notin U /\ a \in T /\ g[Pick(T)] = f[Pick(T)] + d
      BY <1>1, <2>1, <2>3
    <3>2. sum1[U] # sum[U]
      BY <2>1, <2>2, <3>1
    <3> QED BY <2>1, <2>2, <3>1, <3>2
  <2>4. CASE Pick(T) # a
    <3>1. (a \in U <=> a \in T) /\ g[Pick(T)] = f[Pick(T)]
      BY <1>1, <2>1, <2>4
    <3>2. sum1[U] # sum[U] + IF a \in U THEN d ELSE 0
      BY <2>1, <2>2, <3>1
    <3> QED BY <2>1, <3>2
  <2> QED BY <2>3, <2>4
<1>6. {} \notin Bad
  <2>1. {} \in SUBSET S /\ a \notin {}
    OBVIOUS
  <2>2. sum[{}] = 0 /\ sum1[{}] = 0
    BY <1>4, <2>1
  <2> QED BY <2>1, <2>2
<1>7. Bad = {}
  <2>1. Bad \subseteq SUBSET S
    OBVIOUS
  <2> HIDE DEF Bad
  <2> QED BY <1>5, <1>6, <2>1, NoneBad
<1>8. sum1[S] = sum[S] + d
  BY <1>7
<1> QED BY <1>1, <1>2, <1>3, <1>8, TotalIsSum DEF g

LEMMA TotalZero ==
    ASSUME NEW S, IsFiniteSet(S), NEW f \in [S -> Int], \A x \in S : f[x] = 0
    PROVE  Total(f, S) = 0
<1>1. PICK sum : SumsOf(f, S, sum) /\ sum \in [SUBSET S -> Int]
  BY SumsExist
<1> DEFINE Bad == {T \in SUBSET S : sum[T] # 0}
<1>2. \A T \in SUBSET S : T # {} => Pick(T) \in T
  BY DEF Pick
<1>3. \A T \in SUBSET S : sum[T] = IF T = {} THEN 0 ELSE f[Pick(T)] + sum[T \ {Pick(T)}]
  BY <1>1 DEF SumsOf
<1>4. {} \notin Bad
  BY <1>3
<1>5. ASSUME NEW T \in Bad, T # {} PROVE T \ {Pick(T)} \in Bad
  <2>1. f[Pick(T)] = 0 /\ sum[T] = f[Pick(T)] + sum[T \ {Pick(T)}]
    BY <1>2, <1>3, <1>5
  <2>2. sum[T \ {Pick(T)}] \in Int
    BY <1>1
  <2> QED BY <2>1, <2>2
<1>6. Bad = {}
  <2>1. Bad \subseteq SUBSET S
    OBVIOUS
  <2> HIDE DEF Bad
  <2> QED BY <1>4, <1>5, <2>1, NoneBad
<1>7. sum[S] = 0
  BY <1>6
<1> QED BY <1>1, <1>7, TotalIsSum

-----------------------------------------------------------------------------
(* Attendance. *)

USE ShiftAssumption

Row == [status : RowStatuses, checkedIn : BOOLEAN, checkInAt : Nat,
        checkedOut : BOOLEAN, checkOutAt : Nat,
        isCheckInVerified : Answers, isCheckOutVerified : Answers]

Own == {"checkIn", "checkOut"}

\* What is known of a request in flight: it is about a volunteer, a check-in has seen the
\* shift started, and volunteers check in and out for themselves.
Known(r) ==
    /\ r.op \in Own \cup {"verify", "status"} =>
          r.seen \in Volunteers /\ r.on = {<<"row", r.seen>>}
    /\ r.op = "checkIn" => minute >= StartTime
    /\ r.op = "verify" => r.arg[1] \in Given /\ r.arg[2] \in Given
    /\ r.op = "status" => r.arg \in RowStatuses
    /\ r.op \in Own => r.by = r.seen

InFlight == DOMAIN req = Handlers /\ \A h \in Handlers : Known(req[h])

\* What a check-in or a check-out has seen of its row.
Current(r) ==
    /\ r.op = "checkIn" => ~ row[r.seen].checkedIn
    /\ r.op = "checkOut" => row[r.seen].checkedIn

\* Clients that wait have one request in flight, and nobody else writes what it has seen.
TakeTurns ==
    manner # "any" =>
        /\ \A h \in Handlers : Current(req[h])
        /\ \A g, h \in Handlers :
            g # h /\ req[g].op \in Own /\ req[h].op \in Own => req[g].seen # req[h].seen

\* Nobody has checked in later than now.
Past == \A v \in Volunteers : row[v].checkedIn => row[v].checkInAt <= minute

AttendanceInv ==
    /\ manner \in Manners
    /\ AttendanceTypeOK /\ InFlight /\ Past /\ TakeTurns /\ CheckOutFollowsCheckIn

-----------------------------------------------------------------------------

LEMMA IdleKnown == Known(Idle) /\ Current(Idle)
  BY DEF Known, Current, Idle, Own

LEMMA AttendanceInvInit == RequestsInit /\ AttendanceInit => AttendanceInv
<1> SUFFICES ASSUME RequestsInit, AttendanceInit PROVE AttendanceInv
  OBVIOUS
<1>1. NewRow \in Row /\ ~ NewRow.checkedIn /\ ~ NewRow.checkedOut
  BY DEF NewRow, Row, RowStatuses, Answers
<1>2. AttendanceTypeOK
  BY <1>1 DEF AttendanceInit, AttendanceTypeOK, Row
<1>3. InFlight
  BY IdleKnown DEF RequestsInit, InFlight
<1>4. TakeTurns
  <2>1. Idle.op \notin Own
    BY DEF Idle, Own
  <2> QED BY <2>1, IdleKnown DEF RequestsInit, TakeTurns
<1>5. Past /\ CheckOutFollowsCheckIn
  BY <1>1 DEF AttendanceInit, Past, CheckOutFollowsCheckIn
<1> QED BY <1>2, <1>3, <1>4, <1>5 DEF AttendanceInv, RequestsInit

\* One slot takes another request, while the rows stay.
LEMMA SlotOnly ==
    ASSUME AttendanceInv, NEW h \in Handlers, NEW r, req' = [req EXCEPT ![h] = r],
           UNCHANGED <<manner, attendanceVars>>, Known(r),
           manner # "any" => Current(r),
           manner # "any" /\ r.op \in Own =>
                \A g \in Handlers \ {h} : req[g].op \in Own => req[g].seen # r.seen
    PROVE  AttendanceInv'
<1>1. /\ DOMAIN req' = Handlers /\ req'[h] = r
      /\ \A g \in Handlers \ {h} : req'[g] = req[g]
  BY DEF AttendanceInv, InFlight
<1>2. UNCHANGED <<minute, row>>
  BY DEF attendanceVars
<1>3. InFlight'
  <2>1. \A q : Known(q) => Known(q)'
    BY <1>2 DEF Known
  <2> QED BY <1>1, <2>1 DEF AttendanceInv, InFlight
<1>4. TakeTurns'
  <2> SUFFICES ASSUME manner # "any"
               PROVE  /\ \A g \in Handlers : Current(req[g])'
                      /\ \A f, g \in Handlers :
                            f # g /\ req'[f].op \in Own /\ req'[g].op \in Own
                                => req'[f].seen # req'[g].seen
    BY DEF TakeTurns
  <2>1. \A q : Current(q) => Current(q)'
    BY <1>2 DEF Current
  <2>2. \A g \in Handlers : Current(req[g])'
    BY <1>1, <2>1 DEF AttendanceInv, TakeTurns
  <2>3. ASSUME NEW f \in Handlers, NEW g \in Handlers, f # g, req'[f].op \in Own,
               req'[g].op \in Own
        PROVE  req'[f].seen # req'[g].seen
    BY <1>1, <2>3 DEF AttendanceInv, TakeTurns
  <2> QED BY <2>2, <2>3
<1> QED BY <1>2, <1>3, <1>4 DEF AttendanceInv, AttendanceTypeOK, Past, CheckOutFollowsCheckIn

\* A request arrives, about the row of v.
LEMMA Arrives ==
    ASSUME AttendanceInv, NEW h \in Handlers, NEW op \in Own \cup {"verify", "status"},
           NEW by, NEW v \in Volunteers, NEW arg, AttendanceRequest(h, op, by, v, arg),
           op \in Own => by = v,
           op = "checkIn" => minute >= StartTime /\ ~ row[v].checkedIn,
           op = "checkOut" => row[v].checkedIn,
           op = "verify" => arg[1] \in Given /\ arg[2] \in Given,
           op = "status" => arg \in RowStatuses
    PROVE  AttendanceInv'
<1> DEFINE r == [op |-> op, at |-> "write", by |-> by, on |-> {<<"row", v>>},
                 arg |-> arg, seen |-> v]
<1>1. /\ req' = [req EXCEPT ![h] = r] /\ UNCHANGED <<manner, attendanceVars>>
      /\ \A g \in Handlers \ {h} : Busy(g) => ~ Waits(r, req[g])
  BY DEF AttendanceRequest, Begin
<1>2. Known(r) /\ Current(r)
  BY DEF Known, Current, Own
<1>3. ASSUME manner # "any", op \in Own, NEW g \in Handlers \ {h}, req[g].op \in Own
      PROVE  req[g].seen # v
  <2>1. ~ Waits(r, req[g])
    BY <1>1, <1>3 DEF Busy, Own
  <2>2. Known(req[g]) /\ manner \in {"client", "subject", "serial"}
    BY <1>3 DEF AttendanceInv, InFlight, Manners
  <2>3. CASE manner = "client"
    <3>1. req[g].by # by
      BY <2>1, <2>3 DEF Waits
    <3> QED BY <1>3, <2>2, <3>1 DEF Known
  <2>4. CASE manner = "subject"
    <3>1. req[g].on \cap {<<"row", v>>} = {}
      BY <2>1, <2>4 DEF Waits
    <3>2. req[g].on = {<<"row", req[g].seen>>}
      BY <1>3, <2>2 DEF Known
    <3> QED BY <3>1, <3>2
  <2>5. CASE manner = "serial"
    BY <2>1, <2>5 DEF Waits
  <2> QED BY <2>2, <2>3, <2>4, <2>5
<1>4. r.op = op /\ r.seen = v
  OBVIOUS
<1> HIDE DEF r
<1> QED BY <1>1, <1>2, <1>3, <1>4, SlotOnly

\* A request writes its row r and ends.  Only its own request says whether the volunteer
\* has checked in, if clients wait.
LEMMA Writes ==
    ASSUME AttendanceInv, NEW h \in Handlers, NEW op \in Own \cup {"verify", "status"},
           NEW r \in Row, Write(h, op, r),
           r.checkedIn => r.checkInAt >= StartTime /\ r.checkInAt <= minute,
           op \notin Own => r.checkedIn = RowOf(h).checkedIn,
           manner # "any" /\ r.checkedOut => r.checkedIn /\ r.checkInAt <= r.checkOutAt
    PROVE  AttendanceInv'
<1> DEFINE v == req[h].seen
<1>1. /\ req[h].op = op /\ v \in Volunteers
      /\ req' = [req EXCEPT ![h] = Idle] /\ row' = [row EXCEPT ![v] = r]
      /\ UNCHANGED <<manner, minute>>
  BY DEF Write, At, End, AttendanceInv, InFlight, Known
<1> HIDE DEF v
<1>2. /\ row' \in [Volunteers -> Row] /\ row'[v] = r
      /\ \A u \in Volunteers \ {v} : row'[u] = row[u]
  BY <1>1 DEF AttendanceInv, AttendanceTypeOK, Row
<1>3. /\ DOMAIN req' = Handlers /\ req'[h] = Idle
      /\ \A g \in Handlers \ {h} : req'[g] = req[g]
  BY <1>1 DEF AttendanceInv, InFlight
<1>4. AttendanceTypeOK'
  BY <1>1, <1>2 DEF AttendanceInv, AttendanceTypeOK, Row
<1>5. InFlight'
  <2>1. \A q : Known(q) => Known(q)'
    BY <1>1 DEF Known
  <2> QED BY <1>3, <2>1, IdleKnown DEF AttendanceInv, InFlight
<1>6. Past'
  BY <1>1, <1>2 DEF AttendanceInv, Past
<1>7. CheckOutFollowsCheckIn'
  BY <1>1, <1>2 DEF AttendanceInv, CheckOutFollowsCheckIn
<1>8. TakeTurns'
  <2> SUFFICES ASSUME manner # "any"
               PROVE  /\ \A g \in Handlers : Current(req[g])'
                      /\ \A f, g \in Handlers :
                            f # g /\ req'[f].op \in Own /\ req'[g].op \in Own
                                => req'[f].seen # req'[g].seen
    BY <1>1 DEF TakeTurns
  <2>1. Idle.op \notin Own
    BY DEF Idle, Own
  <2>2. \A f, g \in Handlers :
            f # g /\ req'[f].op \in Own /\ req'[g].op \in Own => req'[f].seen # req'[g].seen
    BY <1>3, <2>1 DEF AttendanceInv, TakeTurns
  <2>3. ASSUME NEW g \in Handlers PROVE Current(req[g])'
    <3>1. CASE g = h
      BY <1>3, <2>1, <3>1 DEF Current, Own
    <3>2. CASE g # h
      <4>1. req'[g] = req[g] /\ Current(req[g]) /\ Known(req[g])
        BY <1>3, <3>2 DEF AttendanceInv, TakeTurns, InFlight
      <4>2. CASE req[g].op \in Own
        <5>1. req[g].seen \in Volunteers /\ (op \in Own => req[g].seen # v)
          BY <1>1, <3>2, <4>1, <4>2 DEF Known, AttendanceInv, TakeTurns, v
        <5>2. row'[req[g].seen].checkedIn = row[req[g].seen].checkedIn
          BY <1>2, <5>1 DEF RowOf, v
        <5> QED BY <4>1, <5>2 DEF Current
      <4>3. CASE req[g].op \notin Own
        BY <4>1, <4>3 DEF Current, Own
      <4> QED BY <4>2, <4>3
    <3> QED BY <3>1, <3>2
  <2> QED BY <2>2, <2>3
<1> QED BY <1>1, <1>4, <1>5, <1>6, <1>7, <1>8 DEF AttendanceInv

-----------------------------------------------------------------------------
(* One step for each action. *)

LEMMA RowType ==
    ASSUME AttendanceInv, NEW v \in Volunteers
    PROVE  /\ row[v] \in Row
           /\ row[v].checkedIn => row[v].checkInAt >= StartTime /\ row[v].checkInAt <= minute
           /\ manner # "any" /\ row[v].checkedOut =>
                row[v].checkedIn /\ row[v].checkInAt <= row[v].checkOutAt
  BY DEF AttendanceInv, AttendanceTypeOK, Past, CheckOutFollowsCheckIn, Row

LEMMA CheckInStep ==
    ASSUME AttendanceInv, NEW h \in Handlers, CheckIn(h)
    PROVE  AttendanceInv'
<1>1. ASSUME NEW v \in Volunteers, CanCheckIn(v), AttendanceRequest(h, "checkIn", v, v, 0)
      PROVE  AttendanceInv'
  BY <1>1, Arrives DEF CanCheckIn, Own
<1>2. CASE Write(h, "checkIn", [RowOf(h) EXCEPT !.checkedIn = TRUE, !.checkInAt = minute])
  <2> DEFINE r == [RowOf(h) EXCEPT !.checkedIn = TRUE, !.checkInAt = minute]
  <2>1. req[h].op = "checkIn" /\ Known(req[h])
    BY <1>2 DEF Write, At, AttendanceInv, InFlight
  <2>2. /\ RowOf(h) \in Row
        /\ manner # "any" /\ RowOf(h).checkedOut => RowOf(h).checkedIn
    BY <2>1, RowType DEF Known, Own, RowOf
  <2>3. minute \in Nat /\ minute >= StartTime
    BY <2>1 DEF Known, AttendanceInv, AttendanceTypeOK
  <2>4. manner # "any" => ~ RowOf(h).checkedIn
    BY <2>1 DEF AttendanceInv, TakeTurns, Current, RowOf
  <2>5. /\ r \in Row /\ r.checkedIn /\ r.checkInAt = minute
        /\ r.checkedOut = RowOf(h).checkedOut
    BY <2>2, <2>3 DEF Row
  <2> HIDE DEF r
  <2>6. Write(h, "checkIn", r)
    BY <1>2 DEF r
  <2> QED BY <2>2, <2>3, <2>4, <2>5, <2>6, Writes DEF Own
<1> QED BY <1>1, <1>2 DEF CheckIn

LEMMA CheckOutStep ==
    ASSUME AttendanceInv, NEW h \in Handlers, CheckOut(h)
    PROVE  AttendanceInv'
<1>1. ASSUME NEW v \in Volunteers, CanCheckOut(v), AttendanceRequest(h, "checkOut", v, v, 0)
      PROVE  AttendanceInv'
  BY <1>1, Arrives DEF CanCheckOut, Own
<1>2. CASE Write(h, "checkOut", [RowOf(h) EXCEPT !.checkedOut = TRUE, !.checkOutAt = minute])
  <2> DEFINE r == [RowOf(h) EXCEPT !.checkedOut = TRUE, !.checkOutAt = minute]
  <2>1. req[h].op = "checkOut" /\ Known(req[h])
    BY <1>2 DEF Write, At, AttendanceInv, InFlight
  <2>2. /\ RowOf(h) \in Row
        /\ RowOf(h).checkedIn =>
             RowOf(h).checkInAt >= StartTime /\ RowOf(h).checkInAt <= minute
    BY <2>1, RowType DEF Known, Own, RowOf
  <2>3. minute \in Nat
    BY DEF AttendanceInv, AttendanceTypeOK
  <2>4. manner # "any" => RowOf(h).checkedIn
    BY <2>1 DEF AttendanceInv, TakeTurns, Current, RowOf
  <2>5. /\ r \in Row /\ r.checkedOut /\ r.checkOutAt = minute
        /\ r.checkedIn = RowOf(h).checkedIn /\ r.checkInAt = RowOf(h).checkInAt
    BY <2>2, <2>3 DEF Row
  <2> HIDE DEF r
  <2>6. Write(h, "checkOut", r)
    BY <1>2 DEF r
  <2> QED BY <2>2, <2>3, <2>4, <2>5, <2>6, Writes DEF Own
<1> QED BY <1>1, <1>2 DEF CheckOut

\* Nothing but a verification or an approval changes in a row.
SameTimes(r, q) ==
    /\ r.checkedIn = q.checkedIn /\ r.checkInAt = q.checkInAt
    /\ r.checkedOut = q.checkedOut /\ r.checkOutAt = q.checkOutAt

LEMMA VerifiedType ==
    ASSUME NEW q \in Row, NEW in \in Answers, NEW out \in Answers
    PROVE  Verified(q, in, out) \in Row /\ SameTimes(Verified(q, in, out), q)
  BY DEF Verified, Row, SameTimes

LEMMA VerifyByIdStep ==
    ASSUME AttendanceInv, NEW h \in Handlers, VerifyCheckInById(h)
    PROVE  AttendanceInv'
<1>1. ASSUME NEW p \in Staff, NEW v \in Volunteers, NEW in \in Given, NEW out \in Given,
             AttendanceRequest(h, "verify", p, v, <<in, out>>)
      PROVE  AttendanceInv'
  BY <1>1, Arrives DEF Own
<1>2. CASE Write(h, "verify", Verified(RowOf(h), req[h].arg[1], req[h].arg[2]))
  <2> DEFINE r == Verified(RowOf(h), req[h].arg[1], req[h].arg[2])
  <2>1. req[h].op = "verify" /\ Known(req[h])
    BY <1>2 DEF Write, At, AttendanceInv, InFlight
  <2>2. req[h].seen \in Volunteers /\ req[h].arg[1] \in Answers /\ req[h].arg[2] \in Answers
    BY <2>1 DEF Known, Given, Answers
  <2>3. /\ RowOf(h) \in Row
        /\ RowOf(h).checkedIn =>
             RowOf(h).checkInAt >= StartTime /\ RowOf(h).checkInAt <= minute
        /\ manner # "any" /\ RowOf(h).checkedOut =>
             RowOf(h).checkedIn /\ RowOf(h).checkInAt <= RowOf(h).checkOutAt
    BY <2>2, RowType DEF RowOf
  <2>4. r \in Row /\ SameTimes(r, RowOf(h))
    BY <2>2, <2>3, VerifiedType
  <2> HIDE DEF r
  <2>5. Write(h, "verify", r)
    BY <1>2 DEF r
  <2> QED BY <2>3, <2>4, <2>5, Writes DEF Own, SameTimes
<1> QED BY <1>1, <1>2 DEF VerifyCheckInById

LEMMA ChangeStatusStep ==
    ASSUME AttendanceInv, NEW h \in Handlers, ChangeStatus(h)
    PROVE  AttendanceInv'
<1>1. ASSUME NEW v \in Volunteers, NEW p, NEW s \in RowStatuses,
             AttendanceRequest(h, "status", p, v, s)
      PROVE  AttendanceInv'
  BY <1>1, Arrives DEF Own
<1>2. CASE Write(h, "status", [RowOf(h) EXCEPT !.status = req[h].arg])
  <2> DEFINE r == [RowOf(h) EXCEPT !.status = req[h].arg]
  <2>1. req[h].op = "status" /\ Known(req[h])
    BY <1>2 DEF Write, At, AttendanceInv, InFlight
  <2>2. req[h].seen \in Volunteers /\ req[h].arg \in RowStatuses
    BY <2>1 DEF Known
  <2>3. /\ RowOf(h) \in Row
        /\ RowOf(h).checkedIn =>
             RowOf(h).checkInAt >= StartTime /\ RowOf(h).checkInAt <= minute
        /\ manner # "any" /\ RowOf(h).checkedOut =>
             RowOf(h).checkedIn /\ RowOf(h).checkInAt <= RowOf(h).checkOutAt
    BY <2>2, RowType DEF RowOf
  <2>4. r \in Row /\ SameTimes(r, RowOf(h))
    BY <2>2, <2>3 DEF Row, SameTimes
  <2> HIDE DEF r
  <2>5. Write(h, "status", r)
    BY <1>2 DEF r
  <2> QED BY <2>3, <2>4, <2>5, Writes DEF Own, SameTimes
<1> QED BY <1>1, <1>2 DEF ChangeStatus, RowStatuses

LEMMA VerifyManyStep ==
    ASSUME AttendanceInv, NEW p \in Staff, NEW h \in Handlers, VerifyCheckInMany(h, p)
    PROVE  AttendanceInv'
<1>1. PICK said \in [Volunteers -> [in : Answers, out : Answers]] :
        row' = [v \in Volunteers |->
                 IF IsApproved(v) /\ said[v].in # "null"
                 THEN Verified(row[v], said[v].in, said[v].out) ELSE row[v]]
  BY DEF VerifyCheckInMany
<1>2. UNCHANGED <<requestVars, minute>>
  BY DEF VerifyCheckInMany
<1>3. ASSUME NEW v \in Volunteers PROVE row'[v] \in Row /\ SameTimes(row'[v], row[v])
  <2>1. row[v] \in Row /\ SameTimes(row[v], row[v])
    BY RowType DEF SameTimes
  <2>2. Verified(row[v], said[v].in, said[v].out) \in Row
        /\ SameTimes(Verified(row[v], said[v].in, said[v].out), row[v])
    BY <2>1, VerifiedType
  <2>3. row'[v] = row[v] \/ row'[v] = Verified(row[v], said[v].in, said[v].out)
    BY <1>1
  <2> QED BY <2>1, <2>2, <2>3
<1>4. row' \in [Volunteers -> Row]
  BY <1>1, <1>3
<1>5. AttendanceTypeOK'
  BY <1>2, <1>3, <1>4 DEF AttendanceInv, AttendanceTypeOK, Row, SameTimes
<1>6. Past' /\ CheckOutFollowsCheckIn'
  BY <1>2, <1>3 DEF AttendanceInv, Past, CheckOutFollowsCheckIn, SameTimes, requestVars
<1>7. InFlight'
  BY <1>2 DEF AttendanceInv, InFlight, Known, requestVars
<1>8. TakeTurns'
  <2>1. \A h1 \in Handlers : req[h1].op \in Own => req[h1].seen \in Volunteers
    BY DEF AttendanceInv, InFlight, Known
  <2>2. \A h1 \in Handlers : Current(req[h1]) => Current(req[h1])'
    BY <1>2, <1>3, <2>1 DEF Current, Own, SameTimes, requestVars
  <2> QED BY <1>2, <2>2 DEF AttendanceInv, TakeTurns, requestVars
<1> QED BY <1>2, <1>5, <1>6, <1>7, <1>8 DEF AttendanceInv, requestVars

LEMMA AttendanceInvStep == AttendanceInv /\ [AttendanceNext]_allAttendanceVars => AttendanceInv'
<1> SUFFICES ASSUME AttendanceInv, [AttendanceNext]_allAttendanceVars PROVE AttendanceInv'
  OBVIOUS
<1>1. ASSUME NEW h \in Handlers, Abort(h), UNCHANGED attendanceVars PROVE AttendanceInv'
  <2>1. req' = [req EXCEPT ![h] = Idle] /\ UNCHANGED <<manner, attendanceVars>>
    BY <1>1 DEF Abort
  <2>2. Idle.op \notin Own
    BY DEF Idle, Own
  <2> QED BY <2>1, <2>2, IdleKnown, SlotOnly
<1>2. CASE MinutePasses
  <2>1. minute' = minute + 1 /\ UNCHANGED <<requestVars, row>>
    BY <1>2 DEF MinutePasses
  <2>2. minute \in Nat
    BY DEF AttendanceInv, AttendanceTypeOK
  <2>3. AttendanceTypeOK' /\ CheckOutFollowsCheckIn'
    BY <2>1, <2>2 DEF AttendanceInv, AttendanceTypeOK, CheckOutFollowsCheckIn, requestVars
  <2>4. Past'
    <3>1. \A v \in Volunteers : row[v].checkInAt \in Nat
      BY DEF AttendanceInv, AttendanceTypeOK
    <3> QED BY <2>1, <2>2, <3>1 DEF AttendanceInv, Past
  <2>5. InFlight' /\ TakeTurns'
    BY <2>1, <2>2 DEF AttendanceInv, InFlight, Known, TakeTurns, Current, requestVars
  <2> QED BY <2>1, <2>3, <2>4, <2>5 DEF AttendanceInv, requestVars
<1>3. CASE UNCHANGED allAttendanceVars
  BY <1>3 DEF allAttendanceVars, requestVars, attendanceVars, AttendanceInv,
              AttendanceTypeOK, Past, CheckOutFollowsCheckIn, InFlight, Known, TakeTurns, Current
<1> QED
  BY <1>1, <1>2, <1>3, CheckInStep, CheckOutStep, VerifyManyStep, VerifyByIdStep, ChangeStatusStep
  DEF AttendanceNext

\* However requests race, rows stay well formed and nobody has checked in before the
\* shift starts: a check-in that has seen it started writes a later instant.
THEOREM AttendanceTypeCorrect == AttendanceSpec => []AttendanceTypeOK
<1>1. AttendanceInv => AttendanceTypeOK
  BY DEF AttendanceInv
<1> QED BY <1>1, AttendanceInvInit, AttendanceInvStep, PTL DEF AttendanceSpec

\* A volunteer that waits for the answers has checked in before checking out, whatever the
\* staff does: the strengthening says that what a request has seen of its row still holds.
THEOREM CheckOutComesLater == AttendanceSpec => []CheckOutFollowsCheckIn
<1>1. AttendanceInv => CheckOutFollowsCheckIn
  BY DEF AttendanceInv
<1> QED BY <1>1, AttendanceInvInit, AttendanceInvStep, PTL DEF AttendanceSpec

-----------------------------------------------------------------------------
(* What is settled stays: of the requests about a registration there is one,   *)
(* and it was let in by what the row still says.                               *)

Unsettled(r) ==
    /\ r.op = "checkIn" => IsApproved(r.seen) /\ row[r.seen].isCheckInVerified = "null"
    /\ r.op = "checkOut" => IsApproved(r.seen) /\ row[r.seen].isCheckOutVerified = "null"

SettledInv ==
    /\ AttendanceInv /\ Exclusive
    /\ Apart => \A h \in Handlers : Unsettled(req[h])

\* What a step may not do to the rows.
Spared == Apart => \A v \in Volunteers : Settled(row[v], row'[v])

LEMMA SettledInit == RequestsInit /\ AttendanceInit => SettledInv
<1> SUFFICES ASSUME RequestsInit, AttendanceInit PROVE SettledInv
  OBVIOUS
<1>1. \A h \in Handlers : req[h] = Idle
  BY DEF RequestsInit
<1>2. Idle.op = "idle"
  BY DEF Idle
<1>3. Exclusive /\ \A h \in Handlers : Unsettled(req[h])
  BY <1>1, <1>2 DEF Exclusive, Busy, Unsettled, IsApproved
<1> QED BY <1>3, AttendanceInvInit DEF SettledInv

\* One slot takes another request, while the rows stay.
LEMMA SlotSettled ==
    ASSUME SettledInv, AttendanceInv', Exclusive', NEW h \in Handlers, NEW r,
           req' = [req EXCEPT ![h] = r], UNCHANGED <<manner, row>>,
           Apart => Unsettled(r)
    PROVE  SettledInv' /\ Spared
<1>1. req'[h] = r /\ \A g \in Handlers \ {h} : req'[g] = req[g]
  BY DEF SettledInv, AttendanceInv, InFlight
<1>2. \A q : Unsettled(q) => Unsettled(q)'
  BY DEF Unsettled, IsApproved
<1>3. (Apart => \A g \in Handlers : Unsettled(req[g]))'
  <2> SUFFICES ASSUME Apart, NEW g \in Handlers PROVE Unsettled(req[g])'
    BY DEF Apart
  <2>1. CASE g = h
    <3>1. Unsettled(r)'
      BY <1>2
    <3> QED BY <1>1, <2>1, <3>1 DEF Unsettled, IsApproved
  <2>2. CASE g # h
    <3>1. Unsettled(req[g]) /\ req'[g] = req[g]
      BY <1>1, <2>2 DEF SettledInv
    <3> QED BY <3>1 DEF Unsettled, IsApproved
  <2> QED BY <2>1, <2>2
<1>4. Spared
  BY DEF Spared, Settled
<1> QED BY <1>3, <1>4 DEF SettledInv

\* A request arrives, about a row that nobody has settled.
LEMMA ArrivesSettled ==
    ASSUME SettledInv, AttendanceInv', NEW h \in Handlers, NEW op, NEW by, NEW v, NEW arg,
           AttendanceRequest(h, op, by, v, arg),
           op = "checkIn" => IsApproved(v) /\ row[v].isCheckInVerified = "null",
           op = "checkOut" => IsApproved(v) /\ row[v].isCheckOutVerified = "null"
    PROVE  SettledInv' /\ Spared
<1> DEFINE r == [op |-> op, at |-> "write", by |-> by, on |-> {<<"row", v>>},
                 arg |-> arg, seen |-> v]
<1>1. Begin(h, r) /\ UNCHANGED row
  BY DEF AttendanceRequest, attendanceVars
<1>2. r.op = op /\ r.seen = v
  OBVIOUS
<1> HIDE DEF r
<1>3. Exclusive'
  BY <1>1, ExclusiveBegin DEF SettledInv, AttendanceInv, InFlight
<1>4. Unsettled(r)
  BY <1>2 DEF Unsettled, IsApproved
<1> QED BY <1>1, <1>3, <1>4, SlotSettled DEF Begin

\* A request writes its row r and ends: nobody else is about that row.
LEMMA WritesSettled ==
    ASSUME SettledInv, AttendanceInv', NEW h \in Handlers,
           NEW op \in Own \cup {"verify", "status"}, NEW r \in Row, Write(h, op, r),
           Apart => Settled(RowOf(h), r)
    PROVE  SettledInv' /\ Spared
<1> DEFINE v == req[h].seen
<1>1. /\ req[h].op = op /\ v \in Volunteers /\ req[h].on = {<<"row", v>>} /\ End(h)
      /\ row' = [row EXCEPT ![v] = r]
  BY DEF Write, At, SettledInv, AttendanceInv, InFlight, Known
<1> HIDE DEF v
<1>2. row'[v] = r /\ \A u \in Volunteers \ {v} : row'[u] = row[u]
  BY <1>1 DEF SettledInv, AttendanceInv, AttendanceTypeOK
<1>3. Takes(h, Idle) /\ Exclusive' /\ manner' = manner
  BY <1>1, Ends DEF SettledInv, AttendanceInv, InFlight, End
<1>4. Spared
  <2>1. RowOf(h) = row[v]
    BY DEF RowOf, v
  <2> QED BY <1>2, <2>1 DEF Spared, Settled
<1>5. ASSUME Apart, NEW g \in Handlers PROVE Unsettled(req[g])'
  <2>1. CASE g = h
    <3>1. req'[g] = Idle /\ Idle.op = "idle"
      BY <1>3, <2>1 DEF Takes, Idle
    <3> QED BY <3>1 DEF Unsettled, IsApproved
  <2>2. CASE g # h /\ req[g].op \in Own
    <3>1. req'[g] = req[g] /\ Unsettled(req[g]) /\ Known(req[g])
      BY <1>3, <1>5, <2>2 DEF Takes, SettledInv, AttendanceInv, InFlight
    <3>2. req[g].seen \in Volunteers /\ req[g].on = {<<"row", req[g].seen>>}
      BY <2>2, <3>1 DEF Known
    <3>3. req[g].seen # v
      <4>1. Busy(g) /\ Busy(h)
        BY <1>1, <2>2 DEF Busy, Own
      <4>2. req[g].seen = v => <<"row", v>> \in req[g].on /\ <<"row", v>> \in req[h].on
        BY <1>1, <3>2
      <4> QED BY <1>5, <2>2, <4>1, <4>2, OneInFlight DEF SettledInv
    <3>4. row'[req[g].seen] = row[req[g].seen]
      BY <1>2, <3>2, <3>3
    <3> QED BY <3>1, <3>4 DEF Unsettled, IsApproved
  <2>3. CASE g # h /\ req[g].op \notin Own
    <3>1. req'[g] = req[g]
      BY <1>3, <2>3 DEF Takes
    <3> QED BY <2>3, <3>1 DEF Unsettled, IsApproved, Own
  <2> QED BY <2>1, <2>2, <2>3
<1>6. (Apart => \A g \in Handlers : Unsettled(req[g]))'
  BY <1>3, <1>5 DEF Apart
<1> QED BY <1>3, <1>4, <1>6 DEF SettledInv

LEMMA CheckInSettled ==
    ASSUME SettledInv, AttendanceInv', NEW h \in Handlers, CheckIn(h)
    PROVE  SettledInv' /\ Spared
<1>1. ASSUME NEW v \in Volunteers, IsApproved(v), CanCheckIn(v),
             AttendanceRequest(h, "checkIn", v, v, 0)
      PROVE  SettledInv' /\ Spared
  BY <1>1, ArrivesSettled DEF CanCheckIn
<1>2. CASE Write(h, "checkIn", [RowOf(h) EXCEPT !.checkedIn = TRUE, !.checkInAt = minute])
  <2> DEFINE r == [RowOf(h) EXCEPT !.checkedIn = TRUE, !.checkInAt = minute]
  <2>1. req[h].op = "checkIn" /\ Known(req[h])
    BY <1>2 DEF Write, At, SettledInv, AttendanceInv, InFlight
  <2>2. RowOf(h) \in Row
    BY <2>1, RowType DEF SettledInv, Known, Own, RowOf
  <2>3. minute \in Nat
    BY DEF SettledInv, AttendanceInv, AttendanceTypeOK
  <2>4. Apart => RowOf(h).status = "approved" /\ RowOf(h).isCheckInVerified = "null"
    BY <2>1 DEF SettledInv, Unsettled, IsApproved, RowOf
  <2>5. /\ r \in Row /\ r.checkedOut = RowOf(h).checkedOut
        /\ r.checkOutAt = RowOf(h).checkOutAt
    BY <2>2, <2>3 DEF Row
  <2> HIDE DEF r
  <2>6. Write(h, "checkIn", r)
    BY <1>2 DEF r
  <2> QED BY <2>4, <2>5, <2>6, WritesSettled DEF Own, Settled
<1> QED BY <1>1, <1>2 DEF CheckIn

LEMMA CheckOutSettled ==
    ASSUME SettledInv, AttendanceInv', NEW h \in Handlers, CheckOut(h)
    PROVE  SettledInv' /\ Spared
<1>1. ASSUME NEW v \in Volunteers, IsApproved(v), CanCheckOut(v),
             AttendanceRequest(h, "checkOut", v, v, 0)
      PROVE  SettledInv' /\ Spared
  BY <1>1, ArrivesSettled DEF CanCheckOut
<1>2. CASE Write(h, "checkOut", [RowOf(h) EXCEPT !.checkedOut = TRUE, !.checkOutAt = minute])
  <2> DEFINE r == [RowOf(h) EXCEPT !.checkedOut = TRUE, !.checkOutAt = minute]
  <2>1. req[h].op = "checkOut" /\ Known(req[h])
    BY <1>2 DEF Write, At, SettledInv, AttendanceInv, InFlight
  <2>2. RowOf(h) \in Row
    BY <2>1, RowType DEF SettledInv, Known, Own, RowOf
  <2>3. minute \in Nat
    BY DEF SettledInv, AttendanceInv, AttendanceTypeOK
  <2>4. Apart => RowOf(h).status = "approved" /\ RowOf(h).isCheckOutVerified = "null"
    BY <2>1 DEF SettledInv, Unsettled, IsApproved, RowOf
  <2>5. /\ r \in Row /\ r.checkedIn = RowOf(h).checkedIn
        /\ r.checkInAt = RowOf(h).checkInAt
    BY <2>2, <2>3 DEF Row
  <2> HIDE DEF r
  <2>6. Write(h, "checkOut", r)
    BY <1>2 DEF r
  <2> QED BY <2>4, <2>5, <2>6, WritesSettled DEF Own, Settled
<1> QED BY <1>1, <1>2 DEF CheckOut

LEMMA VerifySettled ==
    ASSUME SettledInv, AttendanceInv', NEW h \in Handlers, VerifyCheckInById(h)
    PROVE  SettledInv' /\ Spared
<1>1. ASSUME NEW p \in Staff, NEW v \in Volunteers, NEW in \in Given, NEW out \in Given,
             AttendanceRequest(h, "verify", p, v, <<in, out>>)
      PROVE  SettledInv' /\ Spared
  BY <1>1, ArrivesSettled
<1>2. CASE Write(h, "verify", Verified(RowOf(h), req[h].arg[1], req[h].arg[2]))
  <2> DEFINE r == Verified(RowOf(h), req[h].arg[1], req[h].arg[2])
  <2>1. req[h].op = "verify" /\ Known(req[h])
    BY <1>2 DEF Write, At, SettledInv, AttendanceInv, InFlight
  <2>2. req[h].seen \in Volunteers /\ req[h].arg[1] \in Answers /\ req[h].arg[2] \in Answers
    BY <2>1 DEF Known, Given, Answers
  <2>3. RowOf(h) \in Row
    BY <2>2, RowType DEF SettledInv, RowOf
  <2>4. r \in Row /\ SameTimes(r, RowOf(h))
    BY <2>2, <2>3, VerifiedType
  <2> HIDE DEF r
  <2>5. Write(h, "verify", r)
    BY <1>2 DEF r
  <2> QED BY <2>4, <2>5, WritesSettled DEF Settled, SameTimes
<1> QED BY <1>1, <1>2 DEF VerifyCheckInById

LEMMA ChangeStatusSettled ==
    ASSUME SettledInv, AttendanceInv', NEW h \in Handlers, ChangeStatus(h)
    PROVE  SettledInv' /\ Spared
<1>1. ASSUME NEW v \in Volunteers, NEW p, NEW s, AttendanceRequest(h, "status", p, v, s)
      PROVE  SettledInv' /\ Spared
  BY <1>1, ArrivesSettled
<1>2. CASE Write(h, "status", [RowOf(h) EXCEPT !.status = req[h].arg])
  <2> DEFINE r == [RowOf(h) EXCEPT !.status = req[h].arg]
  <2>1. req[h].op = "status" /\ Known(req[h])
    BY <1>2 DEF Write, At, SettledInv, AttendanceInv, InFlight
  <2>2. RowOf(h) \in Row /\ req[h].arg \in RowStatuses
    BY <2>1, RowType DEF SettledInv, Known, RowOf
  <2>3. r \in Row /\ SameTimes(r, RowOf(h))
    BY <2>2 DEF Row, SameTimes
  <2> HIDE DEF r
  <2>4. Write(h, "status", r)
    BY <1>2 DEF r
  <2> QED BY <2>3, <2>4, WritesSettled DEF Settled, SameTimes
<1> QED BY <1>1, <1>2 DEF ChangeStatus

\* Several rows at once, which nobody else is about.
LEMMA VerifyManySettled ==
    ASSUME SettledInv, AttendanceInv', NEW p \in Staff, NEW h \in Handlers,
           VerifyCheckInMany(h, p)
    PROVE  SettledInv' /\ Spared
<1>1. PICK said \in [Volunteers -> [in : Answers, out : Answers]] :
        row' = [v \in Volunteers |->
                 IF IsApproved(v) /\ said[v].in # "null"
                 THEN Verified(row[v], said[v].in, said[v].out) ELSE row[v]]
  BY DEF VerifyCheckInMany
<1>2. UNCHANGED <<req, manner>>
  BY DEF VerifyCheckInMany, requestVars
<1>3. ASSUME NEW v \in Volunteers PROVE SameTimes(row'[v], row[v])
  <2>1. row[v] \in Row /\ SameTimes(row[v], row[v])
    BY RowType DEF SettledInv, SameTimes
  <2>2. SameTimes(Verified(row[v], said[v].in, said[v].out), row[v])
    BY <2>1, VerifiedType
  <2> QED BY <1>1, <2>1, <2>2
<1>4. Spared
  BY <1>3 DEF Spared, Settled, SameTimes
<1>5. Exclusive'
  BY <1>2 DEF SettledInv, Exclusive, Busy, Waits
<1>6. ASSUME Apart, NEW g \in Handlers, Busy(g) PROVE req[g].op \notin Own
  <2>1. ~ Waits([Idle EXCEPT !.by = p, !.on = {<<"row", v>> : v \in Volunteers}], req[g])
    BY <1>6 DEF VerifyCheckInMany
  <2>2. ASSUME req[g].op \in Own PROVE FALSE
    <3>1. req[g].seen \in Volunteers /\ req[g].on = {<<"row", req[g].seen>>}
      BY <2>2 DEF SettledInv, AttendanceInv, InFlight, Known
    <3>2. [Idle EXCEPT !.by = p, !.on = {<<"row", v>> : v \in Volunteers}].on
            = {<<"row", v>> : v \in Volunteers}
      BY DEF Idle
    <3>3. <<"row", req[g].seen>> \in {<<"row", v>> : v \in Volunteers}
      BY <3>1
    <3> QED BY <1>6, <2>1, <3>1, <3>2, <3>3 DEF Waits, Apart
  <2> QED BY <2>2
<1>7. (Apart => \A g \in Handlers : Unsettled(req[g]))'
  BY <1>2, <1>6 DEF Apart, Unsettled, IsApproved, Own, Busy
<1> QED BY <1>4, <1>5, <1>7 DEF SettledInv

LEMMA SettledStep ==
    SettledInv /\ [AttendanceNext]_allAttendanceVars => SettledInv' /\ Spared
<1> SUFFICES ASSUME SettledInv, [AttendanceNext]_allAttendanceVars PROVE SettledInv' /\ Spared
  OBVIOUS
<1>1. AttendanceInv'
  BY AttendanceInvStep DEF SettledInv
<1>2. ASSUME NEW h \in Handlers, Abort(h), UNCHANGED attendanceVars
      PROVE  SettledInv' /\ Spared
  <2>1. req' = [req EXCEPT ![h] = Idle] /\ UNCHANGED <<manner, row>>
    BY <1>2 DEF Abort, attendanceVars
  <2>2. Idle.op = "idle"
    BY DEF Idle
  <2>3. Exclusive'
    BY <2>1, <2>2, ExclusiveGoesOn DEF SettledInv, AttendanceInv, InFlight
  <2>4. Unsettled(Idle)
    BY <2>2 DEF Unsettled, IsApproved
  <2> QED BY <1>1, <2>1, <2>3, <2>4, SlotSettled
<1>3. CASE MinutePasses \/ UNCHANGED allAttendanceVars
  <2>1. UNCHANGED <<req, manner, row>>
    BY <1>3 DEF MinutePasses, allAttendanceVars, requestVars, attendanceVars
  <2>2. Exclusive'
    BY <2>1 DEF SettledInv, Exclusive, Busy, Waits
  <2>3. (Apart => \A g \in Handlers : Unsettled(req[g]))'
    BY <2>1 DEF SettledInv, Apart, Unsettled, IsApproved
  <2>4. Spared
    BY <2>1 DEF Spared, Settled
  <2> QED BY <1>1, <2>2, <2>3, <2>4 DEF SettledInv
<1> QED
  BY <1>1, <1>2, <1>3, CheckInSettled, CheckOutSettled, VerifySettled, ChangeStatusSettled,
     VerifyManySettled
  DEF AttendanceNext

\* If requests about a registration keep apart, attendance that the staff has settled, or
\* that of somebody who is no longer approved, is never written again, for any number of
\* volunteers and of requests in flight.
THEOREM SettledForGood == AttendanceSpec => SettledStaysSettled
<1>1. SettledInv /\ [AttendanceNext]_allAttendanceVars
        => [(manner \in {"subject", "serial"}) =>
              \A v \in Volunteers : Settled(row[v], row'[v])]_row
  BY SettledStep DEF Spared, Apart
<1> QED BY <1>1, SettledInit, SettledStep, PTL DEF AttendanceSpec, SettledStaysSettled

HIDE ShiftAssumption

-----------------------------------------------------------------------------
(* Reviews.  Hours are owed while a review has written the registration and    *)
(* has not added to the organization; a registration to come is owed a mark    *)
(* while a review has stored skills and has not looked for those that meet.    *)

\* The hours of each registration, if it were completed as c says.
Worth(c) == [s \in Completed |-> Duration[s] * c[s]]

Adding == {"skills", "replace", "create", "hours"}
Stages == Adding \cup {"write", "requirements", "meet"}

Pending(r) == r.op = "review" /\ r.at \in Adding

ReviewKinds(r) ==
    /\ DOMAIN r = Fields /\ r.op \in {"idle", "review", "refresh"}
    /\ r.op = "review" =>
          /\ r.at \in Stages /\ r.arg.shift \in Completed
          /\ r.arg.previous \in Nat /\ r.arg.next \in Nat
          /\ r.on = {<<"review", r.arg.shift>>}
    /\ r.op = "refresh" => r.on = {<<"review", s>> : s \in Completed}

Kept ==
    /\ DOMAIN req = Handlers /\ Exclusive /\ \A h \in Handlers : ReviewKinds(req[h])
    /\ completion \in [Completed -> Nat]
    /\ aborts \in Nat /\ repaired \in Nat /\ repaired <= aborts

\* What requests that keep apart have read, or written, still holds.
Holds(r) ==
    /\ r.op = "review" /\ r.at = "write" => completion[r.arg.shift] = r.arg.previous
    /\ Pending(r) => completion[r.arg.shift] = r.arg.next
    /\ r.op = "refresh" => r.seen = Contributed

Holding == Apart => \A h \in Handlers : Holds(req[h])

\* f: the hours of each registration that the organization has been given.
Counts(f) ==
    /\ \A h \in Handlers : Pending(req[h]) =>
          f[req[h].arg.shift] = Duration[req[h].arg.shift] * req[h].arg.previous
    /\ \A s \in Completed :
          (\A h \in Handlers : Pending(req[h]) => req[h].arg.shift # s)
            => f[s] = Duration[s] * completion[s]

AddsUp == \E f \in [Completed -> Int] : Counts(f) /\ hoursContributed = Total(f, Completed)

Reckoned == Apart /\ aborts = repaired => AddsUp

\* Review r is going to mark the registration for s, if it meets what s asks for.
WillMark(r, s) ==
    /\ r.op = "review"
    /\ \/ r.at \in {"hours", "requirements"}
       \/ r.at = "meet" /\ s \in r.seen

Marked ==
    ~ failing => \A s \in Upcoming : Meets(profileSkill, s) =>
                    s \in meets \/ \E h \in Handlers : WillMark(req[h], s)

ReviewInv == Kept /\ Holding /\ Reckoned /\ Marked

-----------------------------------------------------------------------------
(* Hours. *)

LEMMA WorthType ==
    ASSUME NEW c \in [Completed -> Nat]
    PROVE  Worth(c) \in [Completed -> Int]
<1>1. \A x, y \in Nat : x * y \in Int
  OBVIOUS
<1> QED BY <1>1, DurationAssumption DEF Worth

\* The sum of the hours over the registrations, as it is read.
LEMMA ContributedIsTotal ==
    ASSUME completion \in [Completed -> Nat]
    PROVE  Contributed = Total(Worth(completion), Completed)
<1> DEFINE W(sum) == sum = [T \in SUBSET Completed |-> IF T = {} THEN 0
                  ELSE Duration[Pick(T)] * completion[Pick(T)] + sum[T \ {Pick(T)}]]
           chosen == CHOOSE sum : W(sum)
<1>1. Contributed = chosen[Completed]
  BY DEF Contributed, MapThenSumSet, MapThenFoldSet, Pick
<1>2. \A sum : W(sum) <=> SumsOf(Worth(completion), Completed, sum)
  <2>1. \A T \in SUBSET Completed : T # {} =>
          Worth(completion)[Pick(T)] = Duration[Pick(T)] * completion[Pick(T)]
    BY DEF Worth, Pick
  <2> QED BY <2>1 DEF SumsOf
<1>3. Worth(completion) \in [Completed -> Int]
  BY WorthType
<1> HIDE DEF W
<1>4. W(chosen)
  BY <1>2, <1>3, SumsExist, CompletedAssumption
<1> HIDE DEF chosen
<1> QED BY <1>1, <1>2, <1>3, <1>4, TotalIsSum, CompletedAssumption

LEMMA SameContributed == completion' = completion => Contributed' = Contributed
<1> DEFINE Sum(c) == MapThenSumSet(LAMBDA s : Duration[s] * c[s], Completed)
<1>1. Contributed = Sum(completion) /\ Contributed' = Sum(completion')
  BY DEF Contributed, MapThenSumSet, MapThenFoldSet
<1> HIDE DEF Sum
<1> QED BY <1>1

\* Nothing is owed when no review is under way.
LEMMA CountsIdle ==
    ASSUME Kept, NEW f \in [Completed -> Int], \A h \in Handlers : ~ Pending(req[h]), Counts(f)
    PROVE  f = Worth(completion)
<1>1. \A s \in Completed : f[s] = Duration[s] * completion[s]
  BY DEF Counts
<1> QED BY <1>1 DEF Worth

LEMMA IdleKinds == ReviewKinds(Idle) /\ ~ Pending(Idle) /\ Idle.op = "idle"
  BY DEF ReviewKinds, Pending, Idle, Fields

LEMMA ReviewInvInit == RequestsInit /\ ReviewInit => ReviewInv
<1> SUFFICES ASSUME RequestsInit, ReviewInit PROVE ReviewInv
  OBVIOUS
<1>1. DOMAIN req = Handlers /\ \A h \in Handlers : req[h] = Idle
  BY DEF RequestsInit
<1>2. completion \in [Completed -> Nat] /\ \A s \in Completed : completion[s] = 0
  BY DEF ReviewInit
<1>3. Kept
  <2>1. Exclusive
    BY <1>1, IdleKinds DEF Exclusive, Busy
  <2>2. aborts = 0 /\ repaired = 0
    BY DEF RequestsInit, ReviewInit
  <2> QED BY <1>1, <1>2, <2>1, <2>2, IdleKinds DEF Kept
<1>4. Holding
  BY <1>1, IdleKinds DEF Holding, Holds
<1>5. AddsUp
  <2>1. Worth(completion) \in [Completed -> Int]
    BY <1>2, WorthType
  <2>2. \A s \in Completed : Worth(completion)[s] = Duration[s] * completion[s]
    BY DEF Worth
  <2>3. \A s \in Completed : Worth(completion)[s] = 0
    <3>1. \A x \in Nat : x * 0 = 0
      OBVIOUS
    <3> QED BY <1>2, <2>2, <3>1, DurationAssumption
  <2>4. Counts(Worth(completion))
    BY <1>1, <2>2, IdleKinds DEF Counts
  <2>5. hoursContributed = Total(Worth(completion), Completed)
    BY <2>1, <2>3, TotalZero, CompletedAssumption DEF ReviewInit
  <2> QED BY <2>1, <2>4, <2>5 DEF AddsUp
<1>6. Marked
  BY DEF ReviewInit, Marked
<1> QED BY <1>3, <1>4, <1>5, <1>6 DEF ReviewInv, Reckoned

-----------------------------------------------------------------------------
(* What keeps each part, when slot h takes the request r. *)

LEMMA KeptStays ==
    ASSUME Kept, NEW h \in Handlers, NEW r, Takes(h, r), Exclusive', ReviewKinds(r),
           completion' \in [Completed -> Nat],
           aborts' \in Nat, repaired' \in Nat, repaired' <= aborts'
    PROVE  Kept'
<1>1. \A g \in Handlers : ReviewKinds(req'[g])
  BY DEF Kept, Takes
<1> QED BY <1>1 DEF Kept, Takes, ReviewKinds

LEMMA HoldingStays ==
    ASSUME Kept, Holding, NEW h \in Handlers, NEW r, Takes(h, r),
           UNCHANGED <<manner, completion>>, Apart => Holds(r)
    PROVE  Holding'
<1> SUFFICES ASSUME Apart, NEW g \in Handlers PROVE Holds(req[g])'
  BY DEF Holding, Apart
<1>1. \A q : Holds(q) => Holds(q)'
  BY SameContributed DEF Holds
<1>2. PICK q : q = req'[g]
  OBVIOUS
<1>3. Holds(q)
  BY <1>2 DEF Holding, Takes
<1> QED BY <1>1, <1>2, <1>3 DEF Holds

LEMMA ReckonedStays ==
    ASSUME Reckoned, NEW h \in Handlers, NEW r, Takes(h, r),
           UNCHANGED <<manner, completion, hoursContributed, aborts, repaired>>,
           Pending(r) <=> Pending(req[h]), Pending(r) => r.arg = req[h].arg
    PROVE  Reckoned'
<1> SUFFICES ASSUME AddsUp PROVE AddsUp'
  BY DEF Reckoned, Apart
<1>1. PICK f \in [Completed -> Int] : Counts(f) /\ hoursContributed = Total(f, Completed)
  BY DEF AddsUp
<1>2. \A g \in Handlers : /\ Pending(req'[g]) <=> Pending(req[g])
                          /\ Pending(req[g]) => req'[g].arg = req[g].arg
  BY DEF Takes
<1>3. Counts(f)'
  BY <1>1, <1>2 DEF Counts, Pending
<1> QED BY <1>1, <1>3 DEF AddsUp

LEMMA MarkedStays ==
    ASSUME Marked, NEW h \in Handlers, NEW r, Takes(h, r), failing' = failing,
           meets \subseteq meets',
           \A s \in Upcoming : Meets(profileSkill', s) =>
                \/ WillMark(r, s) \/ s \in meets'
                \/ Meets(profileSkill, s) /\ ~ WillMark(req[h], s)
    PROVE  Marked'
<1> SUFFICES ASSUME ~ failing, NEW s \in Upcoming, Meets(profileSkill', s), s \notin meets'
             PROVE  \E g \in Handlers : WillMark(req'[g], s)
  BY DEF Marked, WillMark, Meets
<1>1. CASE WillMark(r, s)
  BY <1>1 DEF Takes
<1>2. CASE Meets(profileSkill, s) /\ ~ WillMark(req[h], s)
  <2>1. PICK g \in Handlers : WillMark(req[g], s)
    BY <1>2 DEF Marked
  <2>2. g # h
    BY <1>2, <2>1
  <2> QED BY <2>1, <2>2 DEF Takes
<1> QED BY <1>1, <1>2

\* Of those that keep apart, one review of a registration is under way, or a refresh.
LEMMA OneReview ==
    ASSUME Kept, Apart, NEW g \in Handlers, NEW h \in Handlers, g # h,
           req[g].op = "review", req[h].op \in {"review", "refresh"}
    PROVE  req[h].op = "review" /\ req[h].arg.shift # req[g].arg.shift
<1>1. /\ req[g].on = {<<"review", req[g].arg.shift>>} /\ req[g].arg.shift \in Completed
      /\ req[h].op = "review" => req[h].on = {<<"review", req[h].arg.shift>>}
      /\ req[h].op = "refresh" => req[h].on = {<<"review", s>> : s \in Completed}
  BY DEF Kept, ReviewKinds
<1>2. Busy(g) /\ Busy(h) /\ Exclusive
  BY DEF Busy, Kept
<1>3. <<"review", req[g].arg.shift>> \in req[g].on
  BY <1>1
<1>4. <<"review", req[g].arg.shift>> \notin req[h].on
  BY <1>2, <1>3, OneInFlight
<1> QED BY <1>1, <1>4

-----------------------------------------------------------------------------
(* One step for each action. *)

\* A request arrives.
LEMMA ReviewArrives ==
    ASSUME ReviewInv, NEW h \in Handlers, NEW r, Begin(h, r), UNCHANGED <<tables, repaired>>,
           ReviewKinds(r), ~ Pending(r), Apart => Holds(r)
    PROVE  ReviewInv'
<1>1. Takes(h, r) /\ Exclusive' /\ req[h].op = "idle"
  BY Begins DEF ReviewInv, Kept
<1>2. UNCHANGED <<completion, profileSkill, hoursContributed, meets, repaired>>
  BY DEF tables, skillVars
<1>3. UNCHANGED <<manner, failing, aborts>>
  BY DEF Begin
<1>4. Kept'
  BY <1>1, <1>2, <1>3, KeptStays DEF ReviewInv, Kept
<1>5. Holding'
  BY <1>1, <1>2, <1>3, HoldingStays DEF ReviewInv
<1>6. ~ Pending(req[h]) /\ \A s : ~ WillMark(req[h], s)
  BY <1>1 DEF Pending, WillMark
<1>7. Reckoned'
  BY <1>1, <1>2, <1>3, <1>6, ReckonedStays DEF ReviewInv
<1>8. Marked'
  BY <1>1, <1>2, <1>3, <1>6, MarkedStays DEF ReviewInv
<1> QED BY <1>4, <1>5, <1>7, <1>8 DEF ReviewInv

LEMMA ReviewReadStep ==
    ASSUME ReviewInv, NEW h \in Handlers, ReviewRead(h)
    PROVE  ReviewInv'
<1>1. PICK s \in Completed, c \in Completions :
        ReviewRequest(h, "review", "write", {s},
                      [shift |-> s, previous |-> completion[s], next |-> c], 0)
  BY DEF ReviewRead
<1> DEFINE r == [op |-> "review", at |-> "write", by |-> 0,
                 on |-> {<<"review", x>> : x \in {s}},
                 arg |-> [shift |-> s, previous |-> completion[s], next |-> c], seen |-> 0]
<1>2. Begin(h, r) /\ UNCHANGED <<tables, repaired>>
  BY <1>1 DEF ReviewRequest
<1>3. completion[s] \in Nat /\ c \in Nat
  BY DurationAssumption DEF ReviewInv, Kept
<1>4. /\ DOMAIN r = Fields /\ r.op = "review" /\ r.at = "write" /\ r.on = {<<"review", s>>}
      /\ r.arg.shift = s /\ r.arg.previous = completion[s] /\ r.arg.next = c
  BY DEF Fields
<1> HIDE DEF r
<1>5. ReviewKinds(r) /\ ~ Pending(r) /\ Holds(r)
  BY <1>3, <1>4 DEF ReviewKinds, Stages, Pending, Adding, Holds
<1> QED BY <1>2, <1>5, ReviewArrives

LEMMA RefreshReadStep ==
    ASSUME ReviewInv, NEW h \in Handlers, RefreshRead(h)
    PROVE  ReviewInv'
<1> DEFINE r == [op |-> "refresh", at |-> "write", by |-> 0,
                 on |-> {<<"review", s>> : s \in Completed}, arg |-> 0, seen |-> Contributed]
<1>1. Begin(h, r) /\ UNCHANGED <<tables, repaired>>
  BY DEF RefreshRead, ReviewRequest
<1>2. /\ DOMAIN r = Fields /\ r.op = "refresh" /\ r.seen = Contributed
      /\ r.on = {<<"review", s>> : s \in Completed}
  BY DEF Fields
<1> HIDE DEF r
<1>3. ReviewKinds(r) /\ ~ Pending(r) /\ Holds(r)
  BY <1>2 DEF ReviewKinds, Pending, Holds
<1> QED BY <1>1, <1>3, ReviewArrives

\* A review goes on to its next query, and the registrations stay.
LEMMA ReviewGoesOn ==
    ASSUME ReviewInv, NEW h \in Handlers, NEW at \in Stages \ {"write"}, NEW seen,
           req[h].op = "review", req[h].at \in Stages, at \in Adding => req[h].at \in Adding,
           Goto(h, at, seen), UNCHANGED <<completion, repaired>>
    PROVE  \E r : /\ Takes(h, r) /\ Kept' /\ Holding' /\ ReviewKinds(req[h])
                  /\ UNCHANGED <<manner, failing, aborts>>
                  /\ r.op = "review" /\ r.at = at /\ r.seen = seen /\ r.arg = req[h].arg
<1>1. DOMAIN req = Handlers /\ Exclusive /\ ReviewKinds(req[h]) /\ DOMAIN req[h] = Fields
  BY DEF ReviewInv, Kept, ReviewKinds
<1>2. PICK r : /\ Takes(h, r) /\ Exclusive' /\ DOMAIN r = Fields
               /\ r.op = req[h].op /\ r.by = req[h].by /\ r.on = req[h].on
               /\ r.arg = req[h].arg /\ r.at = at /\ r.seen = seen
  BY <1>1, GoesOn
<1>3. UNCHANGED <<manner, failing, aborts>>
  BY DEF Goto
<1>4. ReviewKinds(r)
  BY <1>1, <1>2 DEF ReviewKinds
<1>5. Kept'
  BY <1>2, <1>3, <1>4, KeptStays DEF ReviewInv, Kept
<1>6. Apart => Holds(r)
  <2>1. Apart => Holds(req[h])
    BY DEF ReviewInv, Holding
  <2>2. Pending(r) => Pending(req[h])
    BY <1>2 DEF Pending
  <2> QED BY <1>2, <2>1, <2>2 DEF Holds
<1>7. Holding'
  BY <1>2, <1>3, <1>6, HoldingStays DEF ReviewInv
<1> QED BY <1>1, <1>2, <1>3, <1>5, <1>7

LEMMA SkillsReadStep ==
    ASSUME ReviewInv, NEW h \in Handlers, SkillsRead(h)
    PROVE  ReviewInv'
<1>1. /\ req[h].op = "review" /\ req[h].at = "skills" /\ Goto(h, "replace", profileSkill)
      /\ UNCHANGED <<completion, profileSkill, hoursContributed, meets, repaired>>
  BY DEF SkillsRead, At, reviewVars, tables, skillVars
<1>2. PICK r : /\ Takes(h, r) /\ Kept' /\ Holding' /\ UNCHANGED <<manner, failing, aborts>>
               /\ r.op = "review" /\ r.at = "replace" /\ r.arg = req[h].arg
  BY <1>1, ReviewGoesOn DEF Stages, Adding
<1>3. Pending(r) /\ Pending(req[h]) /\ \A s : ~ WillMark(req[h], s)
  BY <1>1, <1>2 DEF Pending, Adding, WillMark
<1>4. Reckoned'
  BY <1>1, <1>2, <1>3, ReckonedStays DEF ReviewInv
<1>5. Marked'
  BY <1>1, <1>2, <1>3, MarkedStays DEF ReviewInv
<1> QED BY <1>2, <1>4, <1>5 DEF ReviewInv

LEMMA SkillsDeleteStep ==
    ASSUME ReviewInv, NEW h \in Handlers, SkillsDelete(h)
    PROVE  ReviewInv'
<1>1. /\ req[h].op = "review" /\ req[h].at = "replace" /\ Goto(h, "create", req[h].seen)
      /\ UNCHANGED <<completion, profileSkill, hoursContributed, meets, repaired>>
  BY DEF SkillsDelete, At
<1>2. PICK r : /\ Takes(h, r) /\ Kept' /\ Holding' /\ UNCHANGED <<manner, failing, aborts>>
               /\ r.op = "review" /\ r.at = "create" /\ r.arg = req[h].arg
  BY <1>1, ReviewGoesOn DEF Stages, Adding
<1>3. Pending(r) /\ Pending(req[h]) /\ \A s : ~ WillMark(req[h], s)
  BY <1>1, <1>2 DEF Pending, Adding, WillMark
<1>4. Reckoned'
  BY <1>1, <1>2, <1>3, ReckonedStays DEF ReviewInv
<1>5. Marked'
  BY <1>1, <1>2, <1>3, MarkedStays DEF ReviewInv
<1> QED BY <1>2, <1>4, <1>5 DEF ReviewInv

\* A request that rejects: what is owed may stay so, until a refresh.
LEMMA ViolatesStep ==
    ASSUME ReviewInv, NEW h \in Handlers, Violates(h),
           UNCHANGED <<completion, profileSkill, hoursContributed, meets, repaired>>,
           failing \/ \A s : ~ WillMark(req[h], s)
    PROVE  ReviewInv'
<1>1. /\ req' = [req EXCEPT ![h] = Idle] /\ aborts' = aborts + 1 /\ UNCHANGED <<manner, failing>>
  BY DEF Violates
<1>2. aborts \in Nat /\ repaired \in Nat /\ repaired <= aborts /\ DOMAIN req = Handlers
  BY DEF ReviewInv, Kept
<1>3. Takes(h, Idle) /\ Exclusive'
  BY <1>1, IdleKinds, ExclusiveGoesOn DEF ReviewInv, Kept, Takes
<1>4. Kept'
  <2>1. aborts' \in Nat /\ repaired' \in Nat /\ repaired' <= aborts'
    BY <1>1, <1>2
  <2> QED BY <1>1, <1>3, <2>1, IdleKinds, KeptStays DEF ReviewInv, Kept
<1>5. Holding'
  BY <1>1, <1>3, IdleKinds, HoldingStays DEF ReviewInv, Holds
<1>6. Reckoned'
  <2>1. aborts' # repaired'
    BY <1>1, <1>2
  <2> QED BY <2>1 DEF Reckoned
<1>7. Marked'
  <2>1. CASE failing
    BY <1>1, <2>1 DEF Marked
  <2>2. CASE \A s : ~ WillMark(req[h], s)
    BY <1>1, <1>3, <2>2, MarkedStays DEF ReviewInv
  <2> QED BY <2>1, <2>2
<1> QED BY <1>4, <1>5, <1>6, <1>7 DEF ReviewInv

\* Skills that are stored may meet more, also with those of another review that stay; the
\* review is going to look for that.  One that is refused has stored nothing.
LEMMA SkillsCreateStep ==
    ASSUME ReviewInv, NEW h \in Handlers, SkillsCreate(h)
    PROVE  ReviewInv'
<1>1. /\ req[h].op = "review" /\ req[h].at = "create"
      /\ UNCHANGED <<completion, hoursContributed, meets, repaired>>
  BY DEF SkillsCreate, At
<1>2. CASE Goto(h, "hours", 0)
  <2>1. PICK r : /\ Takes(h, r) /\ Kept' /\ Holding' /\ UNCHANGED <<manner, failing, aborts>>
                 /\ r.op = "review" /\ r.at = "hours" /\ r.arg = req[h].arg
    BY <1>1, <1>2, ReviewGoesOn DEF Stages, Adding
  <2>2. Pending(r) /\ Pending(req[h]) /\ \A s : WillMark(r, s)
    BY <1>1, <2>1 DEF Pending, Adding, WillMark
  <2>3. Reckoned'
    BY <1>1, <2>1, <2>2, ReckonedStays DEF ReviewInv
  <2>4. Marked'
    BY <1>1, <2>1, <2>2, MarkedStays DEF ReviewInv
  <2> QED BY <2>1, <2>3, <2>4 DEF ReviewInv
<1>3. CASE Violates(h) /\ UNCHANGED profileSkill
  <2>1. \A s : ~ WillMark(req[h], s)
    BY <1>1 DEF WillMark
  <2> QED BY <1>1, <1>3, <2>1, ViolatesStep
<1> QED BY <1>2, <1>3 DEF SkillsCreate

LEMMA RequirementsReadStep ==
    ASSUME ReviewInv, NEW h \in Handlers, RequirementsRead(h)
    PROVE  ReviewInv'
<1> DEFINE M == {s \in Upcoming : Meets(profileSkill, s)}
<1>1. /\ req[h].op = "review" /\ req[h].at = "requirements" /\ Goto(h, "meet", M)
      /\ UNCHANGED <<completion, profileSkill, hoursContributed, meets, repaired>>
  BY DEF RequirementsRead, At, reviewVars, tables, skillVars
<1>2. PICK r : /\ Takes(h, r) /\ Kept' /\ Holding' /\ UNCHANGED <<manner, failing, aborts>>
               /\ r.op = "review" /\ r.at = "meet" /\ r.seen = M
  BY <1>1, ReviewGoesOn DEF Stages, Adding
<1>3. ~ Pending(r) /\ ~ Pending(req[h])
  BY <1>1, <1>2 DEF Pending, Adding
<1>4. \A s \in Upcoming : Meets(profileSkill, s) => WillMark(r, s)
  BY <1>2 DEF WillMark
<1>5. Reckoned'
  BY <1>1, <1>2, <1>3, ReckonedStays DEF ReviewInv
<1>6. Marked'
  BY <1>1, <1>2, <1>4, MarkedStays DEF ReviewInv
<1> QED BY <1>2, <1>5, <1>6 DEF ReviewInv

LEMMA MeetWriteStep ==
    ASSUME ReviewInv, NEW h \in Handlers, MeetWrite(h)
    PROVE  ReviewInv'
<1>1. /\ req[h].op = "review" /\ req[h].at = "meet" /\ End(h) /\ meets' = meets \cup req[h].seen
      /\ UNCHANGED <<completion, profileSkill, hoursContributed, repaired>>
  BY DEF MeetWrite, At, skillVars
<1>2. Takes(h, Idle) /\ Exclusive' /\ UNCHANGED <<manner, failing, aborts>>
  BY <1>1, Ends DEF ReviewInv, Kept, End
<1>3. Kept'
  BY <1>1, <1>2, IdleKinds, KeptStays DEF ReviewInv, Kept
<1>4. Holding'
  BY <1>1, <1>2, IdleKinds, HoldingStays DEF ReviewInv, Holds
<1>5. ~ Pending(req[h])
  BY <1>1 DEF Pending, Adding
<1>6. Reckoned'
  BY <1>1, <1>2, <1>5, IdleKinds, ReckonedStays DEF ReviewInv
<1>7. \A s \in Upcoming : Meets(profileSkill, s) =>
        s \in meets' \/ (Meets(profileSkill, s) /\ ~ WillMark(req[h], s))
  BY <1>1 DEF WillMark
<1>8. Marked'
  BY <1>1, <1>2, <1>7, MarkedStays DEF ReviewInv
<1> QED BY <1>3, <1>4, <1>6, <1>8 DEF ReviewInv

\* The registration is written: its hours are owed from now on.
LEMMA ReviewWriteStep ==
    ASSUME ReviewInv, NEW h \in Handlers, ReviewWrite(h)
    PROVE  ReviewInv'
<1> DEFINE a == req[h].arg.shift
<1>1. /\ req[h].op = "review" /\ req[h].at = "write" /\ Goto(h, "skills", 0)
      /\ completion' = [completion EXCEPT ![a] = req[h].arg.next]
      /\ UNCHANGED <<profileSkill, hoursContributed, meets, repaired>>
  BY DEF ReviewWrite, At, skillVars
<1>2. /\ DOMAIN req = Handlers /\ Exclusive /\ ReviewKinds(req[h]) /\ DOMAIN req[h] = Fields
      /\ a \in Completed /\ req[h].arg.next \in Nat
  BY <1>1 DEF ReviewInv, Kept, ReviewKinds
<1>3. PICK r : /\ Takes(h, r) /\ Exclusive' /\ DOMAIN r = Fields
               /\ r.op = req[h].op /\ r.by = req[h].by /\ r.on = req[h].on
               /\ r.arg = req[h].arg /\ r.at = "skills" /\ r.seen = 0
  BY <1>1, <1>2, GoesOn
<1>4. UNCHANGED <<manner, failing, aborts>>
  BY <1>1 DEF Goto
<1>5. ReviewKinds(r) /\ Pending(r) /\ ~ Pending(req[h])
  BY <1>1, <1>2, <1>3 DEF ReviewKinds, Stages, Pending, Adding
<1>6. /\ completion' \in [Completed -> Nat] /\ completion'[a] = req[h].arg.next
      /\ \A s \in Completed \ {a} : completion'[s] = completion[s]
  BY <1>1, <1>2 DEF ReviewInv, Kept
<1>7. Kept'
  BY <1>1, <1>3, <1>4, <1>5, <1>6, KeptStays DEF ReviewInv, Kept
<1>8. ASSUME Apart, NEW g \in Handlers \ {h}
      PROVE  /\ req'[g] = req[g] /\ req[g].op # "refresh"
             /\ req[g].op = "review" => req[g].arg.shift \in Completed \ {a}
  <2>1. req[g].op \in {"review", "refresh"} =>
            req[g].op = "review" /\ req[g].arg.shift # a
    BY <1>1, <1>8, OneReview DEF ReviewInv
  <2>2. req[g].op = "review" => req[g].arg.shift \in Completed
    BY DEF ReviewInv, Kept, ReviewKinds
  <2> QED BY <1>3, <2>1, <2>2 DEF Takes
<1>9. Holding'
  <2> SUFFICES ASSUME Apart, NEW g \in Handlers PROVE Holds(req[g])'
    BY <1>4 DEF Holding, Apart
  <2>1. CASE g = h
    <3>1. req'[g] = r
      BY <1>3, <2>1 DEF Takes
    <3> QED BY <1>1, <1>3, <1>6, <3>1 DEF Holds
  <2>2. CASE g # h
    <3>1. /\ req'[g] = req[g] /\ req[g].op # "refresh" /\ Holds(req[g])
          /\ req[g].op = "review" => req[g].arg.shift \in Completed \ {a}
      BY <1>8, <2>2 DEF ReviewInv, Holding
    <3>2. req[g].op = "review" =>
            completion'[req[g].arg.shift] = completion[req[g].arg.shift]
      BY <1>6, <3>1
    <3> QED BY <3>1, <3>2 DEF Holds, Pending
  <2> QED BY <2>1, <2>2
<1>10. Reckoned'
  <2> SUFFICES ASSUME Apart, AddsUp PROVE AddsUp'
    BY <1>1, <1>4 DEF ReviewInv, Reckoned, Apart
  <2>1. PICK f \in [Completed -> Int] : Counts(f) /\ hoursContributed = Total(f, Completed)
    BY DEF AddsUp
  <2>2. f[a] = Duration[a] * req[h].arg.previous
    <3>1. \A g \in Handlers : Pending(req[g]) => req[g].arg.shift # a
      BY <1>5, <1>8 DEF Pending
    <3>2. completion[a] = req[h].arg.previous
      BY <1>1 DEF ReviewInv, Holding, Holds
    <3> QED BY <1>2, <2>1, <3>1, <3>2 DEF Counts
  <2>3. \A g \in Handlers : Pending(req'[g]) =>
            f[req'[g].arg.shift] = Duration[req'[g].arg.shift] * req'[g].arg.previous
    <3>1. req'[h] = r /\ \A g \in Handlers \ {h} : req'[g] = req[g]
      BY <1>3 DEF Takes
    <3> QED BY <1>3, <2>1, <2>2, <3>1 DEF Counts
  <2>4. ASSUME NEW s \in Completed, \A g \in Handlers : Pending(req'[g]) => req'[g].arg.shift # s
        PROVE  f[s] = Duration[s] * completion'[s]
    <3>1. s # a
      BY <1>3, <1>5, <2>4 DEF Takes
    <3>2. \A g \in Handlers : Pending(req[g]) => req[g].arg.shift # s
      BY <1>5, <1>8, <2>4
    <3> QED BY <1>6, <2>1, <3>1, <3>2 DEF Counts
  <2>5. Counts(f)'
    BY <2>3, <2>4 DEF Counts, Pending
  <2> QED BY <1>1, <2>1, <2>5 DEF AddsUp
<1>11. Marked'
  <2>1. \A s : ~ WillMark(req[h], s)
    BY <1>1 DEF WillMark
  <2> QED BY <1>1, <1>3, <1>4, <2>1, MarkedStays DEF ReviewInv
<1> QED BY <1>7, <1>9, <1>10, <1>11 DEF ReviewInv

\* The organization is given the hours that were owed.
LEMMA HoursAddStep ==
    ASSUME ReviewInv, NEW h \in Handlers, HoursAdd(h)
    PROVE  ReviewInv'
<1> DEFINE a == req[h].arg.shift
           before == Duration[a] * req[h].arg.previous
           after == Duration[a] * req[h].arg.next
<1>1. /\ req[h].op = "review" /\ req[h].at = "hours" /\ Goto(h, "requirements", 0)
      /\ hoursContributed' = hoursContributed + (after - before)
      /\ UNCHANGED <<completion, profileSkill, meets, repaired>>
  BY DEF HoursAdd, At, Change, skillVars
<1>2. a \in Completed /\ before \in Int /\ after \in Int
  <2>1. \A x, y \in Nat : x * y \in Int
    OBVIOUS
  <2>2. /\ a \in Completed /\ req[h].arg.previous \in Nat /\ req[h].arg.next \in Nat
        /\ Duration[a] \in Nat
    BY <1>1, DurationAssumption DEF ReviewInv, Kept, ReviewKinds
  <2> QED BY <2>1, <2>2
<1>3. PICK r : /\ Takes(h, r) /\ Kept' /\ Holding' /\ UNCHANGED <<manner, failing, aborts>>
               /\ r.op = "review" /\ r.at = "requirements" /\ r.arg = req[h].arg
  BY <1>1, ReviewGoesOn DEF Stages, Adding
<1>4. Pending(req[h]) /\ ~ Pending(r) /\ \A s : WillMark(r, s)
  BY <1>1, <1>3 DEF Pending, Adding, WillMark
<1>5. Marked'
  BY <1>1, <1>3, <1>4, MarkedStays DEF ReviewInv
<1>6. Reckoned'
  <2> SUFFICES ASSUME Apart, AddsUp PROVE AddsUp'
    BY <1>1, <1>3 DEF ReviewInv, Reckoned, Apart
  <2>1. PICK f \in [Completed -> Int] : Counts(f) /\ hoursContributed = Total(f, Completed)
    BY DEF AddsUp
  <2>2. f[a] = before
    BY <1>4, <2>1 DEF Counts
  <2>3. Duration[a] * completion[a] = after
    BY <1>4 DEF ReviewInv, Holding, Holds
  <2> HIDE DEF before, after
  <2>4. PICK d \in Int : d = after - before
    BY <1>2
  <2>5. PICK g : g = [f EXCEPT ![a] = f[a] + d]
    OBVIOUS
  <2>6. /\ g \in [Completed -> Int] /\ g[a] = after /\ \A s \in Completed \ {a} : g[s] = f[s]
    BY <1>2, <2>1, <2>2, <2>4, <2>5
  <2>7. Total(g, Completed) = Total(f, Completed) + d
    BY <1>2, <2>1, <2>5, TotalChange, CompletedAssumption
  <2>8. ASSUME NEW i \in Handlers, Pending(req'[i])
        PROVE  /\ i # h /\ req'[i] = req[i] /\ req[i].arg.shift \in Completed \ {a}
    <3>1. i # h /\ req'[i] = req[i]
      BY <1>3, <1>4, <2>8 DEF Takes
    <3>2. req[i].op = "review" /\ req[i].arg.shift \in Completed
      BY <2>8, <3>1 DEF Pending, ReviewInv, Kept, ReviewKinds
    <3> QED BY <1>1, <3>1, <3>2, OneReview DEF ReviewInv
  <2>9. \A i \in Handlers : Pending(req'[i]) =>
            g[req'[i].arg.shift] = Duration[req'[i].arg.shift] * req'[i].arg.previous
    BY <2>1, <2>6, <2>8 DEF Counts
  <2>10. ASSUME NEW s \in Completed, \A i \in Handlers : Pending(req'[i]) => req'[i].arg.shift # s
        PROVE  g[s] = Duration[s] * completion'[s]
    <3>1. CASE s = a
      BY <1>1, <2>3, <2>6, <3>1
    <3>2. CASE s # a
      <4>1. \A i \in Handlers : Pending(req[i]) => req[i].arg.shift # s
        BY <1>3, <2>10, <3>2 DEF Takes
      <4>2. f[s] = Duration[s] * completion[s]
        BY <2>1, <4>1 DEF Counts
      <4> QED BY <1>1, <2>6, <3>2, <4>2
    <3> QED BY <3>1, <3>2
  <2>11. Counts(g)'
    BY <2>9, <2>10 DEF Counts, Pending
  <2>12. hoursContributed' = Total(g, Completed)
    BY <1>1, <2>1, <2>4, <2>7
  <2> QED BY <2>6, <2>11, <2>12 DEF AddsUp
<1> QED BY <1>3, <1>5, <1>6 DEF ReviewInv

\* A refresh that no review has met stores what the registrations say, whatever reviews
\* that have failed still owed.
LEMMA RefreshWriteStep ==
    ASSUME ReviewInv, NEW h \in Handlers, RefreshWrite(h)
    PROVE  ReviewInv'
<1>1. /\ req[h].op = "refresh" /\ End(h) /\ hoursContributed' = req[h].seen
      /\ repaired' = aborts /\ UNCHANGED <<completion, profileSkill, meets>>
  BY DEF RefreshWrite, At, skillVars
<1>2. Takes(h, Idle) /\ Exclusive' /\ UNCHANGED <<manner, failing, aborts>>
  BY <1>1, Ends DEF ReviewInv, Kept, End
<1>3. Kept'
  <2>1. aborts \in Nat /\ completion \in [Completed -> Nat]
    BY DEF ReviewInv, Kept
  <2> QED BY <1>1, <1>2, <2>1, IdleKinds, KeptStays DEF ReviewInv
<1>4. Holding'
  BY <1>1, <1>2, IdleKinds, HoldingStays DEF ReviewInv, Holds
<1>5. Marked'
  BY <1>1, <1>2, MarkedStays DEF ReviewInv, WillMark
<1>6. Reckoned'
  <2> SUFFICES ASSUME Apart PROVE AddsUp'
    BY <1>2 DEF Reckoned, Apart
  <2>1. PICK f : f = Worth(completion)
    OBVIOUS
  <2>2. f \in [Completed -> Int] /\ \A s \in Completed : f[s] = Duration[s] * completion[s]
    BY <2>1, WorthType DEF ReviewInv, Kept, Worth
  <2>3. \A g \in Handlers : ~ Pending(req'[g])
    <3>1. ASSUME NEW g \in Handlers, g # h PROVE ~ Pending(req[g])
      BY <1>1, <3>1, OneReview DEF ReviewInv, Pending
    <3> QED BY <1>2, <3>1, IdleKinds DEF Takes
  <2>4. hoursContributed' = Total(f, Completed)
    BY <1>1, <2>1, ContributedIsTotal DEF ReviewInv, Kept, Holding, Holds
  <2>5. Counts(f)'
    BY <1>1, <2>2, <2>3 DEF Counts, Pending
  <2> QED BY <2>2, <2>4, <2>5 DEF AddsUp
<1> QED BY <1>3, <1>4, <1>5, <1>6 DEF ReviewInv

LEMMA ReviewAbortStep ==
    ASSUME ReviewInv, NEW h \in Handlers, Abort(h),
           UNCHANGED <<completion, profileSkill, hoursContributed, meets, repaired>>
    PROVE  ReviewInv'
<1>1. Violates(h) /\ failing
  BY DEF Abort, Violates
<1> QED BY <1>1, ViolatesStep

LEMMA ReviewInvStep == ReviewInv /\ [ReviewNext]_allReviewVars => ReviewInv'
<1> SUFFICES ASSUME ReviewInv, [ReviewNext]_allReviewVars PROVE ReviewInv'
  OBVIOUS
<1>1. CASE UNCHANGED allReviewVars
  <2>1. UNCHANGED <<req, manner, failing, aborts, completion, profileSkill,
                    hoursContributed, meets, repaired>>
    BY <1>1 DEF allReviewVars, requestVars, reviewVars, tables, skillVars
  <2>2. Kept'
    BY <2>1 DEF ReviewInv, Kept, Exclusive, Busy, Waits, ReviewKinds
  <2>3. Holding'
    <3>1. Contributed' = Contributed
      BY <2>1, SameContributed
    <3> QED BY <2>1, <3>1 DEF ReviewInv, Holding, Apart, Holds, Pending
  <2>4. Reckoned'
    BY <2>1 DEF ReviewInv, Reckoned, Apart, AddsUp, Counts, Pending
  <2>5. Marked'
    BY <2>1 DEF ReviewInv, Marked, WillMark, Meets
  <2> QED BY <2>2, <2>3, <2>4, <2>5 DEF ReviewInv
<1> QED
  BY <1>1, ReviewReadStep, ReviewWriteStep, SkillsReadStep, SkillsDeleteStep, SkillsCreateStep,
     HoursAddStep,
     RequirementsReadStep, MeetWriteStep, RefreshReadStep, RefreshWriteStep, ReviewAbortStep
  DEF ReviewNext, ReviewVolunteer, Accounting, RefreshHours

LEMMA HoursOfQuiet == ReviewInv => HoursAddUp
<1> SUFFICES ASSUME ReviewInv, Apart, Quiet, aborts = repaired
             PROVE  hoursContributed = Contributed
  BY DEF HoursAddUp, Apart
<1>1. PICK f \in [Completed -> Int] : Counts(f) /\ hoursContributed = Total(f, Completed)
  BY DEF ReviewInv, Reckoned, AddsUp
<1>2. \A h \in Handlers : ~ Pending(req[h])
  BY DEF Quiet, Busy, Pending
<1>3. f = Worth(completion)
  BY <1>1, <1>2, CountsIdle DEF ReviewInv
<1> QED BY <1>1, <1>3, ContributedIsTotal DEF ReviewInv, Kept

\* Reviews of different registrations may race: as long as no query has rejected since the
\* last refresh, the hours of the organization are those of its registrations, for any
\* shifts, durations and completions.  What a review has not added yet is still owed.
THEOREM HoursOfRegistrations == ReviewSpec => []HoursAddUp
<1> QED BY HoursOfQuiet, ReviewInvInit, ReviewInvStep, PTL DEF ReviewSpec

\* However many reviews race on the rows of the skills, a registration to come whose
\* requirements the volunteer now meets is marked: who has stored skills looks for those
\* that meet, and a review whose rows are refused has stored none.
THEOREM SkillsAreMarked == ReviewSpec => []MarkedWhenMet
<1>1. ReviewInv => MarkedWhenMet
  BY DEF ReviewInv, Marked, MarkedWhenMet, WillMark, Quiet, Busy
<1> QED BY <1>1, ReviewInvInit, ReviewInvStep, PTL DEF ReviewSpec

-----------------------------------------------------------------------------
(* Ratings.  An average is stale while a rating that counts has been stored     *)
(* and its listener has not come to it.                                         *)

ToShift == {"ratings", "shift"}
AfterShift == {"shifts", "activity"}

RateKinds(r) ==
    /\ DOMAIN r = Fields /\ r.op \in {"idle", "rate"}
    /\ r.op = "rate" =>
          /\ r.at \in {"row"} \cup ToShift \cup AfterShift /\ r.on = {"activity"}
          /\ r.arg.of \in Raters \X Shifts /\ r.arg.score \in Scores
    /\ r.op = "rate" /\ r.at = "shift" =>
          DOMAIN r.seen \subseteq Counted(r.arg.of[2]) /\ Range(r.seen) \subseteq Scores
    /\ r.op = "rate" /\ r.at = "activity" =>
          /\ DOMAIN r.seen \subseteq Shifts
          /\ \A s \in DOMAIN r.seen : DOMAIN r.seen[s] \subseteq Counted(s)

RateSlots == DOMAIN req = Handlers /\ Exclusive /\ \A h \in Handlers : RateKinds(req[h])

RateTables ==
    /\ done \subseteq Shifts /\ DOMAIN shiftRating = Shifts
    /\ \A p \in DOMAIN rated : rated[p] \in Scores
    /\ RatingsTypeOK

\* What a listener that is alone has read is up to date.
Fits(r) ==
    /\ r.op = "rate" /\ r.at = "shift" => r.seen = RatingsOf(r.arg.of[2])
    /\ r.op = "rate" /\ r.at = "activity" =>
          \A s \in DOMAIN r.seen : r.seen[s] = shiftRating[s]

Right(s) == Whole(RatingsOf(s)) => shiftRating[s] = RatingsOf(s)

Stale(r, s, at) == r.op = "rate" /\ r.at \in at /\ r.arg.of[2] = s /\ Counted(s) # {}

Averaged ==
    /\ \A s \in Shifts : \/ Right(s)
                         \/ \E h \in Handlers : Stale(req[h], s, ToShift)
    /\ \A s \in DOMAIN activityRating :
            \/ refused \/ activityRating[s] = shiftRating[s]
            \/ \E h \in Handlers : Stale(req[h], s, AfterShift)

Settling == Apart /\ ~ failing => Averaged /\ \A h \in Handlers : Fits(req[h])

RatingsInv == RateSlots /\ RateTables /\ Settling

-----------------------------------------------------------------------------

LEMMA IdleRates == RateKinds(Idle) /\ Fits(Idle) /\ Idle.op = "idle"
<1>1. DOMAIN Idle = Fields /\ Idle.op = "idle"
  BY DEF Idle, Fields
<1> HIDE DEF Idle
<1> QED BY <1>1 DEF RateKinds, Fits

LEMMA RatingsInvInit == RequestsInit /\ RatingsInit => RatingsInv
<1> SUFFICES ASSUME RequestsInit, RatingsInit PROVE RatingsInv
  OBVIOUS
<1>1. DOMAIN req = Handlers /\ \A h \in Handlers : req[h] = Idle
  BY DEF RequestsInit
<1>2. RateSlots
  <2>1. Exclusive
    BY <1>1, IdleRates DEF Exclusive, Busy
  <2> QED BY <1>1, <2>1, IdleRates DEF RateSlots
<1>3. /\ DOMAIN None = {} /\ done = {} /\ rated = None /\ activityRating = None
      /\ DOMAIN shiftRating = Shifts /\ \A s \in Shifts : shiftRating[s] = None
  BY DEF RatingsInit, None
<1>4. \A s : Counted(s) = {} /\ RatingsOf(s) = None
  <2>1. \A s : Counted(s) = {}
    BY <1>3 DEF Counted
  <2>2. \A s : [v \in {} |-> rated[<<v, s>>]] = <<>>
    OBVIOUS
  <2> QED BY <2>1, <2>2 DEF RatingsOf, None
<1>5. RateTables
  <2>1. Range(None) = {}
    BY <1>3 DEF Range
  <2>2. RatingsTypeOK
    BY <1>3, <2>1 DEF RatingsTypeOK
  <2> QED BY <1>3, <2>2 DEF RateTables
<1>6. Settling
  BY <1>1, <1>3, <1>4, IdleRates DEF Settling, Averaged, Right
<1> QED BY <1>2, <1>5, <1>6 DEF RatingsInv

\* Slot h takes the request r, and no rating is lost.
LEMMA RateSlotsStay ==
    ASSUME RateSlots, NEW h \in Handlers, NEW r, Takes(h, r), Exclusive', RateKinds(r)',
           DOMAIN rated \subseteq DOMAIN rated'
    PROVE  RateSlots' /\ \A s : Counted(s) \subseteq Counted(s)'
<1>1. \A s : Counted(s) \subseteq Counted(s)'
  BY DEF Counted
<1>2. \A q : RateKinds(q) => RateKinds(q)'
  BY <1>1 DEF RateKinds
<1>3. ASSUME NEW g \in Handlers PROVE RateKinds(req[g])'
  <2>1. CASE g = h
    BY <2>1 DEF Takes, RateKinds
  <2>2. CASE g # h
    <3>1. req'[g] = req[g]
      BY <2>2 DEF Takes
    <3>2. RateKinds(req[g])
      BY DEF RateSlots
    <3>3. PICK q : q = req[g]
      OBVIOUS
    <3>4. RateKinds(q)'
      BY <1>2, <3>2, <3>3
    <3> QED BY <3>1, <3>3, <3>4 DEF RateKinds
  <2> QED BY <2>1, <2>2
<1> QED BY <1>1, <1>3 DEF RateSlots, Takes

\* Of those that keep apart one is under way.
LEMMA OneRates ==
    ASSUME RateSlots, Apart, NEW g \in Handlers, NEW h \in Handlers, g # h, Busy(h)
    PROVE  req[g].op = "idle"
<1> SUFFICES ASSUME Busy(g) PROVE FALSE
  BY DEF Busy
<1>1. "activity" \in req[g].on /\ "activity" \in req[h].on /\ Exclusive
  BY DEF RateSlots, RateKinds, Busy
<1> QED BY <1>1, OneInFlight

\* The only one under way goes on with r: it is right if r is, and the averages are.
LEMMA SettlingStays ==
    ASSUME RateSlots, NEW h \in Handlers, NEW r, Takes(h, r), UNCHANGED <<manner, failing>>,
           \/ Busy(h)
           \/ req[h].op = "idle" /\ UNCHANGED <<rated, shiftRating>>,
           Settling,
           Apart /\ ~ failing => Fits(r)' /\ Averaged'
    PROVE  Settling'
<1> SUFFICES ASSUME Apart, ~ failing, NEW g \in Handlers PROVE Fits(req[g])'
  BY DEF Settling, Apart
<1>1. CASE g = h
  BY <1>1 DEF Takes, Fits
<1>2. CASE g # h /\ req[g].op = "idle"
  BY <1>2 DEF Takes, Fits
<1>3. CASE g # h /\ UNCHANGED <<rated, shiftRating>>
  <2>1. req'[g] = req[g] /\ Fits(req[g])
    BY <1>3 DEF Takes, Settling
  <2>2. \A s : RatingsOf(s)' = RatingsOf(s)
    BY <1>3 DEF RatingsOf, Counted
  <2> QED BY <1>3, <2>1, <2>2 DEF Fits
<1> QED BY <1>1, <1>2, <1>3, OneRates

\* The averages stay, and what is stale is still going to be seen to.
LEMMA AveragedStays ==
    ASSUME Averaged, NEW h \in Handlers, NEW r, Takes(h, r),
           UNCHANGED <<rated, shiftRating, activityRating, refused>>,
           \A s : Stale(req[h], s, ToShift) => Stale(r, s, ToShift),
           \A s : Stale(req[h], s, AfterShift) => Stale(r, s, AfterShift)
    PROVE  Averaged'
<1>1. \A s : Counted(s)' = Counted(s) /\ RatingsOf(s)' = RatingsOf(s)
  BY DEF RatingsOf, Counted
<1>2. \A s, at : (\E g \in Handlers : Stale(req[g], s, at)) /\ (Stale(req[h], s, at) => Stale(r, s, at))
        => \E g \in Handlers : Stale(req[g], s, at)'
  BY <1>1 DEF Takes, Stale
<1> QED BY <1>1, <1>2 DEF Averaged, Right

LEMMA RateStartStep ==
    ASSUME RatingsInv, NEW h \in Handlers, RateStart(h)
    PROVE  RatingsInv'
<1>1. PICK v \in Raters, s \in done, score \in Scores :
        /\ Begin(h, [op |-> "rate", at |-> "row", by |-> v, on |-> {"activity"},
                     arg |-> [of |-> <<v, s>>, score |-> score], seen |-> 0])
        /\ UNCHANGED <<done, rated, shiftRating, activityRating, refused>>
  BY DEF RateStart
<1> DEFINE r == [op |-> "rate", at |-> "row", by |-> v, on |-> {"activity"},
                 arg |-> [of |-> <<v, s>>, score |-> score], seen |-> 0]
<1>2. /\ DOMAIN r = Fields /\ r.op = "rate" /\ r.at = "row" /\ r.on = {"activity"}
      /\ r.arg.of = <<v, s>> /\ r.arg.score = score
  BY DEF Fields
<1>3. Begin(h, r)
  BY <1>1
<1> HIDE DEF r
<1>4. Takes(h, r) /\ Exclusive' /\ req[h].op = "idle" /\ UNCHANGED <<manner, failing>>
  BY <1>3, Begins DEF RatingsInv, RateSlots, Begin
<1>5. RateKinds(r)' /\ Fits(r)'
  BY <1>1, <1>2 DEF RateKinds, Fits, RatingsInv, RateTables
<1>6. RateSlots'
  BY <1>1, <1>4, <1>5, RateSlotsStay DEF RatingsInv
<1>7. RateTables'
  BY <1>1 DEF RatingsInv, RateTables, RatingsTypeOK, Counted
<1>8. Averaged => Averaged'
  BY <1>1, <1>4, AveragedStays DEF Stale
<1>9. Settling'
  BY <1>1, <1>4, <1>5, <1>8, SettlingStays DEF RatingsInv, Settling
<1> QED BY <1>6, <1>7, <1>9 DEF RatingsInv

\* A listener goes on to its next query.
LEMMA RateGoesOn ==
    ASSUME RateSlots, NEW h \in Handlers, NEW at, NEW seen, Busy(h), Goto(h, at, seen)
    PROVE  /\ req[h].op = "rate" /\ req[h].arg.of \in Raters \X Shifts
           /\ req[h].arg.score \in Scores /\ RateKinds(req[h])
           /\ \E r : /\ Takes(h, r) /\ Exclusive' /\ DOMAIN r = Fields
                     /\ UNCHANGED <<manner, failing>>
                     /\ r.op = "rate" /\ r.at = at /\ r.seen = seen
                     /\ r.arg = req[h].arg /\ r.on = {"activity"}
<1>1. /\ DOMAIN req = Handlers /\ Exclusive /\ RateKinds(req[h]) /\ DOMAIN req[h] = Fields
      /\ req[h].op = "rate" /\ req[h].on = {"activity"}
      /\ req[h].arg.of \in Raters \X Shifts /\ req[h].arg.score \in Scores
  BY DEF RateSlots, RateKinds, Busy
<1>2. PICK r : /\ Takes(h, r) /\ Exclusive' /\ DOMAIN r = Fields
               /\ r.op = req[h].op /\ r.by = req[h].by /\ r.on = req[h].on
               /\ r.arg = req[h].arg /\ r.at = at /\ r.seen = seen
  BY <1>1, GoesOn
<1>3. UNCHANGED <<manner, failing>>
  BY DEF Goto
<1> QED BY <1>1, <1>2, <1>3

LEMMA RatingsReadStep ==
    ASSUME RatingsInv, NEW h \in Handlers, RatingsRead(h)
    PROVE  RatingsInv'
<1>1. /\ Busy(h) /\ req[h].at = "ratings" /\ Goto(h, "shift", RatingsOf(req[h].arg.of[2]))
      /\ UNCHANGED <<done, rated, shiftRating, activityRating, refused>>
  BY DEF RatingsRead, At, Busy, ratingVars
<1>2. PICK s : s = req[h].arg.of[2]
  OBVIOUS
<1>3. /\ req[h].op = "rate" /\ req[h].arg.of \in Raters \X Shifts /\ req[h].arg.score \in Scores
  BY <1>1, RateGoesOn DEF RatingsInv
<1>4. PICK r : /\ Takes(h, r) /\ Exclusive' /\ DOMAIN r = Fields /\ UNCHANGED <<manner, failing>>
               /\ r.op = "rate" /\ r.at = "shift" /\ r.seen = RatingsOf(s)
               /\ r.arg = req[h].arg /\ r.on = {"activity"}
  BY <1>1, <1>2, RateGoesOn DEF RatingsInv
<1>5. Counted(s)' = Counted(s) /\ RatingsOf(s)' = RatingsOf(s)
  BY <1>1 DEF RatingsOf, Counted
<1>6. DOMAIN RatingsOf(s) = Counted(s) /\ Range(RatingsOf(s)) \subseteq Scores
  BY DEF RatingsOf, Counted, Range, RatingsInv, RateTables
<1>7. RateKinds(r)' /\ Fits(r)'
  BY <1>1, <1>2, <1>3, <1>4, <1>5, <1>6 DEF RateKinds, Fits, ToShift, AfterShift
<1>8. RateSlots'
  BY <1>1, <1>4, <1>7, RateSlotsStay DEF RatingsInv
<1>9. RateTables'
  BY <1>1 DEF RatingsInv, RateTables, RatingsTypeOK, Counted
<1>10. Averaged => Averaged'
  BY <1>1, <1>3, <1>4, AveragedStays DEF Stale, ToShift, AfterShift
<1>11. Settling'
  BY <1>1, <1>4, <1>7, <1>10, SettlingStays DEF RatingsInv, Settling
<1> QED BY <1>8, <1>9, <1>11 DEF RatingsInv

\* When nothing is stale that the listener of h has not to see to, the shifts are right.
LEMMA AllAveraged ==
    ASSUME RatingsInv, Apart, ~ failing, NEW h \in Handlers, Busy(h)
    PROVE  /\ Fits(req[h]) /\ Averaged
           /\ \A s \in Shifts : ~ Stale(req[h], s, ToShift) => Right(s)
           /\ \A s \in DOMAIN activityRating :
                ~ Stale(req[h], s, AfterShift) => refused \/ activityRating[s] = shiftRating[s]
<1>1. \A g \in Handlers \ {h} : req[g].op = "idle"
  BY OneRates DEF RatingsInv
<1>2. \A g \in Handlers : \A s, at : Stale(req[g], s, at) => g = h
  BY <1>1 DEF Stale
<1> QED BY <1>2 DEF RatingsInv, Settling, Averaged

LEMMA ShiftsReadStep ==
    ASSUME RatingsInv, NEW h \in Handlers, ShiftsRead(h)
    PROVE  RatingsInv'
<1>1. /\ Busy(h) /\ req[h].at = "shifts"
      /\ Goto(h, "activity", [s \in done |-> shiftRating[s]])
      /\ UNCHANGED <<done, rated, shiftRating, activityRating, refused>>
  BY DEF ShiftsRead, At, Busy, ratingVars
<1>2. PICK seen : seen = [s \in done |-> shiftRating[s]] /\ Goto(h, "activity", seen)
  BY <1>1
<1>3. /\ req[h].op = "rate" /\ req[h].arg.of \in Raters \X Shifts /\ req[h].arg.score \in Scores
  BY <1>1, RateGoesOn DEF RatingsInv
<1>4. PICK r : /\ Takes(h, r) /\ Exclusive' /\ DOMAIN r = Fields /\ UNCHANGED <<manner, failing>>
               /\ r.op = "rate" /\ r.at = "activity" /\ r.seen = seen
               /\ r.arg = req[h].arg /\ r.on = {"activity"}
  <2>1. Busy(h) /\ Goto(h, "activity", seen) /\ RateSlots
    BY <1>1, <1>2 DEF RatingsInv
  <2> QED BY <2>1, RateGoesOn
<1>5. \A s : Counted(s)' = Counted(s) /\ RatingsOf(s)' = RatingsOf(s)
  BY <1>1 DEF RatingsOf, Counted
<1>6. RateKinds(r)'
  <2>1. done \subseteq Shifts /\ \A s \in done : DOMAIN shiftRating[s] \subseteq Counted(s)
    BY DEF RatingsInv, RateTables, RatingsTypeOK
  <2> QED BY <1>1, <1>2, <1>3, <1>4, <1>5, <2>1 DEF RateKinds, AfterShift
<1>7. RateSlots'
  BY <1>1, <1>4, <1>6, RateSlotsStay DEF RatingsInv
<1>8. RateTables'
  BY <1>1 DEF RatingsInv, RateTables, RatingsTypeOK, Counted
<1>9. Averaged => Averaged'
  BY <1>1, <1>3, <1>4, AveragedStays DEF Stale, ToShift, AfterShift
<1>10. Fits(r)'
  BY <1>1, <1>2, <1>4 DEF Fits
<1>11. Settling'
  BY <1>1, <1>4, <1>9, <1>10, SettlingStays DEF RatingsInv, Settling
<1> QED BY <1>7, <1>8, <1>11 DEF RatingsInv

\* The rating is stored; if it counts, the averages are stale.
LEMMA RateRowStep ==
    ASSUME RatingsInv, NEW h \in Handlers, RateRow(h)
    PROVE  RatingsInv'
<1>1. /\ Busy(h) /\ req[h].at = "row" /\ Goto(h, "ratings", 0)
      /\ rated' = [p \in DOMAIN rated \cup {req[h].arg.of} |->
                      IF p = req[h].arg.of THEN req[h].arg.score ELSE rated[p]]
      /\ UNCHANGED <<done, shiftRating, activityRating, refused>>
  BY DEF RateRow, At, Busy
<1>2. /\ req[h].op = "rate" /\ req[h].arg.of \in Raters \X Shifts /\ req[h].arg.score \in Scores
  BY <1>1, RateGoesOn DEF RatingsInv
<1>3. PICK r : /\ Takes(h, r) /\ Exclusive' /\ DOMAIN r = Fields /\ UNCHANGED <<manner, failing>>
               /\ r.op = "rate" /\ r.at = "ratings"
               /\ r.arg = req[h].arg /\ r.on = {"activity"}
  BY <1>1, RateGoesOn DEF RatingsInv
<1>4. PICK v \in Raters, s \in Shifts : req[h].arg.of = <<v, s>>
  BY <1>2
<1>5. RateKinds(r)' /\ Fits(r)'
  BY <1>1, <1>2, <1>3 DEF RateKinds, Fits, ToShift, AfterShift
<1>6. DOMAIN rated' = DOMAIN rated \cup {<<v, s>>} /\ \A p \in DOMAIN rated' : rated'[p] \in Scores
  BY <1>1, <1>2, <1>4 DEF RatingsInv, RateTables
<1>7. RateSlots' /\ \A t : Counted(t) \subseteq Counted(t)'
  BY <1>1, <1>3, <1>5, <1>6, RateSlotsStay DEF RatingsInv
<1>8. RateTables'
  <2>1. RateTables
    BY DEF RatingsInv
  <2>2. DOMAIN rated' \subseteq Raters \X Shifts
    BY <1>6, <2>1 DEF RateTables, RatingsTypeOK
  <2>3. RatingsTypeOK'
    BY <1>1, <1>7, <2>1, <2>2 DEF RateTables, RatingsTypeOK
  <2> QED BY <1>1, <1>6, <2>1, <2>3 DEF RateTables
<1>9. \A t : t # s => Counted(t)' = Counted(t) /\ RatingsOf(t)' = RatingsOf(t)
  <2> SUFFICES ASSUME NEW t, t # s
               PROVE  Counted(t)' = Counted(t) /\ RatingsOf(t)' = RatingsOf(t)
    OBVIOUS
  <2>1. \A u : <<u, t>> # <<v, s>>
    OBVIOUS
  <2>2. Counted(t)' = Counted(t)
    BY <1>6, <2>1 DEF Counted
  <2>3. \A u \in Counted(t) : rated'[<<u, t>>] = rated[<<u, t>>]
    BY <1>1, <1>4, <2>1 DEF Counted
  <2> QED BY <2>2, <2>3 DEF RatingsOf
<1>10. Counted(s)' = {} => Counted(s) = {} /\ RatingsOf(s)' = RatingsOf(s)
  BY <1>7 DEF RatingsOf
<1>11. Apart /\ ~ failing => Averaged'
  <2> SUFFICES ASSUME Apart, ~ failing PROVE Averaged'
    OBVIOUS
  <2>1. /\ \A t \in Shifts : Right(t)
        /\ \A t \in DOMAIN activityRating : refused \/ activityRating[t] = shiftRating[t]
    BY <1>1, AllAveraged DEF Stale, ToShift, AfterShift
  <2>2. Counted(s)' # {} => Stale(req[h], s, ToShift)'
    BY <1>3, <1>4 DEF Takes, Stale, ToShift
  <2>3. ASSUME NEW t \in Shifts
        PROVE  Right(t)' \/ \E g \in Handlers : Stale(req[g], t, ToShift)'
    BY <1>1, <1>9, <1>10, <2>1, <2>2 DEF Right
  <2>4. ASSUME NEW t \in DOMAIN activityRating'
        PROVE  refused' \/ activityRating'[t] = shiftRating'[t]
    BY <1>1, <2>1
  <2> QED BY <2>3, <2>4 DEF Averaged
<1>12. Settling'
  BY <1>1, <1>3, <1>5, <1>11, SettlingStays DEF RatingsInv
<1> QED BY <1>7, <1>8, <1>12 DEF RatingsInv

\* A listener ends.
LEMMA RateEnds ==
    ASSUME RatingsInv, NEW h \in Handlers, End(h), UNCHANGED <<done, rated>>,
           Busy(h), RateTables', Apart /\ ~ failing => Averaged'
    PROVE  RatingsInv'
<1>1. Takes(h, Idle) /\ Exclusive' /\ UNCHANGED <<manner, failing>>
  BY Ends DEF RatingsInv, RateSlots, End
<1>2. RateKinds(Idle)' /\ Fits(Idle)'
  BY IdleRates DEF RateKinds, Fits
<1>3. RateSlots'
  BY <1>1, <1>2, RateSlotsStay DEF RatingsInv
<1>4. Settling'
  BY <1>1, <1>2, SettlingStays DEF RatingsInv
<1> QED BY <1>3, <1>4 DEF RatingsInv

\* An average is refused: no slot is busy any more.
LEMMA RateRefused ==
    ASSUME RatingsInv, NEW f, Refuse(f), UNCHANGED <<done, rated>>,
           RateTables', Apart /\ ~ failing => Averaged'
    PROVE  RatingsInv'
<1>1. /\ DOMAIN req' = Handlers /\ \A g \in Handlers : req'[g] = Idle
      /\ UNCHANGED <<manner, failing>>
  BY DEF Refuse
<1>2. RateSlots'
  <2>1. Exclusive'
    BY <1>1, IdleRates DEF Exclusive, Busy
  <2>2. \A g \in Handlers : RateKinds(req[g])'
    BY <1>1, IdleRates DEF RateKinds
  <2> QED BY <1>1, <2>1, <2>2 DEF RateSlots
<1>3. Settling'
  BY <1>1, IdleRates DEF Settling, Apart, Fits
<1> QED BY <1>2, <1>3 DEF RatingsInv

\* The average of the shift is stored, or refused: then no rating counts, or it is not whole.
LEMMA ShiftWriteStep ==
    ASSUME RatingsInv, NEW h \in Handlers, ShiftWrite(h)
    PROVE  RatingsInv'
<1>1. /\ Busy(h) /\ req[h].op = "rate" /\ req[h].at = "shift"
      /\ UNCHANGED <<done, rated, activityRating, refused>>
  BY DEF ShiftWrite, At, Busy
<1>2. /\ req[h].arg.of \in Raters \X Shifts /\ req[h].arg.score \in Scores
      /\ DOMAIN req[h].seen \subseteq Counted(req[h].arg.of[2])
      /\ Range(req[h].seen) \subseteq Scores
  BY <1>1 DEF RatingsInv, RateSlots, RateKinds
<1>3. PICK s, seen : s \in Shifts /\ s = req[h].arg.of[2] /\ seen = req[h].seen
  BY <1>2 DEF RatingsInv, RateTables
<1>4. \A t : Counted(t)' = Counted(t) /\ RatingsOf(t)' = RatingsOf(t)
  BY <1>1 DEF RatingsOf, Counted
<1>5. Apart /\ ~ failing =>
        /\ seen = RatingsOf(s)
        /\ \A t \in Shifts \ {s} : Right(t)
        /\ \A t \in DOMAIN activityRating : refused \/ activityRating[t] = shiftRating[t]
        /\ Counted(s) = {} => Right(s)
  BY <1>1, <1>3, AllAveraged DEF Stale, AfterShift, Fits
<1>6. Counted(s) = {} => Whole(RatingsOf(s))
  BY DEF Whole, RatingsOf
<1>7. CASE /\ shiftRating' = [shiftRating EXCEPT ![s] = seen]
           /\ Goto(h, "shifts", 0)
  <2>1. PICK r : /\ Takes(h, r) /\ Exclusive' /\ DOMAIN r = Fields /\ UNCHANGED <<manner, failing>>
                 /\ r.op = "rate" /\ r.at = "shifts"
                 /\ r.arg = req[h].arg /\ r.on = {"activity"}
    BY <1>1, <1>7, RateGoesOn DEF RatingsInv
  <2>2. RateKinds(r)' /\ Fits(r)'
    BY <1>1, <1>2, <2>1 DEF RateKinds, Fits, AfterShift
  <2>3. RateSlots'
    BY <1>1, <2>1, <2>2, RateSlotsStay DEF RatingsInv
  <2>4. /\ DOMAIN shiftRating' = Shifts /\ shiftRating'[s] = seen
        /\ \A t \in Shifts \ {s} : shiftRating'[t] = shiftRating[t]
    BY <1>3, <1>7 DEF RatingsInv, RateTables
  <2>5. RateTables'
    <3>1. RateTables /\ DOMAIN seen \subseteq Counted(s) /\ Range(seen) \subseteq Scores
      BY <1>2, <1>3 DEF RatingsInv
    <3>2. RatingsTypeOK'
      BY <1>1, <1>4, <2>4, <3>1 DEF RateTables, RatingsTypeOK
    <3> QED BY <1>1, <2>4, <3>1, <3>2 DEF RateTables
  <2>6. Apart /\ ~ failing => Averaged'
    <3> SUFFICES ASSUME Apart, ~ failing PROVE Averaged'
      OBVIOUS
    <3>1. \A t \in Shifts : Right(t)'
      BY <1>4, <1>5, <2>4 DEF Right
    <3>2. Counted(s) # {} => Stale(req[h], s, AfterShift)'
      BY <1>3, <1>4, <2>1 DEF Takes, Stale, AfterShift
    <3>3. Counted(s) = {} => shiftRating'[s] = shiftRating[s]
      BY <1>5, <1>6, <2>4 DEF Right
    <3>4. \A t \in DOMAIN activityRating :
            \/ refused \/ activityRating[t] = shiftRating'[t]
            \/ \E g \in Handlers : Stale(req[g], t, AfterShift)'
      <4>1. DOMAIN activityRating \subseteq Shifts
        BY DEF RatingsInv, RateTables, RatingsTypeOK
      <4> QED BY <1>5, <2>4, <3>2, <3>3, <4>1
    <3> QED BY <1>1, <3>1, <3>4 DEF Averaged
  <2>7. Settling'
    BY <1>1, <2>1, <2>2, <2>6, SettlingStays DEF RatingsInv
  <2> QED BY <2>3, <2>5, <2>7 DEF RatingsInv
<1>8. CASE Refuse(seen) /\ UNCHANGED shiftRating
  <2>1. RateTables'
    BY <1>1, <1>8 DEF RatingsInv, RateTables, RatingsTypeOK, Counted
  <2>2. Apart /\ ~ failing => Averaged'
    <3> SUFFICES ASSUME Apart, ~ failing PROVE Averaged'
      OBVIOUS
    <3>1. Right(s)
      <4>1. DOMAIN RatingsOf(s) = Counted(s)
        BY DEF RatingsOf
      <4> QED BY <1>5, <1>8, <4>1 DEF Right, Refuse
    <3> QED BY <1>1, <1>4, <1>5, <1>8, <3>1 DEF Averaged, Right
  <2> QED BY <1>1, <1>8, <2>1, <2>2, RateRefused
<1> QED BY <1>3, <1>7, <1>8 DEF ShiftWrite

\* The average of the activity is stored, or refused.
LEMMA ActivityWriteStep ==
    ASSUME RatingsInv, NEW h \in Handlers, ActivityWrite(h)
    PROVE  RatingsInv'
<1>1. /\ Busy(h) /\ req[h].op = "rate" /\ req[h].at = "activity"
      /\ UNCHANGED <<done, rated, shiftRating>>
  BY DEF ActivityWrite, At, Busy
<1>2. /\ DOMAIN req[h].seen \subseteq Shifts
      /\ \A s \in DOMAIN req[h].seen : DOMAIN req[h].seen[s] \subseteq Counted(s)
  BY <1>1 DEF RatingsInv, RateSlots, RateKinds
<1>3. \A s : Counted(s)' = Counted(s) /\ RatingsOf(s)' = RatingsOf(s)
  BY <1>1 DEF RatingsOf, Counted
<1>4. Apart /\ ~ failing =>
        /\ \A s \in Shifts : Right(s)
        /\ \A s \in DOMAIN req[h].seen : req[h].seen[s] = shiftRating[s]
  BY <1>1, AllAveraged DEF Stale, ToShift, Fits
<1>5. CASE activityRating' = req[h].seen /\ refused' = FALSE /\ End(h)
  <2>1. RatingsTypeOK'
    BY <1>1, <1>2, <1>3, <1>5 DEF RatingsInv, RateTables, RatingsTypeOK
  <2>2. RateTables'
    BY <1>1, <2>1 DEF RatingsInv, RateTables
  <2>3. Apart /\ ~ failing => Averaged'
    BY <1>1, <1>3, <1>4, <1>5 DEF Averaged, Right
  <2> QED BY <1>1, <1>5, <2>2, <2>3, RateEnds
<1>6. CASE Refuse(OfShifts(req[h].seen)) /\ refused' = TRUE /\ UNCHANGED activityRating
  <2>1. RateTables'
    BY <1>1, <1>6 DEF RatingsInv, RateTables, RatingsTypeOK, Counted
  <2>2. Apart /\ ~ failing => Averaged'
    BY <1>1, <1>3, <1>4, <1>6 DEF Averaged, Right
  <2> QED BY <1>1, <1>6, <2>1, <2>2, RateRefused
<1> QED BY <1>5, <1>6 DEF ActivityWrite

LEMMA CompleteStep ==
    ASSUME RatingsInv, NEW s \in Shifts, Complete(s) \/ Reopen(s)
    PROVE  RatingsInv'
<1>1. /\ done' = done \cup {s} \/ done' = done \ {s}
      /\ UNCHANGED <<req, manner, failing, rated, shiftRating, activityRating, refused>>
  BY DEF Complete, Reopen, requestVars
<1>2. \A t : Counted(t)' = Counted(t) /\ RatingsOf(t)' = RatingsOf(t)
  BY <1>1 DEF RatingsOf, Counted
<1>3. RateSlots'
  <2>1. Exclusive'
    BY <1>1 DEF RatingsInv, RateSlots, Exclusive, Busy, Waits
  <2>2. \A h \in Handlers : RateKinds(req[h])'
    BY <1>1, <1>2 DEF RatingsInv, RateSlots, RateKinds
  <2> QED BY <1>1, <2>1, <2>2 DEF RatingsInv, RateSlots
<1>4. RateTables'
  BY <1>1, <1>2 DEF RatingsInv, RateTables, RatingsTypeOK
<1>5. Settling'
  BY <1>1, <1>2 DEF RatingsInv, Settling, Apart, Averaged, Right, Fits, Stale
<1> QED BY <1>3, <1>4, <1>5 DEF RatingsInv

LEMMA RatingsInvStep == RatingsInv /\ [RatingsNext]_allRatingVars => RatingsInv'
<1> SUFFICES ASSUME RatingsInv, [RatingsNext]_allRatingVars PROVE RatingsInv'
  OBVIOUS
<1>1. ASSUME NEW h \in Handlers, Abort(h), UNCHANGED ratingVars PROVE RatingsInv'
  <2>1. /\ req' = [req EXCEPT ![h] = Idle] /\ failing /\ UNCHANGED <<manner, failing>>
        /\ UNCHANGED <<done, rated, shiftRating, activityRating, refused>>
    BY <1>1 DEF Abort, ratingVars
  <2>2. Takes(h, Idle) /\ Exclusive'
    BY <2>1, IdleRates, ExclusiveGoesOn DEF RatingsInv, RateSlots, Takes
  <2>3. RateKinds(Idle)'
    BY IdleRates DEF RateKinds
  <2>4. RateSlots'
    BY <2>1, <2>2, <2>3, RateSlotsStay DEF RatingsInv
  <2>5. RateTables'
    BY <2>1 DEF RatingsInv, RateTables, RatingsTypeOK, Counted
  <2> QED BY <2>1, <2>4, <2>5 DEF RatingsInv, Settling
<1>2. CASE UNCHANGED allRatingVars
  <2>1. UNCHANGED <<req, manner, failing, done, rated, shiftRating, activityRating, refused>>
    BY <1>2 DEF allRatingVars, requestVars, ratingVars
  <2>2. \A t : Counted(t)' = Counted(t) /\ RatingsOf(t)' = RatingsOf(t)
    BY <2>1 DEF RatingsOf, Counted
  <2>3. RateSlots'
    BY <2>1, <2>2 DEF RatingsInv, RateSlots, Exclusive, Busy, Waits, RateKinds
  <2>4. RateTables'
    BY <2>1, <2>2 DEF RatingsInv, RateTables, RatingsTypeOK
  <2>5. Settling'
    BY <2>1, <2>2 DEF RatingsInv, Settling, Apart, Averaged, Right, Fits, Stale
  <2> QED BY <2>3, <2>4, <2>5 DEF RatingsInv
<1> QED
  BY <1>1, <1>2, RateStartStep, RateRowStep, RatingsReadStep, ShiftWriteStep, ShiftsReadStep,
     ActivityWriteStep, CompleteStep
  DEF RatingsNext, Average

\* However ratings race and fail, and whatever the task does to the shifts meanwhile, an
\* average is over shifts of the activity, each with ratings of approved registrations.
THEOREM RatingsTypeCorrect == RatingsSpec => []RatingsTypeOK
<1>1. RatingsInv => RatingsTypeOK
  BY DEF RatingsInv, RateTables
<1> QED BY <1>1, RatingsInvInit, RatingsInvStep, PTL DEF RatingsSpec

\* If a rating is sent only after the listener of the one before has ended, and no query
\* rejects but for an average that is not whole, each shift has the average of all the
\* ratings that count where that is whole, and the activity, unless its last average was
\* refused, those that its shifts have; for any number of raters and shifts, while the task
\* completes and reopens them.  What is not up to date the listener under way has still to
\* write, or to be refused.
THEOREM AveragesSettle == RatingsSpec => []RatingsSettle
<1>1. RatingsInv => RatingsSettle
  <2> SUFFICES ASSUME RatingsInv, Apart, ~ failing, Quiet
               PROVE  /\ \A s \in Shifts : Right(s)
                      /\ ~ refused => \A s \in DOMAIN activityRating :
                                        activityRating[s] = shiftRating[s]
    BY DEF RatingsSettle, Apart, Right
  <2> QED BY DEF RatingsInv, Settling, Averaged, Stale, Quiet, Busy
<1> QED BY <1>1, RatingsInvInit, RatingsInvStep, PTL DEF RatingsSpec

-----------------------------------------------------------------------------
(* The window of an activity.                                                  *)

LEMMA LargestNat ==
    ASSUME NEW T, IsFiniteSet(T), T \subseteq Nat, T # {}
    PROVE  \E n \in T : \A m \in T : m <= n
<1> DEFINE Has(U) == \E n \in U : \A m \in U : m <= n
           Bad == {U \in SUBSET T : U # {} /\ ~ Has(U)}
<1>1. ASSUME NEW U \in Bad PROVE U \ {Pick(U)} \in Bad
  <2> DEFINE x == Pick(U)
             V == U \ {x}
  <2>1. U \subseteq Nat /\ U # {} /\ ~ Has(U) /\ x \in U /\ V \in SUBSET T
    BY <1>1 DEF Pick
  <2> HIDE DEF x
  <2>2. V # {}
    <3> SUFFICES ASSUME V = {} PROVE FALSE
      OBVIOUS
    <3>1. U = {x} /\ x <= x
      BY <2>1
    <3> QED BY <2>1, <3>1
  <2>3. ~ Has(V)
    <3> SUFFICES ASSUME NEW n \in V, \A m \in V : m <= n PROVE FALSE
      OBVIOUS
    <3>1. CASE x <= n
      BY <2>1, <3>1
    <3>2. CASE n <= x
      <4>1. \A m \in U : m <= x
        BY <2>1, <3>2
      <4> QED BY <2>1, <4>1
    <3> QED BY <2>1, <3>1, <3>2
  <2> QED BY <2>1, <2>2, <2>3 DEF x
<1>2. Bad = {}
  <2>1. Bad \subseteq SUBSET T /\ {} \notin Bad
    OBVIOUS
  <2> HIDE DEF Bad
  <2> QED BY <1>1, <2>1, NoneBad
<1> QED BY <1>2

\* A function on a finite set has finitely many values.
LEMMA FiniteValues ==
    ASSUME NEW f, IsFiniteSet(DOMAIN f)
    PROVE  IsFiniteSet({f[x] : x \in DOMAIN f})
<1> DEFINE V == {f[x] : x \in DOMAIN f}
           g == [x \in DOMAIN f |-> f[x]]
<1>1. g \in Surjection(DOMAIN f, V)
  BY DEF Surjection
<1> QED BY <1>1, FS_Surjection

Spans == Windows \cup {NoWindow}

LEMMA WindowType ==
    ASSUME NEW w \in Windows
    PROVE  /\ w.from \in Instants /\ w.to \in Instants /\ w.from \in Nat /\ w.to \in Nat
           /\ w # NoWindow
<1>1. w.from \in Instants /\ w.to \in Instants
  BY DEF Windows
<1>2. NoWindow.from = -1 /\ -1 \notin Nat
  BY DEF NoWindow
<1> QED BY <1>1, <1>2, InstantsAssumption

\* The hull of windows is one, and covers them.
LEMMA HullCovers ==
    ASSUME NEW W, IsFiniteSet(W), W # {}, W \subseteq Windows
    PROVE  Hull(W) \in Windows /\ \A w \in W : Within(w, Hull(W))
<1> DEFINE From == {w.from : w \in W}
           To == {w.to : w \in W}
<1>1. From \subseteq Instants /\ To \subseteq Instants /\ From # {} /\ To # {}
  BY WindowType
<1>2. IsFiniteSet(To)
  <2> DEFINE to == [w \in W |-> w.to]
  <2>1. To = {to[w] : w \in W} /\ DOMAIN to = W
    OBVIOUS
  <2> HIDE DEF to, To
  <2> QED BY <2>1, FiniteValues
<1>3. \A w \in W : w.from \in From /\ w.to \in To
  OBVIOUS
<1>4. Hull(W) = [from |-> Min(From), to |-> Max(To)]
  BY DEF Hull
<1> HIDE DEF From, To
<1>5. Min(From) \in From /\ \A n \in From : Min(From) <= n
  <2>1. \E n \in From : \A m \in From : n <= m
    BY <1>1, LeastNat, InstantsAssumption
  <2> QED BY <2>1 DEF Min
<1>6. Max(To) \in To /\ \A n \in To : n <= Max(To)
  <2>1. PICK n \in To : \A m \in To : m <= n
    BY <1>1, <1>2, LargestNat, InstantsAssumption
  <2>2. \A m \in To : n >= m
    BY <1>1, <2>1, InstantsAssumption
  <2>3. Max(To) \in To /\ \A m \in To : Max(To) >= m
    BY <2>2 DEF Max
  <2> QED BY <1>1, <2>3, InstantsAssumption
<1>7. PICK f \in Instants, t \in Instants : f = Min(From) /\ t = Max(To)
  BY <1>1, <1>5, <1>6
<1>8. [from |-> f, to |-> t] \in Windows
  BY DEF Windows
<1>9. \A w \in W : Within(w, [from |-> f, to |-> t])
  BY <1>3, <1>5, <1>6, <1>7 DEF Within
<1> QED BY <1>4, <1>7, <1>8, <1>9

\* A window that is widened by another covers both, and that one alone if there was none.
LEMMA WidenedCovers ==
    ASSUME NEW p \in Spans, NEW w \in Windows
    PROVE  /\ Widened(p, w) \in Windows /\ Within(w, Widened(p, w))
           /\ p # NoWindow => Within(p, Widened(p, w))
<1> DEFINE W == {p, w} \ {NoWindow}
<1>1. w \in W /\ W \subseteq Windows /\ (p # NoWindow => p \in W)
  BY WindowType DEF Spans
<1>2. IsFiniteSet({p, w}) /\ W \subseteq {p, w}
  <2>1. IsFiniteSet({p}) /\ {p, w} = {p} \cup {w}
    BY FS_Singleton
  <2>2. IsFiniteSet({p} \cup {w})
    BY <2>1, FS_AddElement
  <2> QED BY <2>1, <2>2
<1>3. IsFiniteSet(W)
  BY <1>2, FS_Subset
<1>4. Widened(p, w) = Hull(W)
  BY DEF Widened
<1> HIDE DEF W
<1> QED BY <1>1, <1>3, <1>4, HullCovers

LEMMA WithinOfWithin ==
    ASSUME NEW u \in Windows, NEW w \in Windows, NEW p \in Windows, Within(u, w), Within(w, p)
    PROVE  Within(u, p)
  BY WindowType DEF Within

\* Nothing is within no window.
LEMMA WithinWindow ==
    ASSUME NEW u \in Windows, NEW p \in Spans, Within(u, p)
    PROVE  p \in Windows
<1>1. NoWindow.to = -1 /\ u.to \in Nat
  BY WindowType DEF NoWindow
<1>2. p # NoWindow
  <2> SUFFICES ASSUME p = NoWindow PROVE FALSE
    OBVIOUS
  <2>1. u.to <= -1
    BY <1>1 DEF Within
  <2> QED BY <1>1, <2>1
<1> QED BY <1>2 DEF Spans

\* What is left of a window when one end of it is moved, or both.
LEMMA MovedWindow ==
    ASSUME NEW w \in Windows, NEW c \in Changes
    PROVE  Moved(w, c) \in Windows
  BY DEF Windows, Changes, Moved

\* What p is of the shifts win, if it is the window of their activity, that has missed S.
Covers(win, p, S) ==
    /\ \A s \in DOMAIN win : Within(win[s], p) \/ (failing /\ s \in S)
    /\ ~ failing /\ DOMAIN win = {} => p = NoWindow

WindowTables ==
    /\ created \in Nat /\ ShiftIds \subseteq 1..created /\ missed \subseteq 1..created
    /\ \A s \in ShiftIds : window[s] \in Windows
    /\ span \in Spans /\ (created = 0 => span = NoWindow)

\* What a request is after n shifts have been created.
WindowKinds(r, n) ==
    /\ DOMAIN r = Fields /\ r.op \in {"idle", "create", "update", "delete"}
    /\ r.op # "idle" => r.on = {"window"}
    /\ r.op = "create" => r.at \in {"store", "span"} /\ r.arg \in Windows
    /\ r.op = "create" /\ r.at = "store" => r.seen \in Spans
    /\ r.op = "update" => r.at \in {"write", "span"} /\ r.arg.change \in Changes /\ n > 0
    /\ r.op = "delete" => r.at \in {"read", "span"} /\ n > 0
    /\ r.op # "idle" /\ r.at = "span" =>
          n > 0 /\ r.seen.span \in Spans /\ r.seen.shifts \subseteq 1..n

\* The shift that an update has written stays.
HasLocked(r, ids) == r.op = "update" /\ r.at = "span" => r.arg.shift \in ids

\* What a request that is alone knows of the shifts win and of the window p, that has missed
\* S: should it fail, too.
Tracks(r, win, p, S) ==
    /\ r.op = "create" /\ r.at = "store" => r.seen = p
    /\ r.op = "create" /\ r.at = "span" =>
          /\ Covers(win, Widened(r.seen.span, r.arg), S \ r.seen.shifts)
          /\ failing => Covers(win, p, S \cup r.seen.shifts)
    /\ r.op = "update" => r.arg.shift \in DOMAIN win
    /\ r.op = "update" /\ r.at = "span" => r.seen.span = p /\ r.seen.shifts = {r.arg.shift}
    /\ r.op = "delete" => (failing => Covers(win, p, S))
    /\ r.op = "delete" /\ r.at = "span" => Covers(win, r.seen.span, S \ r.seen.shifts)

\* It has written the shifts, and not yet the window.
Lags(r) == (r.op = "create" /\ r.at = "span") \/ r.op = "delete"

WindowSlots ==
    /\ DOMAIN req = Handlers /\ Exclusive
    /\ \A h \in Handlers : WindowKinds(req[h], created) /\ HasLocked(req[h], ShiftIds)
Tracking ==
    Apart =>
        /\ \A h \in Handlers : Tracks(req[h], window, span, missed)
        /\ (\A h \in Handlers : ~ Lags(req[h])) => Covers(window, span, missed)
WindowInv == WindowSlots /\ WindowTables /\ Tracking

\* Slot h takes r, and alone it goes on to know the shifts and the window.
LEMMA WindowStep ==
    ASSUME WindowInv, NEW h \in Handlers, NEW r, Takes(h, r), Exclusive',
           UNCHANGED <<manner, failing>>, req[h].op # "idle" \/ r.op # "idle",
           WindowKinds(r, created'), created' >= created, WindowTables',
           HasLocked(r, ShiftIds'),
           \A g \in Handlers \ {h} : HasLocked(req[g], ShiftIds) => HasLocked(req[g], ShiftIds'),
           /\ Apart /\ Tracks(req[h], window, span, missed)
           /\ ~ Lags(req[h]) => Covers(window, span, missed)
           => /\ Tracks(r, window, span, missed)'
              /\ ~ Lags(r) => Covers(window, span, missed)'
    PROVE  WindowInv'
<1>1. /\ DOMAIN req' = Handlers /\ req'[h] = r
      /\ \A g \in Handlers : g # h => req'[g] = req[g]
  BY DEF Takes
<1>2. created \in Nat /\ created' \in Nat
  BY DEF WindowInv, WindowTables
<1>3. ASSUME NEW g \in Handlers PROVE WindowKinds(req'[g], created') /\ HasLocked(req'[g], ShiftIds')
  <2>1. CASE g = h
    BY <1>1, <2>1
  <2>2. CASE g # h
    <3>1. WindowKinds(req[g], created) /\ HasLocked(req[g], ShiftIds) /\ req'[g] = req[g]
      BY <1>1, <2>2 DEF WindowInv, WindowSlots
    <3>2. (created > 0 => created' > 0) /\ 1..created \subseteq 1..created'
      BY <1>2
    <3>3. WindowKinds(req[g], created')
      BY <3>1, <3>2 DEF WindowKinds
    <3> QED BY <2>2, <3>1, <3>3
  <2> QED BY <2>1, <2>2
<1>4. WindowSlots'
  BY <1>1, <1>3 DEF WindowSlots
<1>5. ASSUME Apart
      PROVE  \A g \in Handlers : g # h => req[g].op = "idle"
  <2> SUFFICES ASSUME NEW g \in Handlers, g # h, req[g].op # "idle" PROVE FALSE
    OBVIOUS
  <2>1. req[g].on = {"window"} /\ (req[h].op # "idle" => req[h].on = {"window"})
    BY DEF WindowInv, WindowSlots, WindowKinds
  <2>2. r.op # "idle" => r.on = {"window"}
    BY DEF WindowKinds
  <2>3. CASE req[h].op # "idle"
    BY <1>5, <2>1, <2>3, OneInFlight DEF Busy, WindowInv, WindowSlots
  <2>4. CASE r.op # "idle"
    <3>1. Busy(g)' /\ Busy(h)' /\ req'[g] = req[g]
      BY <1>1, <2>4 DEF Busy
    <3>2. ~ Waits(req[g], req[h])'
      BY <3>1 DEF Exclusive
    <3>3. "window" \in req'[g].on /\ "window" \in req'[h].on /\ manner' = manner
      BY <1>1, <2>1, <2>2, <2>4, <3>1
    <3> QED BY <1>5, <3>2, <3>3 DEF Waits, Apart
  <2> QED BY <2>3, <2>4
<1>6. Tracking'
  <2> SUFFICES ASSUME Apart
               PROVE  /\ \A g \in Handlers : Tracks(req[g], window, span, missed)'
                      /\ (\A g \in Handlers : ~ Lags(req'[g])) => Covers(window, span, missed)'
    BY DEF Tracking, Apart, Lags
  <2>1. \A g \in Handlers : g # h => req[g].op = "idle" /\ req'[g] = req[g]
    BY <1>1, <1>5
  <2>2. Tracks(req[h], window, span, missed)
    BY DEF WindowInv, Tracking
  <2>3. ~ Lags(req[h]) => Covers(window, span, missed)
    <3> SUFFICES ASSUME ~ Lags(req[h]) PROVE Covers(window, span, missed)
      OBVIOUS
    <3>1. \A g \in Handlers : ~ Lags(req[g])
      BY <2>1 DEF Lags
    <3> QED BY <3>1 DEF WindowInv, Tracking
  <2>4. Tracks(r, window, span, missed)' /\ (~ Lags(r) => Covers(window, span, missed)')
    BY <2>2, <2>3
  <2>5. \A g \in Handlers : g # h => Tracks(req[g], window, span, missed)'
    BY <2>1 DEF Tracks
  <2>6. Tracks(req[h], window, span, missed)'
    BY <1>1, <2>4 DEF Tracks, Covers
  <2> QED BY <1>1, <2>4, <2>5, <2>6
<1> QED BY <1>4, <1>6 DEF WindowInv

LEMMA WindowInitially ==
    ASSUME RequestsInit, WindowInit
    PROVE  WindowInv
<1>1. DOMAIN req = Handlers /\ \A h \in Handlers : req[h] = Idle
  BY DEF RequestsInit
<1>2. Idle.op = "idle" /\ DOMAIN Idle = Fields
  BY DEF Idle, Fields
<1>3. window = <<>> /\ span = NoWindow /\ created = 0 /\ ShiftIds = {} /\ missed = {}
  BY DEF WindowInit, ShiftIds
<1>4. Covers(window, span, missed)
  BY <1>3 DEF Covers, ShiftIds
<1> HIDE DEF Idle
<1>5. WindowSlots
  BY <1>1, <1>2 DEF WindowSlots, WindowKinds, Exclusive, Busy, HasLocked
<1>6. WindowTables
  BY <1>3 DEF WindowTables, Spans
<1>7. Tracking
  BY <1>1, <1>2, <1>4 DEF Tracking, Tracks
<1> QED BY <1>5, <1>6, <1>7 DEF WindowInv

\* What the request of a slot is, in the words of the invariant.
LEMMA WindowSlot ==
    ASSUME WindowInv, NEW h \in Handlers
    PROVE  /\ DOMAIN req = Handlers /\ Exclusive /\ WindowKinds(req[h], created)
           /\ DOMAIN req[h] = Fields /\ created \in Nat /\ WindowTables
           /\ HasLocked(req[h], ShiftIds)
  BY DEF WindowInv, WindowSlots, WindowKinds, WindowTables

\* A window that covers the shifts, widened by that of one more, covers them all.
LEMMA CoversMore ==
    ASSUME NEW win, \A i \in DOMAIN win : win[i] \in Windows, NEW p \in Spans, NEW S,
           Covers(win, p, S), NEW w \in Windows
    PROVE  /\ Widened(p, w) \in Windows /\ Within(w, Widened(p, w))
           /\ \A i \in DOMAIN win :
                Within(win[i], Widened(p, w)) \/ (failing /\ i \in S)
<1>1. PICK q : q = Widened(p, w)
  OBVIOUS
<1>2. q \in Windows /\ Within(w, q) /\ (p # NoWindow => Within(p, q))
  BY <1>1, WidenedCovers
<1>3. ASSUME NEW i \in DOMAIN win, Within(win[i], p) PROVE Within(win[i], q)
  <2>1. p \in Windows /\ p # NoWindow
    BY <1>3, WithinWindow, WindowType
  <2> QED BY <1>2, <1>3, <2>1, WithinOfWithin
<1> QED BY <1>1, <1>2, <1>3 DEF Covers

\* The shifts and the window stay.
LEMMA WindowStays ==
    ASSUME WindowInv, UNCHANGED windowVars
    PROVE  /\ WindowTables' /\ created' >= created /\ ShiftIds' = ShiftIds
           /\ window' = window /\ span' = span /\ missed' = missed /\ created' = created
<1>1. window' = window /\ span' = span /\ missed' = missed /\ created' = created
  BY DEF windowVars
<1>2. WindowTables' /\ ShiftIds' = ShiftIds
  BY <1>1 DEF WindowInv, WindowTables, ShiftIds
<1>3. created' >= created
  BY <1>1 DEF WindowInv, WindowTables
<1> QED BY <1>1, <1>2, <1>3

LEMMA IdleWindow ==
    ASSUME NEW n, NEW ids
    PROVE  /\ Idle.op = "idle" /\ WindowKinds(Idle, n) /\ HasLocked(Idle, ids) /\ ~ Lags(Idle)
           /\ \A win, p, S : Tracks(Idle, win, p, S)
           /\ \A win, p, S : Tracks(Idle, win, p, S)'
<1>1. Idle.op = "idle" /\ DOMAIN Idle = Fields
  BY DEF Idle, Fields
<1> HIDE DEF Idle
<1> QED BY <1>1 DEF WindowKinds, HasLocked, Lags, Tracks

\* The last query of a request that writes the window: p covers the shifts win.
LEMMA SpanIsWritten ==
    ASSUME WindowInv, NEW h \in Handlers, NEW op, NEW p \in Spans, WriteSpan(h, op, p),
           op # "idle", created > 0, DOMAIN window' = DOMAIN window,
           \A s \in ShiftIds : window'[s] \in Windows,
           /\ Tracks(req[h], window, span, missed)
           /\ ~ Lags(req[h]) => Covers(window, span, missed)
           => Covers(window', p, missed \ req[h].seen.shifts)
    PROVE  WindowInv'
<1>1. /\ req[h].op = op /\ span' = p /\ missed' = missed \ req[h].seen.shifts
      /\ End(h) /\ created' = created
  BY DEF WriteSpan, At
<1>2. Takes(h, Idle) /\ Exclusive' /\ UNCHANGED <<manner, failing>>
  BY <1>1, WindowSlot, Ends DEF End
<1>3. ShiftIds' = ShiftIds
  BY DEF ShiftIds
<1>4. WindowTables' /\ created' >= created
  BY <1>1, <1>3, WindowSlot DEF WindowTables
<1>5. Covers(window', p, missed \ req[h].seen.shifts) => Covers(window, span, missed)'
  BY <1>1, <1>2 DEF Covers
<1>6. /\ WindowKinds(Idle, created') /\ HasLocked(Idle, ShiftIds')
      /\ Tracks(Idle, window, span, missed)'
  BY IdleWindow DEF Tracks
<1> QED BY <1>1, <1>2, <1>3, <1>4, <1>5, <1>6, WindowStep

LEMMA CreateShiftSteps ==
    ASSUME WindowInv, NEW h \in Handlers, CreateShift(h)
    PROVE  WindowInv'
<1>1. CASE CreateShiftRead(h)
  <2>1. PICK w \in Windows : WindowRequest(h, "create", "store", w, span)
    BY <1>1 DEF CreateShiftRead
  <2>2. PICK r : r = [op |-> "create", at |-> "store", by |-> 0, on |-> {"window"},
                      arg |-> w, seen |-> span]
    OBVIOUS
  <2>3. Begin(h, r) /\ UNCHANGED windowVars
    BY <2>1, <2>2 DEF WindowRequest
  <2>4. /\ DOMAIN r = Fields /\ r.op = "create" /\ r.at = "store" /\ r.on = {"window"}
        /\ r.arg = w /\ r.seen = span
    BY <2>2 DEF Fields
  <2>5. Takes(h, r) /\ Exclusive' /\ req[h].op = "idle" /\ UNCHANGED <<manner, failing>>
    BY <2>3, WindowSlot, Begins DEF Begin
  <2>6. /\ WindowTables' /\ created' >= created /\ ShiftIds' = ShiftIds
        /\ window' = window /\ span' = span /\ missed' = missed /\ created' = created
    BY <2>3, WindowStays
  <2>7. WindowKinds(r, created') /\ HasLocked(r, ShiftIds')
    BY <2>4, WindowSlot DEF WindowKinds, WindowTables, HasLocked
  <2>8. Tracks(r, window, span, missed)'
    BY <2>4, <2>6 DEF Tracks
  <2>9. ~ Lags(req[h]) /\ (Covers(window, span, missed) => Covers(window, span, missed)')
    BY <2>5, <2>6 DEF Lags, Covers
  <2> QED BY <2>4, <2>5, <2>6, <2>7, <2>8, <2>9, WindowStep
<1>2. CASE CreateShiftStore(h)
  <2>1. /\ req[h].op = "create" /\ req[h].at = "store" /\ created' = created + 1
        /\ GotoSpan(h, req[h].seen, {created'}) /\ span' = span /\ missed' = missed
        /\ window' = [s \in ShiftIds \cup {created'} |->
                        IF s = created' THEN req[h].arg ELSE window[s]]
    BY <1>2 DEF CreateShiftStore, At
  <2>2. PICK w, n, seen : /\ w = req[h].arg /\ n = created'
                          /\ seen = [span |-> req[h].seen, shifts |-> {n}]
    OBVIOUS
  <2>3. w \in Windows /\ seen.span = req[h].seen /\ seen.span \in Spans /\ seen.shifts = {n}
    BY <2>1, <2>2, WindowSlot DEF WindowKinds
  <2>4. PICK r : /\ Takes(h, r) /\ Exclusive' /\ DOMAIN r = Fields
                 /\ r.op = req[h].op /\ r.by = req[h].by /\ r.on = req[h].on
                 /\ r.arg = w /\ r.at = "span" /\ r.seen = seen
    <3>1. Goto(h, "span", seen)
      BY <2>1, <2>2 DEF GotoSpan
    <3> QED BY <2>1, <2>2, <3>1, WindowSlot, GoesOn
  <2>5. /\ created \in Nat /\ ShiftIds \subseteq 1..created /\ missed \subseteq 1..created
        /\ \A s \in ShiftIds : window[s] \in Windows
    BY WindowSlot DEF WindowTables
  <2>6. /\ DOMAIN window' = ShiftIds \cup {n} /\ window'[n] = w
        /\ \A s \in ShiftIds : window'[s] = window[s]
    BY <2>1, <2>2, <2>5
  <2>7. n \in Nat /\ n > 0 /\ n \notin ShiftIds /\ n \notin missed /\ ShiftIds' = ShiftIds \cup {n}
    BY <2>1, <2>2, <2>5, <2>6 DEF ShiftIds
  <2>8. WindowTables' /\ created' >= created
    <3>1. created' = n /\ ShiftIds' \subseteq 1..n /\ missed' \subseteq 1..n
      <4>1. n = created + 1 /\ created' = n
        BY <2>1, <2>2
      <4>2. 1..created \subseteq 1..n /\ n \in 1..n
        BY <2>5, <4>1
      <4> QED BY <2>1, <2>5, <2>7, <4>1, <4>2
    <3>2. \A s \in ShiftIds' : window'[s] \in Windows
      BY <2>3, <2>5, <2>6, <2>7
    <3>3. span' \in Spans
      BY <2>1, WindowSlot DEF WindowTables
    <3>4. created' \in Nat /\ created' # 0 /\ created' >= created
      BY <2>1, <2>5
    <3> QED BY <3>1, <3>2, <3>3, <3>4 DEF WindowTables, Spans
  <2>9. WindowKinds(r, created') /\ HasLocked(r, ShiftIds')
    BY <2>1, <2>2, <2>3, <2>4, <2>7, WindowSlot DEF WindowKinds, HasLocked
  <2>10. ASSUME Tracks(req[h], window, span, missed), Covers(window, span, missed)
         PROVE  Tracks(r, window, span, missed)'
    <3>1. seen.span = span /\ span \in Spans
      BY <2>1, <2>3, <2>10, WindowSlot DEF Tracks, WindowTables
    <3>2. PICK p : p = Widened(span, w)
      OBVIOUS
    <3>3. /\ p \in Windows /\ Within(w, p)
          /\ \A i \in ShiftIds : Within(window[i], p) \/ (failing /\ i \in missed)
      <4>1. \A i \in DOMAIN window : window[i] \in Windows
        BY <2>5 DEF ShiftIds
      <4> QED BY <2>3, <2>10, <3>1, <3>2, <4>1, CoversMore DEF ShiftIds
    <3>4. Covers(window, p, missed \ {n})'
      <4>1. ASSUME NEW i \in DOMAIN window'
            PROVE  Within(window'[i], p) \/ (failing /\ i \in missed \ {n})
        BY <2>6, <2>7, <3>3
      <4> QED BY <1>2, <2>1, <2>6, <4>1 DEF Covers, GotoSpan, Goto
    <3>5. failing => Covers(window, span, missed \cup {n})'
      <4> SUFFICES ASSUME failing PROVE Covers(window, span, missed \cup {n})'
        OBVIOUS
      <4>1. failing' = failing
        BY <2>1 DEF GotoSpan, Goto
      <4>2. \A i \in ShiftIds : Within(window[i], span) \/ i \in missed
        BY <2>10 DEF Covers, ShiftIds
      <4> QED BY <2>1, <2>6, <4>1, <4>2 DEF Covers
    <3>6. failing' = failing
      BY <2>1 DEF GotoSpan, Goto
    <3> QED BY <2>1, <2>3, <2>4, <3>1, <3>2, <3>4, <3>5, <3>6 DEF Tracks, Covers
  <2>11. Lags(r) /\ ~ Lags(req[h]) /\ UNCHANGED <<manner, failing>>
    BY <2>1, <2>4 DEF Lags, GotoSpan, Goto
  <2>12. \A g \in Handlers : HasLocked(req[g], ShiftIds) => HasLocked(req[g], ShiftIds')
    BY <2>7 DEF HasLocked
  <2> QED BY <2>1, <2>4, <2>8, <2>9, <2>10, <2>11, <2>12, WindowStep
<1>3. CASE CreateShiftSpan(h)
  <2>1. PICK p : p = Widened(req[h].seen.span, req[h].arg)
    OBVIOUS
  <2>2. /\ req[h].op = "create" /\ req[h].at = "span" /\ WriteSpan(h, "create", p)
        /\ window' = window
    BY <1>3, <2>1 DEF CreateShiftSpan, WriteSpan, At
  <2>3. /\ req[h].seen.span \in Spans /\ req[h].arg \in Windows /\ created > 0
        /\ \A s \in ShiftIds : window[s] \in Windows
    BY <2>2, WindowSlot DEF WindowKinds, WindowTables
  <2>4. p \in Spans
    BY <2>1, <2>3, WidenedCovers DEF Spans
  <2>5. Tracks(req[h], window, span, missed) => Covers(window, p, missed \ req[h].seen.shifts)
    BY <2>1, <2>2 DEF Tracks
  <2> QED BY <2>2, <2>3, <2>4, <2>5, SpanIsWritten
<1> QED BY <1>1, <1>2, <1>3 DEF CreateShift

\* A request that ends, and has written nothing that the window lacks.
LEMMA WindowEnds ==
    ASSUME WindowInv, NEW h \in Handlers, Busy(h), End(h), UNCHANGED windowVars,
           ~ Lags(req[h])
    PROVE  WindowInv'
<1>1. Takes(h, Idle) /\ Exclusive' /\ UNCHANGED <<manner, failing>>
  BY WindowSlot, Ends DEF End
<1>2. /\ WindowTables' /\ created' >= created /\ ShiftIds' = ShiftIds
      /\ window' = window /\ span' = span /\ missed' = missed
  BY WindowStays
<1>3. /\ WindowKinds(Idle, created') /\ HasLocked(Idle, ShiftIds')
      /\ Tracks(Idle, window, span, missed)'
  BY IdleWindow DEF Tracks
<1>4. Covers(window, span, missed) => Covers(window, span, missed)'
  BY <1>1, <1>2 DEF Covers
<1> QED BY <1>1, <1>2, <1>3, <1>4, WindowStep DEF Busy

LEMMA UpdateShiftSteps ==
    ASSUME WindowInv, NEW h \in Handlers, UpdateShift(h)
    PROVE  WindowInv'
<1>1. CASE UpdateShiftStart(h)
  <2>1. PICK s \in ShiftIds, c \in Changes :
          WindowRequest(h, "update", "write", [shift |-> s, change |-> c], 0)
    BY <1>1 DEF UpdateShiftStart
  <2>2. PICK a : a = [shift |-> s, change |-> c]
    OBVIOUS
  <2>3. a.shift = s /\ a.change = c
    BY <2>2
  <2>4. PICK r : r = [op |-> "update", at |-> "write", by |-> 0, on |-> {"window"},
                      arg |-> a, seen |-> 0]
    OBVIOUS
  <2>5. Begin(h, r) /\ UNCHANGED windowVars
    BY <2>1, <2>2, <2>4 DEF WindowRequest
  <2>6. /\ DOMAIN r = Fields /\ r.op = "update" /\ r.at = "write" /\ r.on = {"window"}
        /\ r.arg = a
    BY <2>4 DEF Fields
  <2>7. Takes(h, r) /\ Exclusive' /\ req[h].op = "idle" /\ UNCHANGED <<manner, failing>>
    BY <2>5, WindowSlot, Begins DEF Begin
  <2>8. /\ WindowTables' /\ created' >= created /\ ShiftIds' = ShiftIds
        /\ window' = window /\ span' = span /\ missed' = missed /\ created' = created
    BY <2>5, WindowStays
  <2>9. WindowKinds(r, created') /\ HasLocked(r, ShiftIds')
    <3>1. created > 0
      BY <2>1, WindowSlot DEF WindowTables
    <3> QED BY <2>3, <2>6, <2>8, <3>1, WindowSlot DEF WindowKinds, HasLocked
  <2>10. Tracks(r, window, span, missed)'
    BY <2>1, <2>3, <2>6, <2>8 DEF Tracks, ShiftIds
  <2>11. ~ Lags(req[h]) /\ (Covers(window, span, missed) => Covers(window, span, missed)')
    BY <2>7, <2>8 DEF Lags, Covers
  <2> QED BY <2>6, <2>7, <2>8, <2>9, <2>10, <2>11, WindowStep
<1>2. CASE UpdateShiftWrite(h)
  <2>1. req[h].op = "update" /\ req[h].at = "write" /\ UNCHANGED windowVars
    BY <1>2 DEF UpdateShiftWrite, At
  <2>2. CASE req[h].arg.shift \in ShiftIds
    <3>1. PICK seen : seen = [span |-> span, shifts |-> {req[h].arg.shift}]
      OBVIOUS
    <3>2. Goto(h, "span", seen) /\ seen.span = span /\ seen.shifts = {req[h].arg.shift}
      BY <1>2, <2>2, <3>1 DEF UpdateShiftWrite, GotoSpan
    <3>3. PICK r : /\ Takes(h, r) /\ Exclusive' /\ DOMAIN r = Fields
                   /\ r.op = req[h].op /\ r.by = req[h].by /\ r.on = req[h].on
                   /\ r.arg = req[h].arg /\ r.at = "span" /\ r.seen = seen
      BY <3>2, WindowSlot, GoesOn
    <3>4. /\ WindowTables' /\ created' >= created /\ ShiftIds' = ShiftIds
          /\ window' = window /\ span' = span /\ missed' = missed /\ created' = created
      BY <2>1, WindowStays
    <3>5. WindowKinds(r, created') /\ HasLocked(r, ShiftIds')
      <4>1. ShiftIds \subseteq 1..created /\ span \in Spans
        BY WindowSlot DEF WindowTables
      <4> QED BY <2>1, <2>2, <3>2, <3>3, <3>4, <4>1, WindowSlot DEF WindowKinds, HasLocked
    <3>6. Tracks(req[h], window, span, missed) => Tracks(r, window, span, missed)'
      BY <2>1, <3>2, <3>3, <3>4 DEF Tracks
    <3>7. ~ Lags(req[h]) /\ UNCHANGED <<manner, failing>>
      BY <2>1, <3>2 DEF Lags, Goto
    <3>8. Covers(window, span, missed) => Covers(window, span, missed)'
      BY <3>4, <3>7 DEF Covers
    <3> QED BY <2>1, <3>3, <3>4, <3>5, <3>6, <3>7, <3>8, WindowStep
  <2>3. CASE req[h].arg.shift \notin ShiftIds
    <3>1. End(h)
      BY <1>2, <2>3 DEF UpdateShiftWrite
    <3>2. Busy(h) /\ ~ Lags(req[h])
      BY <2>1 DEF Busy, Lags
    <3> QED BY <2>1, <3>1, <3>2, WindowEnds
  <2> QED BY <2>2, <2>3
<1>3. CASE UpdateShiftCommit(h)
  <2>1. PICK s, w, p : s = req[h].arg.shift /\ w = WindowAfter(h) /\ p = Widened(req[h].seen.span, w)
    OBVIOUS
  <2>2. /\ req[h].op = "update" /\ req[h].at = "span" /\ WriteSpan(h, "update", p)
        /\ window' = [window EXCEPT ![s] = w]
    BY <1>3, <2>1 DEF UpdateShiftCommit, WriteSpan, At
  <2>3. /\ s \in ShiftIds /\ req[h].seen.span \in Spans /\ created > 0
        /\ \A i \in ShiftIds : window[i] \in Windows
    BY <2>1, <2>2, WindowSlot DEF WindowKinds, HasLocked, WindowTables
  <2>4. w \in Windows
    <3>1. req[h].arg.change \in Changes
      BY <2>2, WindowSlot DEF WindowKinds
    <3> QED BY <2>1, <2>3, <3>1, MovedWindow DEF WindowAfter
  <2>5. p \in Spans
    BY <2>1, <2>3, <2>4, WidenedCovers DEF Spans
  <2>6. /\ DOMAIN window' = DOMAIN window
        /\ \A i \in ShiftIds : window'[i] = IF i = s THEN w ELSE window[i]
    BY <2>2 DEF ShiftIds
  <2>7. ASSUME Tracks(req[h], window, span, missed), Covers(window, span, missed)
        PROVE  Covers(window', p, missed \ req[h].seen.shifts)
    <3>1. req[h].seen.span = span /\ req[h].seen.shifts = {s} /\ span \in Spans
      BY <2>1, <2>2, <2>7, WindowSlot DEF Tracks, WindowTables
    <3>2. /\ Within(w, p)
          /\ \A i \in ShiftIds : Within(window[i], p) \/ (failing /\ i \in missed)
      BY <2>1, <2>3, <2>4, <2>7, <3>1, CoversMore DEF ShiftIds
    <3>3. \A i \in ShiftIds : Within(window'[i], p) \/ (failing /\ i \in missed \ {s})
      BY <2>6, <3>2
    <3> QED BY <2>3, <2>6, <3>1, <3>3 DEF Covers, ShiftIds
  <2>8. ~ Lags(req[h]) /\ \A i \in ShiftIds : window'[i] \in Windows
    BY <2>2, <2>3, <2>4, <2>6 DEF Lags
  <2> QED BY <2>2, <2>3, <2>5, <2>6, <2>7, <2>8, SpanIsWritten
<1> QED BY <1>1, <1>2, <1>3 DEF UpdateShift

LEMMA DeleteShiftSteps ==
    ASSUME WindowInv, NEW h \in Handlers, DeleteShift(h)
    PROVE  WindowInv'
<1>1. CASE DeleteShiftDelete(h)
  <2>1. PICK r : r = [op |-> "delete", at |-> "read", by |-> 0, on |-> {"window"},
                      arg |-> 0, seen |-> 0]
    OBVIOUS
  <2>2. PICK s \in ShiftIds : /\ Begin(h, r) /\ UNCHANGED <<span, created, missed>>
                              /\ ~ Locked(s)
                              /\ window' = [i \in ShiftIds \ {s} |-> window[i]]
    BY <1>1, <2>1 DEF DeleteShiftDelete
  <2>3. DOMAIN r = Fields /\ r.op = "delete" /\ r.at = "read" /\ r.on = {"window"}
    BY <2>1 DEF Fields
  <2>4. Takes(h, r) /\ Exclusive' /\ req[h].op = "idle" /\ UNCHANGED <<manner, failing>>
    BY <2>2, WindowSlot, Begins DEF Begin
  <2>5. ShiftIds' = ShiftIds \ {s} /\ \A i \in ShiftIds' : window'[i] = window[i]
    BY <2>2 DEF ShiftIds
  <2>6. WindowTables' /\ created' > 0
    <3>1. created' > 0
      BY <2>2, WindowSlot DEF WindowTables
    <3>2. \A i \in ShiftIds' : window'[i] \in Windows
      BY <2>5, WindowSlot DEF WindowTables
    <3> QED BY <2>2, <2>5, <3>1, <3>2, WindowSlot DEF WindowTables
  <2>7. WindowKinds(r, created') /\ created' >= created /\ HasLocked(r, ShiftIds')
    BY <2>2, <2>3, <2>6, WindowSlot DEF WindowKinds, HasLocked
  <2>8. \A g \in Handlers : HasLocked(req[g], ShiftIds) => HasLocked(req[g], ShiftIds')
    BY <2>2, <2>5 DEF HasLocked, Locked, At
  <2>9. Covers(window, span, missed) /\ failing => Covers(window, span, missed)'
    BY <2>2, <2>4, <2>5 DEF Covers, ShiftIds
  <2>10. Covers(window, span, missed) => Tracks(r, window, span, missed)'
    BY <2>3, <2>4, <2>9 DEF Tracks
  <2>11. Lags(r) /\ ~ Lags(req[h])
    BY <2>3, <2>4 DEF Lags
  <2> QED BY <2>3, <2>4, <2>6, <2>7, <2>8, <2>10, <2>11, WindowStep
<1>2. CASE DeleteShiftRead(h)
  <2>1. PICK p, seen : p = Hull(WindowsOf(ShiftIds)) /\ seen = [span |-> p, shifts |-> ShiftIds]
    OBVIOUS
  <2>2. /\ req[h].op = "delete" /\ req[h].at = "read" /\ Goto(h, "span", seen)
        /\ UNCHANGED windowVars /\ seen.span = p /\ seen.shifts = ShiftIds
    BY <1>2, <2>1 DEF DeleteShiftRead, At, GotoSpan
  <2>3. PICK r : /\ Takes(h, r) /\ Exclusive' /\ DOMAIN r = Fields
                 /\ r.op = req[h].op /\ r.by = req[h].by /\ r.on = req[h].on
                 /\ r.arg = req[h].arg /\ r.at = "span" /\ r.seen = seen
    BY <2>2, WindowSlot, GoesOn
  <2>4. /\ WindowTables' /\ created' >= created /\ ShiftIds' = ShiftIds
        /\ window' = window /\ span' = span /\ missed' = missed /\ created' = created
    BY <2>2, WindowStays
  <2>5. p \in Spans /\ Covers(window, p, {})
    <3>1. CASE ShiftIds = {}
      <4>1. WindowsOf(ShiftIds) = {}
        BY <3>1 DEF WindowsOf
      <4>2. p = NoWindow
        BY <2>1, <4>1 DEF Hull
      <4> QED BY <3>1, <4>2 DEF Covers, ShiftIds, Spans
    <3>2. CASE ShiftIds # {}
      <4>1. ShiftIds \subseteq 1..created /\ created \in Nat
        BY WindowSlot DEF WindowTables
      <4>2. IsFiniteSet(DOMAIN window)
        <5>1. IsFiniteSet(1..created)
          BY <4>1, FS_Interval
        <5>2. IsFiniteSet(ShiftIds)
          BY <4>1, <5>1, FS_Subset
        <5> QED BY <5>2 DEF ShiftIds
      <4>3. IsFiniteSet(WindowsOf(ShiftIds))
        BY <4>2, FiniteValues DEF WindowsOf, ShiftIds
      <4>4. WindowsOf(ShiftIds) # {} /\ WindowsOf(ShiftIds) \subseteq Windows
        BY <3>2, WindowSlot DEF WindowsOf, WindowTables
      <4>5. p \in Windows /\ \A w \in WindowsOf(ShiftIds) : Within(w, p)
        BY <2>1, <4>3, <4>4, HullCovers
      <4>6. \A s \in ShiftIds : Within(window[s], p)
        BY <4>5 DEF WindowsOf
      <4> QED BY <3>2, <4>5, <4>6 DEF Covers, ShiftIds, Spans
    <3> QED BY <3>1, <3>2
  <2>6. WindowKinds(r, created') /\ HasLocked(r, ShiftIds')
    <3>1. ShiftIds \subseteq 1..created
      BY WindowSlot DEF WindowTables
    <3> QED BY <2>2, <2>3, <2>4, <2>5, <3>1, WindowSlot DEF WindowKinds, HasLocked
  <2>7. Lags(r) /\ UNCHANGED <<manner, failing>>
    BY <2>2, <2>3 DEF Lags, Goto
  <2>8. ASSUME Tracks(req[h], window, span, missed)
        PROVE  Tracks(r, window, span, missed)'
    <3>1. Covers(window, p, missed \ ShiftIds)'
      BY <2>4, <2>5, <2>7 DEF Covers
    <3>2. (failing => Covers(window, span, missed))'
      BY <2>2, <2>4, <2>7, <2>8 DEF Tracks, Covers
    <3>3. r.op = "delete" /\ r.seen.span = p /\ r.seen.shifts = ShiftIds'
      BY <2>2, <2>3, <2>4
    <3> QED BY <3>1, <3>2, <3>3 DEF Tracks
  <2> QED BY <2>2, <2>3, <2>4, <2>6, <2>7, <2>8, WindowStep
<1>3. CASE DeleteShiftSpan(h)
  <2>1. PICK p : p = req[h].seen.span
    OBVIOUS
  <2>2. /\ req[h].op = "delete" /\ req[h].at = "span" /\ WriteSpan(h, "delete", p)
        /\ window' = window
    BY <1>3, <2>1 DEF DeleteShiftSpan, WriteSpan, At
  <2>3. p \in Spans /\ created > 0 /\ \A s \in ShiftIds : window[s] \in Windows
    BY <2>1, <2>2, WindowSlot DEF WindowKinds, WindowTables
  <2>4. Tracks(req[h], window, span, missed) => Covers(window', p, missed \ req[h].seen.shifts)
    BY <2>1, <2>2 DEF Tracks
  <2> QED BY <2>2, <2>3, <2>4, SpanIsWritten
<1> QED BY <1>1, <1>2, <1>3 DEF DeleteShift

\* A request fails: what it has written and not taken in, the window misses.
LEMMA WindowAbortStep ==
    ASSUME WindowInv, NEW h \in Handlers, WindowAbort(h)
    PROVE  WindowInv'
<1>1. /\ Busy(h) /\ failing /\ req' = [req EXCEPT ![h] = Idle]
      /\ UNCHANGED <<manner, failing, window, span, created>>
      /\ missed' = IF At(h, "create", "span") THEN missed \cup req[h].seen.shifts ELSE missed
  BY DEF WindowAbort, Abort
<1>2. Takes(h, Idle) /\ Exclusive'
  <2>1. Idle.op = "idle" /\ DOMAIN req = Handlers /\ Exclusive
    BY WindowSlot DEF Idle
  <2> HIDE DEF Idle
  <2>2. Takes(h, Idle)
    BY <1>1, <2>1 DEF Takes
  <2> QED BY <1>1, <2>1, <2>2, ExclusiveGoesOn
<1>3. ShiftIds' = ShiftIds
  BY <1>1 DEF ShiftIds
<1>4. WindowTables' /\ created' >= created
  <2>1. At(h, "create", "span") => req[h].seen.shifts \subseteq 1..created
    BY WindowSlot DEF At, WindowKinds
  <2> QED BY <1>1, <1>3, <2>1, WindowSlot DEF WindowTables
<1>5. /\ WindowKinds(Idle, created') /\ HasLocked(Idle, ShiftIds')
      /\ Tracks(Idle, window, span, missed)'
  BY IdleWindow DEF Tracks
<1>6. ASSUME Tracks(req[h], window, span, missed), ~ Lags(req[h]) => Covers(window, span, missed)
      PROVE  Covers(window, span, missed)'
  <2>1. CASE At(h, "create", "span")
    BY <1>1, <1>6, <2>1 DEF At, Tracks, Covers
  <2>2. CASE ~ At(h, "create", "span")
    <3>1. Covers(window, span, missed)
      BY <1>1, <1>6, <2>2 DEF At, Tracks, Lags
    <3> QED BY <1>1, <2>2, <3>1 DEF Covers
  <2> QED BY <2>1, <2>2
<1> QED BY <1>1, <1>2, <1>3, <1>4, <1>5, <1>6, WindowStep DEF Busy

LEMMA WindowNextKeeps ==
    ASSUME WindowInv, [WindowNext]_allWindowVars
    PROVE  WindowInv'
<1>1. CASE UNCHANGED allWindowVars
  <2>1. UNCHANGED <<req, manner, failing, window, span, created, missed>>
    BY <1>1 DEF allWindowVars, requestVars, windowVars
  <2>2. WindowSlots'
    BY <2>1 DEF WindowInv, WindowSlots, Exclusive, Busy, Waits, ShiftIds
  <2>3. WindowTables'
    BY <2>1 DEF WindowInv, WindowTables, ShiftIds
  <2>4. Tracking'
    BY <2>1 DEF WindowInv, Tracking, Apart, Tracks, Covers
  <2> QED BY <2>2, <2>3, <2>4 DEF WindowInv
<1> QED BY <1>1, CreateShiftSteps, UpdateShiftSteps, DeleteShiftSteps, WindowAbortStep
        DEF WindowNext

\* However requests about an activity race and fail, it has both of its instants or none,
\* and none before a shift was created.
THEOREM WindowTypeCorrect == WindowSpec => []WindowTypeOK
<1>1. WindowInv => WindowTypeOK
  BY DEF WindowInv, WindowTables, WindowTypeOK, WindowsOf, Spans
<1> QED BY <1>1, WindowInitially, WindowNextKeeps, PTL DEF WindowSpec

\* Among requests that keep apart, createShift, updateShift and deleteShift leave an activity
\* with a window that covers its shifts, those that end before they start too, but for the
\* shifts of a createShift that failed halfway and that nothing has put right since; and
\* without a window if it has no shifts and nothing fails.
THEOREM WindowCoversShifts == WindowSpec => []WindowCovers
<1>1. WindowInv => WindowCovers
  <2> SUFFICES ASSUME WindowInv, Apart, Quiet
               PROVE  /\ \A s \in ShiftIds : Within(window[s], span) \/ (failing /\ s \in missed)
                      /\ ~ failing /\ ShiftIds = {} => span = NoWindow
    BY DEF WindowCovers, Apart
  <2>1. \A h \in Handlers : ~ Lags(req[h])
    BY DEF Quiet, Busy, Lags
  <2>2. Covers(window, span, missed)
    BY <2>1 DEF WindowInv, Tracking
  <2> QED BY <2>2 DEF Covers, ShiftIds
<1> QED BY <1>1, WindowInitially, WindowNextKeeps, PTL DEF WindowSpec
=============================================================================
