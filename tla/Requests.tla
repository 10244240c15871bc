------------------------------ MODULE Requests ------------------------------
(***************************************************************************)
(* What the handlers of every service have in common.  A request is a      *)
(* method of a service that waits for one query after the other; between   *)
(* two of them any other handler may go on.  The first query is made in    *)
(* the step in which the request arrives: a request that it refuses leaves *)
(* nothing behind and is no step at all.  A query may also reject, which   *)
(* ends the request and rolls back the transaction it is in, if any.       *)
(*                                                                         *)
(* The services lock nothing, so that much of what they promise holds only *)
(* of clients that keep apart: `manner' says how far they do.              *)
(***************************************************************************)
EXTENDS Integers, FiniteSets

CONSTANTS
    Handlers,   \* slots for requests in flight
    MaxAborts   \* bound: queries that reject at will

ASSUME HandlersAssumption == IsFiniteSet(Handlers)
ASSUME MaxAbortsAssumption == MaxAborts \in Nat

VARIABLES
    req,     \* the request in each slot
    manner,  \* how clients keep apart, and
    failing, \* whether queries may reject: fixed at the start
    aborts   \* queries that have rejected

requestVars == <<req, manner, failing, aborts>>

\* any: they do not.  client: an account waits for the answer to its request before it
\* sends another.  subject: requests in flight are about different things.  serial: one
\* request at a time.
Manners == {"any", "client", "subject", "serial"}

\* op: the method; at: the query it waits for; by: the account; on: the things it is
\* about; arg: its parameters; seen: what it has read.
Idle == [op |-> "idle", at |-> "", by |-> 0, on |-> {}, arg |-> 0, seen |-> 0]

Busy(h) == req[h].op # "idle"
Quiet == \A h \in Handlers : ~ Busy(h)
At(h, op, at) == req[h].op = op /\ req[h].at = at

\* Whether r is sent only after the answer to q.
Waits(r, q) ==
    \/ manner = "client" /\ q.by = r.by
    \/ manner = "subject" /\ q.on \cap r.on # {}
    \/ manner = "serial"

Begin(h, r) ==
    /\ ~ Busy(h)
    /\ \A g \in Handlers \ {h} : Busy(g) => ~ Waits(r, req[g])
    /\ req' = [req EXCEPT ![h] = r]
    /\ UNCHANGED <<manner, failing, aborts>>

Goto(h, at, seen) ==
    /\ req' = [req EXCEPT ![h].at = at, ![h].seen = seen]
    /\ UNCHANGED <<manner, failing, aborts>>

\* The answer, or the exception of a guard.
End(h) ==
    /\ req' = [req EXCEPT ![h] = Idle]
    /\ UNCHANGED <<manner, failing, aborts>>

\* A query rejects.
Abort(h) ==
    /\ Busy(h)
    /\ failing /\ aborts < MaxAborts
    /\ aborts' = aborts + 1
    /\ req' = [req EXCEPT ![h] = Idle]
    /\ UNCHANGED <<manner, failing>>

\* A query that the tables refuse rejects in any run.
Violates(h) ==
    /\ aborts' = aborts + 1
    /\ req' = [req EXCEPT ![h] = Idle]
    /\ UNCHANGED <<manner, failing>>

RequestsInit ==
    /\ req = [h \in Handlers |-> Idle]
    /\ manner \in Manners
    /\ failing \in BOOLEAN
    /\ aborts = 0

\* A table: rows by id.  Ids are given in order.
NextId(table) == Cardinality(DOMAIN table) + 1
Insert(table, row) ==
    [i \in DOMAIN table \cup {NextId(table)} |->
        IF i \in DOMAIN table THEN table[i] ELSE row]

\* A page of findMany of the rows with the ids S, in the order of the ids.
Rank(S, i) == Cardinality({j \in S : j <= i})
PageOf(S, skip, take) == {i \in S : Rank(S, i) \in skip + 1 .. skip + take}
=============================================================================
