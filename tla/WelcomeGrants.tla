---------------------------- MODULE WelcomeGrants -----------------------------
(***************************************************************************)
(* The welcome programme: what a new account is given for registering, for *)
(* coming back, for a phone and for a first order (WelcomeGrantService).   *)
(* Every visit asks for every grant again, in a transaction of its own, so *)
(* that the tabs of one user and the users of one device race.  A          *)
(* transaction reads what was granted before it has any lock; what bounds  *)
(* the gift is decided under the locks of the rows it goes on to take.     *)
(*                                                                         *)
(* What PostgreSQL keeps from others until the transaction ends is the set *)
(* of the rows it has locked or inserted.  Left out: what refuses a        *)
(* registration before it comes to these rows (the switches, the captcha,  *)
(* the breaker, the counters of registrations by network and minute), and  *)
(* the expiry of the registration's gift, which is ExpireL0 of             *)
(* CreditLedger.                                                           *)
(***************************************************************************)
EXTENDS Integers, Functions

CONSTANTS
  Users,
  DevicesOf,   \* the clusters of each user's visits: a device with its network
  Phones,
  Visits,      \* transactions that may be open at once
  Amount,      \* of each kind of grant
  Cap,         \* CLUSTER_TOKEN_CAP
  DailyDays,   \* DAILY_WINDOW_DAYS
  CapDays,     \* CLUSTER_WINDOW_DAYS
  MaxDay,      \* bound: the last day
  None

Clusters == UNION {DevicesOf[u] : u \in Users}

Kinds == {"L0", "L1", "L2", "L3", "daily"}
Capped == {"L0", "L1", "daily"}

VARIABLES
  day,
  events,      \* free_grant_events: each with its leg and its bucket in the ledger
  clusters,    \* free_clusters, as committed
  anchor,      \* free_phone_anchors: the user of each phone, or None
  visit        \* the transactions

vars == <<day, events, clusters, anchor, visit>>

Idle == [at |-> "idle", user |-> None, kind |-> "L0", on |-> 0, cluster |-> None,
         phone |-> None, day |-> 0, used |-> 0, rows |-> {}]

Init ==
  /\ day = 0 /\ events = {} /\ clusters = {}
  /\ anchor = [p \in Phones |-> None]
  /\ visit = [v \in Visits |-> Idle]

-----------------------------------------------------------------------------
\* The level of a daily grant names its day, any other stands for itself.
Has(u, kind, on) == \E e \in events : e.user = u /\ e.kind = kind /\ e.on = on

Enrolled(u) == {e \in events : e.user = u /\ e.kind = "L0"}

\* Nobody else has the row locked or inserted.
Free(v, r) == \A w \in Visits \ {v} : r \notin visit[w].rows

Lock(v, r, step) ==
  /\ Free(v, r)
  /\ visit' = [visit EXCEPT ![v].rows = @ \cup {r}, ![v].at = step]

End(v) == visit' = [visit EXCEPT ![v] = Idle]

\* rollingCapSum
RollingCapSum(c) ==
  SumFunctionOnSet([e \in events |-> Amount[e.kind]],
                   {e \in events : e.cluster = c /\ e.kind \in Capped /\ e.day >= day - CapDays})

(***************************************************************************)
(* The checks a grant begins with, which take no lock.  That the account   *)
(* has a finished job or is old enough within the day, that the phone is   *)
(* verified and the order large enough is for the environment to choose.   *)
(* Registration, the first return and the phone count for the device of    *)
(* the visit, the others for the device of enrolment.  Only the daily      *)
(* grant does not look whether it was given.                               *)
(***************************************************************************)
GrantL0(u, c) == Enrolled(u) = {} /\ c \in DevicesOf[u]

GrantL1(u, c) ==
  /\ ~Has(u, "L1", 0) /\ c \in DevicesOf[u]
  /\ \E e \in Enrolled(u) : day > e.day

GrantDaily(u, c) ==
  \E e \in Enrolled(u) : c = e.cluster /\ day - e.day \in 1..DailyDays

GrantL2(u, c) == ~Has(u, "L2", 0) /\ Enrolled(u) # {} /\ c \in DevicesOf[u]

GrantL3(u, c) == ~Has(u, "L3", 0) /\ \E e \in Enrolled(u) : c = e.cluster

Begin(v, u, kind, c, p) ==
  /\ visit[v].at = "idle"
  /\ CASE kind = "L0" -> GrantL0(u, c)
       [] kind = "L1" -> GrantL1(u, c)
       [] kind = "L2" -> GrantL2(u, c)
       [] kind = "L3" -> GrantL3(u, c)
       [] kind = "daily" -> GrantDaily(u, c)
  /\ p # None <=> kind = "L2"
  /\ visit' = [visit EXCEPT ![v] =
       [at |-> IF kind = "L2" THEN "phone" ELSE "user", user |-> u, kind |-> kind,
        on |-> IF kind = "daily" THEN day ELSE 0, cluster |-> c, phone |-> p,
        day |-> day, used |-> 0, rows |-> {}]]
  /\ UNCHANGED <<day, events, clusters, anchor>>

\* L2 makes sure of the cluster's row, which nobody else can while it is new.
InsertCluster(v) ==
  LET c == visit[v].cluster
  IN  /\ visit[v].at = "phone"
      /\ IF c \in clusters THEN visit' = [visit EXCEPT ![v].at = "anchor"]
                           ELSE Lock(v, c, "anchor")
      /\ UNCHANGED <<day, events, clusters, anchor>>

\* Mutant: the conflict on the phone is taken for the user's own row.
ClaimAnyPhone(v) ==
  /\ visit[v].at = "anchor"
  /\ Lock(v, visit[v].phone, "user")
  /\ UNCHANGED <<day, events, clusters, anchor>>

\* The insert waits for another's of the same phone; then the owner decides.
ClaimPhone(v) ==
  LET p == visit[v].phone
  IN  /\ visit[v].at = "anchor"
      /\ CASE anchor[p] = None -> Lock(v, p, "user") /\ UNCHANGED clusters
           [] anchor[p] = visit[v].user ->
                visit' = [visit EXCEPT ![v].at = "user"] /\ UNCHANGED clusters
           [] OTHER -> End(v) /\ clusters' = clusters \cup {visit[v].cluster}
      /\ UNCHANGED <<day, events, anchor>>

LockUser(v) ==
  /\ visit[v].at = "user" /\ Lock(v, visit[v].user, "cluster")
  /\ UNCHANGED <<day, events, clusters, anchor>>

\* Mutant: the rolling sum is read without the cluster's lock.
ReadUnlocked(v) ==
  /\ visit[v].at = "cluster"
  /\ visit' = [visit EXCEPT ![v].at = "issue", ![v].used = RollingCapSum(visit[v].cluster)]
  /\ UNCHANGED <<day, events, clusters, anchor>>

\* The cluster's row is inserted or locked, and the sum read after that.  An
\* uncapped grant meets the same row a little later, in its last update.
LockCluster(v) ==
  LET c == visit[v].cluster
  IN  /\ visit[v].at = "cluster" /\ Free(v, c)
      /\ visit' = [visit EXCEPT ![v].rows = @ \cup {c}, ![v].at = "issue",
                                ![v].used = RollingCapSum(c)]
      /\ UNCHANGED <<day, events, clusters, anchor>>

Event(v) == [user |-> visit[v].user, kind |-> visit[v].kind, on |-> visit[v].on,
             cluster |-> visit[v].cluster, day |-> visit[v].day]

Fits(v) == visit[v].kind \in Capped => visit[v].used + Amount[visit[v].kind] <= Cap

\* The rows that a commit leaves, with or without the grant.
Leave(v) ==
  /\ clusters' = clusters \cup {visit[v].cluster}
  /\ anchor' = IF visit[v].phone = None THEN anchor
               ELSE [anchor EXCEPT ![visit[v].phone] = visit[v].user]

\* Mutant: the check of the beginning is trusted.
IssueAgain(v) ==
  /\ visit[v].at = "issue"
  /\ events' = IF Fits(v) THEN events \cup {Event(v)} ELSE events
  /\ Leave(v) /\ End(v) /\ UNCHANGED day

\* Mutant: the sum may reach the cap before the grant, and pass it with it.
IssueAtCap(v) ==
  /\ visit[v].at = "issue"
  /\ events' = IF /\ visit[v].kind \in Capped => visit[v].used < Cap
                  /\ ~Has(visit[v].user, visit[v].kind, visit[v].on)
               THEN events \cup {Event(v)} ELSE events
  /\ Leave(v) /\ End(v) /\ UNCHANGED day

\* The event is the gate: one for each user and level, the leg and the bucket
\* with it.
Issue(v) ==
  /\ visit[v].at = "issue"
  /\ events' = IF Fits(v) /\ ~Has(visit[v].user, visit[v].kind, visit[v].on)
               THEN events \cup {Event(v)} ELSE events
  /\ Leave(v) /\ End(v) /\ UNCHANGED day

\* A failure, or PostgreSQL's choice in a deadlock; the visit goes on without it.
Abort(v) ==
  /\ visit[v].at # "idle"
  /\ End(v) /\ UNCHANGED <<day, events, clusters, anchor>>

Tomorrow ==
  /\ day < MaxDay /\ day' = day + 1
  /\ UNCHANGED <<events, clusters, anchor, visit>>

Next ==
  \/ Tomorrow
  \/ \E v \in Visits :
       \/ \E u \in Users, k \in Kinds, p \in Phones \cup {None} :
            \E c \in Clusters : Begin(v, u, k, c, p)
       \/ InsertCluster(v) \/ ClaimPhone(v) \/ LockUser(v) \/ LockCluster(v)
       \/ Issue(v) \/ Abort(v)

Spec == Init /\ [][Next]_vars

-----------------------------------------------------------------------------
\* The tables and the transactions have their types.
TypeOK ==
  /\ day \in 0..MaxDay
  /\ events \subseteq [user : Users, kind : Kinds, on : 0..MaxDay, cluster : Clusters, day : 0..MaxDay]
  /\ clusters \subseteq Clusters
  /\ anchor \in [Phones -> Users \cup {None}]
  /\ \A v \in Visits :
       /\ visit[v].at \in {"idle", "phone", "anchor", "user", "cluster", "issue"}
       /\ visit[v].rows \subseteq Users \cup Clusters \cup Phones
       /\ visit[v].used \in Nat

(***************************************************************************)
(* The gift is bounded, whatever the visits of one user and of one device  *)
(* race for: a level is given once, a phone carries one account's bonus,   *)
(* and the capped grants of a device within the window stay under the cap, *)
(* which is what one account can earn.                                     *)
(***************************************************************************)
GiftIsBounded ==
  /\ \A e, f \in events : (e.user = f.user /\ e.kind = f.kind /\ e.on = f.on) => e = f
  /\ \A e \in events : (e.kind = "L2") => \E p \in Phones : anchor[p] = e.user
  /\ \A c \in Clusters : RollingCapSum(c) <= Cap

=============================================================================
