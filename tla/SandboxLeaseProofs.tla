------------------------- MODULE SandboxLeaseProofs -------------------------
(***************************************************************************)
(* Theorems about SandboxLease for any number of sandboxes, workers and    *)
(* leases, and for any capacities.                                         *)
(***************************************************************************)
EXTENDS SandboxLease, FiniteSetTheorems, TLAPS

-----------------------------------------------------------------------------
(* Type correctness.                                                       *)

\* The empty tables are well typed.
LEMMA LeaseTypeInit == Init => LeaseTypeOK
BY LeaseAssumption DEF Init, LeaseTypeOK, Ids, Held, Closed

\* What release_capacity leaves free is still a number.
LEMMA CreditedType ==
    ASSUME LeaseTypeOK, NEW s \in Sandboxes, NEW k \in LeasesOf(s)
    PROVE  /\ Credited(s, k) \in [Nodes -> Nat]
           /\ leaseNode[s][k] \in Nodes
<1>1. k \in Ids /\ ~(k > issued[s])
  BY LeaseAssumption DEF LeaseTypeOK, LeasesOf, Ids
<1>2. leaseNode[s][k] \in Nodes
  BY <1>1 DEF LeaseTypeOK
<1>3. total[leaseNode[s][k]] \in Nat /\ avail[leaseNode[s][k]] + Demand[s] \in Nat
  BY <1>2, LeaseAssumption DEF LeaseTypeOK
<1> QED
  BY <1>2, <1>3 DEF Credited, Lesser, LeaseTypeOK

-----------------------------------------------------------------------------
(* The inductive invariant.                                                *)

\* The conjunction is inductive although its parts are not: that a lease is
\* the newest (OneOwner) is what keeps its generation the highest when it is
\* extended (GenerationsFence), that is what makes the generation of a retry
\* higher than every earlier one, and only the type of the rows says that the
\* row a placement writes was not in use.
LeaseInv ==
    /\ LeaseTypeOK
    /\ OneOwner
    /\ GenerationsFence
    /\ AssignmentFollowsLease

\* The empty tables satisfy it.
LEMMA LeaseInvInit == Init => LeaseInv
BY LeaseTypeInit, LeaseAssumption
   DEF Init, LeaseInv, OneOwner, GenerationsFence, AssignmentFollowsLease, LeasesOf, Ids

\* The leases of s as a placement finds them, once it has settled a lapsed one.
Settled(s, rows) ==
    /\ rows \in [Sandboxes -> [Ids -> Held \cup Closed \cup {"none"}]]
    /\ \A q \in Sandboxes \ {s} : rows[q] = status[q]
    /\ \A k \in Ids : /\ rows[s][k] # "active"
                      /\ rows[s][k] = "none" <=> status[s][k] = "none"
                      /\ status[s][k] \in Closed => rows[s][k] = status[s][k]

\* The generation a placement uses is above all earlier ones of the sandbox.
Above(s, g) == g \in Nat /\ \A j \in LeasesOf(s) : gen[s][j] < g

\* What the end of schedule_on_node and reassign_expired_lease keeps.
LEMMA PlaceKeeps ==
    ASSUME LeaseInv, NEW s \in Sandboxes, NEW n \in Nodes, NEW g, NEW st, NEW free, NEW rows,
           Settled(s, rows), Above(s, g),
           st \in SandboxState \ {"destroyed"},
           free \in [Nodes -> Nat],
           Place(s, n, g, st, free, rows)
    PROVE  /\ LeaseInv'
           /\ ClosedKept
<1> DEFINE k == issued[s] + 1
<1> USE LeaseAssumption DEF Ids
<1>1. /\ issued[s] \in Nat /\ k \in Ids
      /\ Demand[s] \in Nat /\ free[n] \in Nat /\ free[n] >= Demand[s]
      /\ g \in 0 .. MaxGeneration
  <2>1. issued[s] < LeaseBound[s] /\ g <= MaxGeneration /\ free[n] >= Demand[s]
    BY DEF Place, Schedulable
  <2>2. issued[s] \in 0 .. MaxLeases
    BY DEF LeaseInv, LeaseTypeOK
  <2>3. LeaseBound[s] \in 0 .. MaxLeases /\ Demand[s] \in Nat /\ free[n] \in Nat
    OBVIOUS
  <2>4. g \in Nat
    BY DEF Above
  <2> QED
    BY <2>1, <2>2, <2>3, <2>4
<1>2. /\ status' = [rows EXCEPT ![s][k] = "active"]
      /\ issued' = [issued EXCEPT ![s] = k]
      /\ gen' = [gen EXCEPT ![s][k] = g]
      /\ leaseNode' = [leaseNode EXCEPT ![s][k] = n]
      /\ live' = [live EXCEPT ![s][k] = TRUE]
      /\ state' = [state EXCEPT ![s] = st]
      /\ nodeOf' = [nodeOf EXCEPT ![s] = n]
      /\ assignedLease' = [assignedLease EXCEPT ![s] = k]
      /\ assignment' = [assignment EXCEPT ![s] = "reserved"]
      /\ avail' = [free EXCEPT ![n] = @ - Demand[s]]
      /\ UNCHANGED <<total, healthy, accepting>>
  BY DEF Place
<1>a. /\ issued'[s] = k /\ state'[s] = st
      /\ assignedLease'[s] = k /\ assignment'[s] = "reserved"
      /\ \A q \in Sandboxes \ {s} : /\ issued'[q] = issued[q] /\ state'[q] = state[q]
                                    /\ assignedLease'[q] = assignedLease[q]
                                    /\ assignment'[q] = assignment[q]
  BY <1>2 DEF LeaseInv, LeaseTypeOK
<1>b. /\ \A j \in Ids : /\ status'[s][j] = IF j = k THEN "active" ELSE rows[s][j]
                        /\ leaseNode'[s][j] = IF j = k THEN n ELSE leaseNode[s][j]
                        /\ gen'[s][j] = IF j = k THEN g ELSE gen[s][j]
      /\ \A q \in Sandboxes \ {s} : /\ status'[q] = status[q]
                                    /\ leaseNode'[q] = leaseNode[q] /\ gen'[q] = gen[q]
  <2>1. /\ leaseNode \in [Sandboxes -> [Ids -> Nodes \cup {NoNode}]]
        /\ gen \in [Sandboxes -> [Ids -> 0 .. MaxGeneration]]
    BY DEF LeaseInv, LeaseTypeOK
  <2>2. /\ rows \in [Sandboxes -> [Ids -> Held \cup Closed \cup {"none"}]]
        /\ \A q \in Sandboxes \ {s} : rows[q] = status[q]
    BY DEF Settled
  <2>3. /\ \A j \in Ids : status'[s][j] = IF j = k THEN "active" ELSE rows[s][j]
        /\ \A q \in Sandboxes \ {s} : status'[q] = status[q]
    BY <1>1, <1>2, <2>2
  <2>4. /\ \A j \in Ids : /\ leaseNode'[s][j] = IF j = k THEN n ELSE leaseNode[s][j]
                          /\ gen'[s][j] = IF j = k THEN g ELSE gen[s][j]
        /\ \A q \in Sandboxes \ {s} : leaseNode'[q] = leaseNode[q] /\ gen'[q] = gen[q]
    BY <1>1, <1>2, <2>1
  <2> QED
    BY <2>3, <2>4
<1>c. \A q \in Sandboxes : issued[q] \in Nat
  BY DEF LeaseInv, LeaseTypeOK
<1>d. \A j \in Ids : j > issued[s] <=> rows[s][j] = "none"
  BY DEF LeaseInv, LeaseTypeOK, Settled
<1>3. LeaseTypeOK'
  <2>1. /\ state' \in [Sandboxes -> SandboxState \cup {"absent"}]
        /\ nodeOf' \in [Sandboxes -> Nodes \cup {NoNode}]
        /\ issued' \in [Sandboxes -> 0 .. MaxLeases]
        /\ assignedLease' \in [Sandboxes -> 0 .. MaxLeases]
        /\ assignment' \in [Sandboxes -> {"none", "reserved", "assigned", "completed"} \cup Closed]
    BY <1>1, <1>2, SMTT(40) DEF LeaseInv, LeaseTypeOK
  <2>2. /\ leaseNode' \in [Sandboxes -> [Ids -> Nodes \cup {NoNode}]]
        /\ gen' \in [Sandboxes -> [Ids -> 0 .. MaxGeneration]]
        /\ live' \in [Sandboxes -> [Ids -> BOOLEAN]]
    BY <1>1, <1>2, SMTT(40) DEF LeaseInv, LeaseTypeOK
  <2>3. status' \in [Sandboxes -> [Ids -> Held \cup Closed \cup {"none"}]]
    BY <1>1, <1>2 DEF Settled, Held
  <2>4. avail' \in [Nodes -> Nat] /\ total' \in [Nodes -> Nat]
    BY <1>1, <1>2, SMTT(40) DEF LeaseInv, LeaseTypeOK
  <2>5. healthy' \in [Nodes -> BOOLEAN] /\ accepting' \in [Nodes -> BOOLEAN]
    BY <1>2 DEF LeaseInv, LeaseTypeOK
  <2>6. ASSUME NEW q \in Sandboxes, q # s
        PROVE  /\ state'[q] = "absent" <=> issued'[q] = 0
               /\ \A j \in Ids : /\ status'[q][j] = "none" <=> j > issued'[q]
                                 /\ leaseNode'[q][j] = NoNode <=> j > issued'[q]
    <3>1. /\ state[q] = "absent" <=> issued[q] = 0
          /\ \A j \in Ids : /\ status[q][j] = "none" <=> j > issued[q]
                            /\ leaseNode[q][j] = NoNode <=> j > issued[q]
      BY DEF LeaseInv, LeaseTypeOK
    <3>2. /\ state'[q] = state[q] /\ issued'[q] = issued[q]
          /\ status'[q] = status[q] /\ leaseNode'[q] = leaseNode[q]
      BY <1>a, <1>b, <2>6
    <3> QED
      BY <3>1, <3>2
  <2>7. ~(state'[s] = "absent") /\ ~(issued'[s] = 0)
    BY <1>1, <1>a DEF SandboxState
  <2>8. ASSUME NEW j \in Ids
        PROVE  /\ status'[s][j] = "none" <=> j > issued'[s]
               /\ leaseNode'[s][j] = NoNode <=> j > issued'[s]
    <3>1. CASE j = k
      BY <1>1, <1>a, <1>b, <3>1
    <3>2. CASE j # k
      <4>1. j > k <=> j > issued[s]
        BY <1>1, <3>2
      <4>2. leaseNode[s][j] = NoNode <=> j > issued[s]
        BY DEF LeaseInv, LeaseTypeOK
      <4> QED
        BY <1>a, <1>b, <1>d, <3>2, <4>1, <4>2
    <3> QED
      BY <3>1, <3>2
  <2>9. \A q \in Sandboxes :
           /\ state'[q] = "absent" <=> issued'[q] = 0
           /\ \A j \in Ids : /\ status'[q][j] = "none" <=> j > issued'[q]
                             /\ leaseNode'[q][j] = NoNode <=> j > issued'[q]
    BY <2>6, <2>7, <2>8
  <2> QED
    BY <2>1, <2>2, <2>3, <2>4, <2>5, <2>9 DEF LeaseTypeOK
<1>4. OneOwner'
  <2>1. ASSUME NEW q \in Sandboxes, q # s, NEW j \in Ids, status'[q][j] = "active"
        PROVE  j = issued'[q]
    BY <1>a, <1>b, <2>1 DEF LeaseInv, OneOwner
  <2>2. ASSUME NEW j \in Ids, status'[s][j] = "active" PROVE j = issued'[s]
    BY <1>a, <1>b, <2>2 DEF Settled
  <2> QED
    BY <2>1, <2>2 DEF OneOwner
<1>5. GenerationsFence'
  <2>1. ASSUME NEW q \in Sandboxes, q # s, NEW i \in 1 .. issued'[q], NEW j \in 1 .. issued'[q],
               i < j
        PROVE  gen'[q][i] < gen'[q][j]
    BY <1>a, <1>b, <2>1 DEF LeaseInv, GenerationsFence, LeasesOf
  <2>2. ASSUME NEW i \in 1 .. k, NEW j \in 1 .. k, i < j
        PROVE  gen'[s][i] < gen'[s][j]
    <3>1. i \in Ids /\ j \in Ids /\ i # k /\ i \in LeasesOf(s)
      BY <1>1, <2>2 DEF LeasesOf
    <3>2. CASE j = k
      BY <1>b, <3>1, <3>2 DEF Above
    <3>3. CASE j # k
      <4>1. j \in LeasesOf(s)
        BY <1>1, <2>2, <3>3 DEF LeasesOf
      <4> QED
        BY <1>b, <2>2, <3>1, <3>3, <4>1 DEF LeaseInv, GenerationsFence
    <3> QED
      BY <3>2, <3>3
  <2> QED
    BY <1>a, <2>1, <2>2 DEF GenerationsFence, LeasesOf
<1>6. AssignmentFollowsLease'
  <2>1. ASSUME NEW q \in Sandboxes, q # s, NEW j \in Ids, status'[q][j] = "active"
        PROVE  assignedLease'[q] = j /\ assignment'[q] \in {"reserved", "assigned"}
    BY <1>a, <1>b, <2>1 DEF LeaseInv, AssignmentFollowsLease
  <2>2. ASSUME NEW j \in Ids, status'[s][j] = "active"
        PROVE  assignedLease'[s] = j /\ assignment'[s] \in {"reserved", "assigned"}
    BY <1>a, <1>b, <2>2 DEF Settled
  <2> QED
    BY <2>1, <2>2 DEF AssignmentFollowsLease
<1>8. ClosedKept
  <2>1. ASSUME NEW q \in Sandboxes, q # s, NEW j \in Ids, status[q][j] \in Closed
        PROVE  status'[q][j] = status[q][j] /\ gen'[q][j] = gen[q][j]
    BY <1>b, <2>1
  <2>2. ASSUME NEW j \in Ids, status[s][j] \in Closed
        PROVE  status'[s][j] = status[s][j] /\ gen'[s][j] = gen[s][j]
    <3>1. status[s][k] = "none"
      BY <1>1 DEF LeaseInv, LeaseTypeOK
    <3>2. j # k
      BY <2>2, <3>1 DEF Closed
    <3> QED
      BY <1>b, <2>2, <3>2 DEF Settled
  <2> QED
    BY <2>1, <2>2 DEF ClosedKept
<1> QED
  BY <1>3, <1>4, <1>5, <1>6, <1>8 DEF LeaseInv

\* What release_capacity keeps, whatever its caller does to the sandbox's state.
LEMMA ReleaseKeeps ==
    ASSUME LeaseInv, NEW s \in Sandboxes, NEW k \in LeasesOf(s), NEW how \in Closed, NEW st,
           status[s][k] \in Held,
           st \in SandboxState,
           state' = [state EXCEPT ![s] = st],
           Release(s, k, how)
    PROVE  /\ LeaseInv'
           /\ ClosedKept
<1> USE LeaseAssumption DEF Ids
<1>1. /\ k \in Ids /\ ~(k > issued[s]) /\ issued[s] \in Nat /\ issued[s] # 0
  <2>1. issued[s] \in 0 .. MaxLeases
    BY DEF LeaseInv, LeaseTypeOK
  <2> QED
    BY <2>1 DEF LeasesOf
<1>2. /\ status' = [status EXCEPT ![s][k] = how]
      /\ avail' = Credited(s, k)
      /\ nodeOf' = [nodeOf EXCEPT ![s] = Vacated(s, k)]
      /\ assignment' = [assignment EXCEPT ![s] = IF assignedLease[s] = k THEN how ELSE @]
      /\ UNCHANGED <<issued, leaseNode, gen, live, assignedLease, total, healthy, accepting>>
  BY DEF Release
<1>a. /\ state'[s] = st
      /\ assignment'[s] = IF assignedLease[s] = k THEN how ELSE assignment[s]
      /\ \A q \in Sandboxes \ {s} : state'[q] = state[q] /\ assignment'[q] = assignment[q]
  BY <1>2 DEF LeaseInv, LeaseTypeOK
<1>b. /\ \A j \in Ids : status'[s][j] = IF j = k THEN how ELSE status[s][j]
      /\ \A q \in Sandboxes \ {s} : status'[q] = status[q]
  BY <1>1, <1>2 DEF LeaseInv, LeaseTypeOK
<1>c. how # "active" /\ how # "none" /\ how \in Held \cup Closed \cup {"none"}
  BY DEF Closed
<1>3. LeaseTypeOK'
  <2>1. /\ state' \in [Sandboxes -> SandboxState \cup {"absent"}]
        /\ assignment' \in [Sandboxes -> {"none", "reserved", "assigned", "completed"} \cup Closed]
    BY <1>2 DEF LeaseInv, LeaseTypeOK
  <2>2. status' \in [Sandboxes -> [Ids -> Held \cup Closed \cup {"none"}]]
    BY <1>1, <1>2, <1>c DEF LeaseInv, LeaseTypeOK
  <2>3. avail' \in [Nodes -> Nat] /\ nodeOf' \in [Sandboxes -> Nodes \cup {NoNode}]
    BY <1>2, CreditedType, SMTT(40) DEF LeaseInv, LeaseTypeOK, Vacated
  <2>4. /\ issued' \in [Sandboxes -> 0 .. MaxLeases]
        /\ leaseNode' \in [Sandboxes -> [Ids -> Nodes \cup {NoNode}]]
        /\ gen' \in [Sandboxes -> [Ids -> 0 .. MaxGeneration]]
        /\ live' \in [Sandboxes -> [Ids -> BOOLEAN]]
        /\ assignedLease' \in [Sandboxes -> 0 .. MaxLeases]
        /\ total' \in [Nodes -> Nat]
        /\ healthy' \in [Nodes -> BOOLEAN]
        /\ accepting' \in [Nodes -> BOOLEAN]
    BY <1>2 DEF LeaseInv, LeaseTypeOK
  <2>5. ASSUME NEW q \in Sandboxes
        PROVE  /\ state'[q] = "absent" <=> issued'[q] = 0
               /\ \A j \in Ids : /\ status'[q][j] = "none" <=> j > issued'[q]
                                 /\ leaseNode'[q][j] = NoNode <=> j > issued'[q]
    <3>1. /\ state[q] = "absent" <=> issued[q] = 0
          /\ \A j \in Ids : /\ status[q][j] = "none" <=> j > issued[q]
                            /\ leaseNode[q][j] = NoNode <=> j > issued[q]
      BY DEF LeaseInv, LeaseTypeOK
    <3>2. issued'[q] = issued[q] /\ leaseNode'[q] = leaseNode[q]
      BY <1>2
    <3>3. CASE q # s
      BY <1>a, <1>b, <3>1, <3>2, <3>3
    <3>4. CASE q = s
      <4>1. ~(state'[q] = "absent")
        BY <1>a, <3>4 DEF SandboxState
      <4> QED
        BY <1>1, <1>b, <1>c, <3>1, <3>2, <3>4, <4>1
    <3> QED
      BY <3>3, <3>4
  <2> QED
    BY <2>1, <2>2, <2>3, <2>4, <2>5 DEF LeaseTypeOK
<1>4. OneOwner'
  BY <1>2, <1>b, <1>c DEF LeaseInv, OneOwner
<1>5. GenerationsFence'
  BY <1>2 DEF LeaseInv, GenerationsFence, LeasesOf
<1>6. AssignmentFollowsLease'
  <2>1. ASSUME NEW q \in Sandboxes, NEW j \in Ids, status'[q][j] = "active"
        PROVE  assignedLease'[q] = j /\ assignment'[q] \in {"reserved", "assigned"}
    <3>1. status[q][j] = "active" /\ (q = s => j # k)
      BY <1>b, <1>c, <2>1
    <3>2. assignedLease[q] = j /\ assignment[q] \in {"reserved", "assigned"}
      BY <3>1 DEF LeaseInv, AssignmentFollowsLease
    <3> QED
      BY <1>2, <1>a, <3>1, <3>2
  <2> QED
    BY <2>1 DEF AssignmentFollowsLease
<1>8. ClosedKept
  <2>1. ASSUME NEW q \in Sandboxes, NEW j \in Ids, status[q][j] \in Closed
        PROVE  status'[q][j] = status[q][j] /\ gen'[q][j] = gen[q][j]
    <3>1. q = s => j # k
      BY <2>1 DEF Held, Closed
    <3> QED
      BY <1>2, <1>b, <3>1
  <2> QED
    BY <2>1 DEF ClosedKept
<1> QED
  BY <1>3, <1>4, <1>5, <1>6, <1>8 DEF LeaseInv

\* An active lease is the newest, so its generation is the highest.
LEMMA NewestIsHighest ==
    ASSUME LeaseInv, NEW s \in Sandboxes, issued[s] # 0
    PROVE  /\ issued[s] \in LeasesOf(s)
           /\ \A j \in LeasesOf(s) : gen[s][j] \in Nat /\ gen[s][j] <= gen[s][issued[s]]
           /\ Above(s, gen[s][issued[s]] + 1)
           /\ Above(s, NextGeneration(s))
<1>1. issued[s] \in LeasesOf(s) /\ LeasesOf(s) \subseteq Ids
  BY LeaseAssumption DEF LeaseInv, LeaseTypeOK, LeasesOf, Ids
<1>2. \A j \in LeasesOf(s) : gen[s][j] \in Nat
  BY <1>1, LeaseAssumption DEF LeaseInv, LeaseTypeOK
<1>3. ASSUME NEW j \in LeasesOf(s) PROVE gen[s][j] <= gen[s][issued[s]]
  <2>0. issued[s] \in 0 .. MaxLeases
    BY DEF LeaseInv, LeaseTypeOK
  <2>1. j = issued[s] \/ j < issued[s]
    BY <2>0, LeaseAssumption DEF LeasesOf
  <2> QED
    BY <1>1, <1>2, <2>1 DEF LeaseInv, GenerationsFence
<1>4. Above(s, gen[s][issued[s]] + 1)
  BY <1>1, <1>2, <1>3 DEF Above
<1>5. Max({gen[s][j] : j \in LeasesOf(s)}) = gen[s][issued[s]]
  <2> DEFINE G == {gen[s][j] : j \in LeasesOf(s)}
  <2>1. gen[s][issued[s]] \in G /\ \A x \in G : gen[s][issued[s]] >= x
    BY <1>1, <1>2, <1>3
  <2>2. Max(G) \in G /\ \A x \in G : Max(G) >= x
    BY <2>1 DEF Max
  <2>3. \A x \in G : x \in Nat
    BY <1>2
  <2>4. Max(G) >= gen[s][issued[s]] /\ gen[s][issued[s]] >= Max(G)
    BY <2>1, <2>2
  <2> HIDE DEF G
  <2>5. Max(G) = gen[s][issued[s]]
    BY <2>1, <2>2, <2>3, <2>4
  <2> QED
    BY <2>5 DEF G
<1> QED
  BY <1>1, <1>2, <1>3, <1>4, <1>5 DEF NextGeneration

\* The rows of a sandbox without an active lease are settled as they are.
LEMMA SettledAsIs ==
    ASSUME LeaseInv, NEW s \in Sandboxes, \A k \in Ids : status[s][k] # "active"
    PROVE  Settled(s, status)
BY DEF Settled, LeaseInv, LeaseTypeOK

\* The rows of a sandbox are settled once its active lease is expired.
LEMMA SettledByExpiry ==
    ASSUME LeaseInv, NEW s \in Sandboxes, NEW k \in LeasesOf(s), status[s][k] = "active"
    PROVE  Settled(s, [status EXCEPT ![s][k] = "expired"])
<1> DEFINE rows == [status EXCEPT ![s][k] = "expired"]
<1>1. k \in Ids /\ k = issued[s]
  BY LeaseAssumption DEF LeaseInv, LeaseTypeOK, OneOwner, LeasesOf, Ids
<1>2. rows \in [Sandboxes -> [Ids -> Held \cup Closed \cup {"none"}]]
  BY <1>1 DEF LeaseInv, LeaseTypeOK, Closed
<1>3. /\ \A q \in Sandboxes \ {s} : rows[q] = status[q]
      /\ \A j \in Ids : rows[s][j] = IF j = k THEN "expired" ELSE status[s][j]
  BY <1>1 DEF LeaseInv, LeaseTypeOK
<1>4. \A j \in Ids : status[s][j] = "active" => j = k
  BY <1>1 DEF LeaseInv, OneOwner
<1> HIDE DEF rows
<1>5. Settled(s, rows)
  BY <1>2, <1>3, <1>4 DEF Settled, Closed
<1> QED
  BY <1>5 DEF rows

\* What every step keeps.
Keeps == LeaseInv' /\ ClosedKept /\ LatchesKept

\* Only the sandbox a placement is about can change its state.
LEMMA PlaceLatches ==
    ASSUME LeaseInv, NEW s \in Sandboxes, NEW n, NEW g, NEW st, NEW free, NEW rows,
           state[s] \notin {"destroying", "destroyed", "quarantined"},
           Place(s, n, g, st, free, rows)
    PROVE  LatchesKept
<1>1. state' = [state EXCEPT ![s] = st] /\ issued' = [issued EXCEPT ![s] = issued[s] + 1]
  BY DEF Place
<1> QED
  BY <1>1 DEF LatchesKept, LeaseInv, LeaseTypeOK

\* The three ways schedule_on_node places a sandbox.
LEMMA ScheduleKeeps ==
    ASSUME LeaseInv, NEW s \in Sandboxes, NEW n \in Nodes,
           \/ \E st \in {"creating", "restoring"} : Schedule(s, n, st)
           \/ RescheduleLapsed(s, n)
           \/ Reschedule(s, n)
    PROVE  Keeps
<1>1. ASSUME NEW st \in {"creating", "restoring"}, Schedule(s, n, st) PROVE Keeps
  <2>1. issued[s] = 0 /\ LeasesOf(s) = {}
    BY <1>1 DEF Schedule, LeaseInv, LeaseTypeOK, LeasesOf
  <2>2. Above(s, 1)
    BY <2>1 DEF Above
  <2>3. \A k \in Ids : status[s][k] = "none"
    BY <2>1 DEF LeaseInv, LeaseTypeOK, Ids
  <2>4. Settled(s, status)
    BY <2>3, SettledAsIs
  <2>5. Place(s, n, 1, st, avail, status) /\ state[s] = "absent"
    BY <1>1 DEF Schedule
  <2>6. LeaseInv' /\ ClosedKept
    BY <2>2, <2>4, <2>5, PlaceKeeps DEF LeaseInv, LeaseTypeOK, SandboxState
  <2>7. LatchesKept
    BY <2>5, PlaceLatches
  <2> QED
    BY <2>6, <2>7 DEF Keeps
<1>2. ASSUME RescheduleLapsed(s, n) PROVE Keeps
  <2>1. /\ Lapsed(s, issued[s])
        /\ Reschedulable(s)
        /\ Place(s, n, gen[s][issued[s]] + 1, "creating", Credited(s, issued[s]),
                 [status EXCEPT ![s][issued[s]] = "expired"])
    BY <1>2 DEF RescheduleLapsed
  <2>2. issued[s] \in LeasesOf(s) /\ issued[s] # 0 /\ status[s][issued[s]] = "active"
    BY <2>1 DEF Lapsed, LeasesOf
  <2>3. Settled(s, [status EXCEPT ![s][issued[s]] = "expired"])
    BY <2>2, SettledByExpiry
  <2>4. Above(s, gen[s][issued[s]] + 1)
    BY <2>2, NewestIsHighest
  <2>5. Credited(s, issued[s]) \in [Nodes -> Nat]
    BY <2>2, CreditedType DEF LeaseInv
  <2>6. "creating" \in SandboxState \ {"destroyed"}
    BY DEF SandboxState
  <2>7. LeaseInv' /\ ClosedKept
    BY <2>1, <2>3, <2>4, <2>5, <2>6, PlaceKeeps
  <2>8. LatchesKept
    BY <2>1, PlaceLatches DEF Reschedulable
  <2> QED
    BY <2>7, <2>8 DEF Keeps
<1>3. ASSUME Reschedule(s, n) PROVE Keeps
  <2>1. /\ Reschedulable(s)
        /\ status[s][issued[s]] # "active"
        /\ Place(s, n, gen[s][issued[s]] + 1, "creating", avail, status)
    BY <1>3 DEF Reschedule
  <2>2. issued[s] # 0
    BY <2>1 DEF Reschedulable, LeaseInv, LeaseTypeOK
  <2>3. \A k \in Ids : status[s][k] # "active"
    BY <2>1 DEF LeaseInv, OneOwner
  <2>4. Settled(s, status)
    BY <2>3, SettledAsIs
  <2>5. Above(s, gen[s][issued[s]] + 1)
    BY <2>2, NewestIsHighest
  <2>6. "creating" \in SandboxState \ {"destroyed"} /\ avail \in [Nodes -> Nat]
    BY DEF SandboxState, LeaseInv, LeaseTypeOK
  <2>7. LeaseInv' /\ ClosedKept
    BY <2>1, <2>4, <2>5, <2>6, PlaceKeeps
  <2>8. LatchesKept
    BY <2>1, PlaceLatches DEF Reschedulable
  <2> QED
    BY <2>7, <2>8 DEF Keeps
<1> QED
  BY <1>1, <1>2, <1>3

\* Recovery: a replacement is placed, or the expiry alone is committed.
LEMMA ReassignKeeps ==
    ASSUME LeaseInv, NEW s \in Sandboxes, NEW k \in LeasesOf(s),
           ReassignNowhere(s, k) \/ \E n \in Nodes : Reassign(s, k, n)
    PROVE  Keeps
<1>1. /\ Reassignable(s, k)
      /\ state[s] \in SandboxState \ {"destroying", "destroyed", "quarantined"}
      /\ issued[s] # 0 /\ k \in Ids
  <2>1. Reassignable(s, k)
    BY DEF ReassignNowhere, Reassign
  <2>2. Recoverable(state[s])
    BY <2>1 DEF Reassignable
  <2>3. issued[s] \in 0 .. MaxLeases
    BY DEF LeaseInv, LeaseTypeOK
  <2> QED
    BY <2>1, <2>2, <2>3, LeaseAssumption DEF Recoverable, SandboxState, LeasesOf, Ids
<1>2. /\ Above(s, NextGeneration(s))
      /\ "creating" \in SandboxState \ {"destroyed"}
      /\ avail \in [Nodes -> Nat]
      /\ Credited(s, k) \in [Nodes -> Nat]
  BY <1>1, NewestIsHighest, CreditedType DEF SandboxState, LeaseInv, LeaseTypeOK
<1>3. ASSUME status[s][k] = "expired" PROVE Settled(s, status)
  <2>1. \A j \in Ids : status[s][j] # "active"
    <3> SUFFICES ASSUME NEW j \in Ids, status[s][j] = "active" PROVE FALSE
      OBVIOUS
    <3>1. ~(j > issued[s]) /\ j # k
      BY <1>3 DEF LeaseInv, LeaseTypeOK
    <3>2. issued[s] \in 0 .. MaxLeases
      BY DEF LeaseInv, LeaseTypeOK
    <3>3. j \in LeasesOf(s)
      BY <3>1, <3>2, LeaseAssumption DEF LeasesOf, Ids
    <3> QED
      BY <1>1, <3>1, <3>3 DEF Reassignable
  <2> QED
    BY <2>1, SettledAsIs
<1>4. ASSUME NEW n \in Nodes, Reassign(s, k, n) PROVE Keeps
  <2>1. CASE status[s][k] = "active"
    <3>1. Place(s, n, NextGeneration(s), "creating", Credited(s, k),
                [status EXCEPT ![s][k] = "expired"])
      BY <1>4, <2>1 DEF Reassign
    <3>2. Settled(s, [status EXCEPT ![s][k] = "expired"])
      BY <2>1, SettledByExpiry
    <3>3. LeaseInv' /\ ClosedKept
      BY <1>2, <3>1, <3>2, PlaceKeeps
    <3>4. LatchesKept
      BY <1>1, <3>1, PlaceLatches
    <3> QED
      BY <3>3, <3>4 DEF Keeps
  <2>2. CASE status[s][k] = "expired"
    <3>1. Place(s, n, NextGeneration(s), "creating", avail, status)
      BY <1>4, <2>2 DEF Reassign
    <3>2. Settled(s, status)
      BY <1>3, <2>2
    <3>3. LeaseInv' /\ ClosedKept
      BY <1>2, <3>1, <3>2, PlaceKeeps
    <3>4. LatchesKept
      BY <1>1, <3>1, PlaceLatches
    <3> QED
      BY <3>3, <3>4 DEF Keeps
  <2> QED
    BY <1>4, <2>1, <2>2 DEF Reassign
<1>5. ASSUME ReassignNowhere(s, k), status[s][k] = "active" PROVE Keeps
  <2>1. Release(s, k, "expired") /\ state' = state
    BY <1>5 DEF ReassignNowhere
  <2>2. state' = [state EXCEPT ![s] = state[s]]
    BY <2>1 DEF LeaseInv, LeaseTypeOK
  <2>3. "expired" \in Closed /\ status[s][k] \in Held
        /\ state[s] \in SandboxState /\ state[s] # "destroyed"
    BY <1>1, <1>5 DEF Closed, Held
  <2>4. LeaseInv' /\ ClosedKept
    BY <2>1, <2>2, <2>3, ReleaseKeeps
  <2> QED
    BY <2>1, <2>4 DEF Keeps, LatchesKept, Release
<1>6. ASSUME ReassignNowhere(s, k), status[s][k] = "expired" PROVE Keeps
  <2>1. /\ nodeOf' = [nodeOf EXCEPT ![s] = Vacated(s, k)]
        /\ UNCHANGED <<state, leaseVars, assignmentVars, nodeVars>>
    BY <1>6 DEF ReassignNowhere
  <2>2. nodeOf' \in [Sandboxes -> Nodes \cup {NoNode}]
    BY <2>1 DEF Vacated, LeaseInv, LeaseTypeOK
  <2>3. UNCHANGED <<state, issued, leaseNode, gen, status, live, assignedLease, assignment,
                    total, avail, healthy, accepting>>
    BY <2>1 DEF leaseVars, assignmentVars, nodeVars
  <2>4. LeaseTypeOK'
    BY <2>2, <2>3 DEF LeaseInv, LeaseTypeOK
  <2>5. OneOwner' /\ GenerationsFence' /\ AssignmentFollowsLease'
    BY <2>3 DEF LeaseInv, OneOwner, GenerationsFence, LeasesOf, AssignmentFollowsLease
  <2>6. ClosedKept /\ LatchesKept
    BY <2>3 DEF ClosedKept, LatchesKept
  <2> QED
    BY <2>4, <2>5, <2>6 DEF Keeps, LeaseInv
<1> QED
  BY <1>4, <1>5, <1>6 DEF ReassignNowhere

\* The statements that give capacity back and leave the state alone.
LEMMA GiveBackKeeps ==
    ASSUME LeaseInv, NEW s \in Sandboxes, NEW k \in LeasesOf(s),
           ReleaseLease(s, k) \/ Reconcile(s, k) \/ ReleaseOrphaned(s, k)
    PROVE  Keeps
<1>1. /\ status[s][k] \in Held
      /\ state' = state
      /\ \E how \in Closed : Release(s, k, how)
  BY DEF ReleaseLease, Reconcile, ReleaseOrphaned, Lapsed, Held, Closed
<1>2. k \in Ids /\ state[s] \in SandboxState
  <2>1. issued[s] \in 0 .. MaxLeases /\ state[s] \in SandboxState \cup {"absent"}
    BY DEF LeaseInv, LeaseTypeOK
  <2>2. k \in Ids /\ issued[s] # 0
    BY <2>1, LeaseAssumption DEF LeasesOf, Ids
  <2> QED
    BY <2>1, <2>2 DEF LeaseInv, LeaseTypeOK
<1>3. state' = [state EXCEPT ![s] = state[s]]
  BY <1>1 DEF LeaseInv, LeaseTypeOK
<1>5. LeaseInv' /\ ClosedKept
  BY <1>1, <1>2, <1>3, ReleaseKeeps
<1> QED
  BY <1>1, <1>5 DEF Keeps, LatchesKept, Release

\* The writes of the sandbox row alone.
LEMMA StateKeeps ==
    ASSUME LeaseInv, NEW s \in Sandboxes, NEW st \in SandboxState,
           state[s] # "absent",
           state' = [state EXCEPT ![s] = st],
           UNCHANGED <<nodeOf, leaseVars, assignmentVars, nodeVars>>
    PROVE  LeaseInv' /\ ClosedKept
<1>1. /\ state'[s] = st
      /\ \A q \in Sandboxes \ {s} : state'[q] = state[q]
      /\ state' \in [Sandboxes -> SandboxState \cup {"absent"}]
      /\ st # "absent"
  BY DEF LeaseInv, LeaseTypeOK, SandboxState
<1>2. UNCHANGED <<nodeOf, issued, leaseNode, gen, status, live, assignedLease, assignment,
                  total, avail, healthy, accepting>>
  BY DEF leaseVars, assignmentVars, nodeVars
<1>3. LeaseTypeOK'
  <2>1. \A q \in Sandboxes : state'[q] = "absent" <=> issued'[q] = 0
    BY <1>1, <1>2 DEF LeaseInv, LeaseTypeOK
  <2> QED
    BY <1>1, <1>2, <2>1 DEF LeaseInv, LeaseTypeOK
<1> QED
  BY <1>2, <1>3 DEF LeaseInv, OneOwner, GenerationsFence, LeasesOf, AssignmentFollowsLease,
     ClosedKept

\* Every edge of the lifecycle respects the latches, and none leads to a row
\* that is not there.
LEMMA EdgesLatch ==
    ASSUME NEW from, NEW to \in CommitTargets, CanTransitionTo(from, to)
    PROVE  /\ to \in SandboxState \ {"destroyed"}
           /\ from # "absent" /\ from # "destroyed" /\ from # "quarantined"
           /\ from = "destroying" => to = "failed"
BY DEF CanTransitionTo, CommitTargets, SandboxState

\* The commits of the API, the quarantine mark and its release.
LEMMA CommitKeeps ==
    ASSUME LeaseInv, NEW s \in Sandboxes,
           \/ \E k \in LeasesOf(s), to \in CommitTargets : UpdateStateWithLease(s, k, to)
           \/ \E k \in LeasesOf(s) : MarkQuarantined(s, k)
           \/ ReleaseQuarantine(s)
    PROVE  Keeps
<1>1. ASSUME NEW k \in LeasesOf(s), NEW to \in CommitTargets, UpdateStateWithLease(s, k, to)
      PROVE  Keeps
  <2>1. /\ CanTransitionTo(state[s], to)
        /\ state' = [state EXCEPT ![s] = to]
        /\ UNCHANGED <<nodeOf, leaseVars, assignmentVars, nodeVars>>
    BY <1>1 DEF UpdateStateWithLease
  <2>2. /\ to \in SandboxState \ {"destroyed"}
        /\ state[s] # "absent" /\ state[s] # "destroyed" /\ state[s] # "quarantined"
        /\ state[s] = "destroying" => to = "failed"
    BY <2>1, EdgesLatch
  <2>3. LeaseInv' /\ ClosedKept
    BY <2>1, <2>2, StateKeeps
  <2>4. LatchesKept
    BY <2>1, <2>2 DEF LatchesKept, LeaseInv, LeaseTypeOK, leaseVars
  <2> QED
    BY <2>3, <2>4 DEF Keeps
<1>2. ASSUME NEW k \in LeasesOf(s), MarkQuarantined(s, k) PROVE Keeps
  <2>1. /\ CanTransitionTo(state[s], "quarantined")
        /\ state' = [state EXCEPT ![s] = "quarantined"]
        /\ UNCHANGED <<nodeOf, leaseVars, assignmentVars, nodeVars>>
    BY <1>2 DEF MarkQuarantined
  <2>2. state[s] \in SandboxState \ {"quarantined", "destroying", "destroyed"}
    BY <2>1 DEF CanTransitionTo, SandboxState
  <2>3. "quarantined" \in SandboxState /\ state[s] # "absent"
    BY <2>2 DEF SandboxState
  <2>4. LeaseInv' /\ ClosedKept
    BY <2>1, <2>3, StateKeeps
  <2>5. LatchesKept
    BY <2>1, <2>2 DEF LatchesKept, LeaseInv, LeaseTypeOK, leaseVars
  <2> QED
    BY <2>4, <2>5 DEF Keeps
<1>3. ASSUME ReleaseQuarantine(s) PROVE Keeps
  <2>1. /\ state[s] = "quarantined"
        /\ state' = [state EXCEPT ![s] = "paused"]
        /\ UNCHANGED <<nodeOf, leaseVars, assignmentVars, nodeVars>>
    BY <1>3 DEF ReleaseQuarantine
  <2>2. "paused" \in SandboxState
    BY DEF SandboxState
  <2>3. LeaseInv' /\ ClosedKept
    BY <2>1, <2>2, StateKeeps
  <2>4. LatchesKept
    BY <2>1 DEF LatchesKept, LeaseInv, LeaseTypeOK, leaseVars
  <2> QED
    BY <2>3, <2>4 DEF Keeps
<1> QED
  BY <1>1, <1>2, <1>3

\* Deletion closes a lease or none, and leaves the others as they are.
LEMMA DeleteKeeps ==
    ASSUME LeaseInv, NEW s \in Sandboxes, NEW k \in LeasesOf(s), DeleteSandbox(s, k)
    PROVE  Keeps
<1>1. /\ state[s] \notin {"absent", "quarantined"}
      /\ state' = [state EXCEPT ![s] = "destroyed"]
      /\ "destroyed" \in SandboxState
      /\ issued' = issued
  <2>1. issued[s] \in 0 .. MaxLeases /\ issued[s] # 0
    BY LeaseAssumption DEF LeaseInv, LeaseTypeOK, LeasesOf
  <2>2. state[s] # "absent"
    BY <2>1 DEF LeaseInv, LeaseTypeOK
  <2> QED
    BY <2>2 DEF DeleteSandbox, SandboxState, Release, leaseVars
<1>2. ASSUME k \in HeldBy(s), Release(s, k, "released") PROVE LeaseInv' /\ ClosedKept
  BY <1>1, <1>2, ReleaseKeeps DEF HeldBy, Closed
<1>3. ASSUME UNCHANGED <<nodeOf, leaseVars, assignmentVars, nodeVars>> PROVE LeaseInv' /\ ClosedKept
  BY <1>1, <1>3, StateKeeps
<1>4. LeaseInv' /\ ClosedKept
  BY <1>2, <1>3 DEF DeleteSandbox
<1>5. LatchesKept
  BY <1>1 DEF LatchesKept, LeaseInv, LeaseTypeOK
<1> QED
  BY <1>4, <1>5 DEF Keeps

\* Claims and renewals extend a lease that is the newest of its sandbox, so
\* the order of the generations is kept and no closed lease is touched.
LEMMA ExtendKeeps ==
    ASSUME LeaseInv, NEW s \in Sandboxes, NEW k \in LeasesOf(s), status[s][k] = "active",
           Extend(s, k), UNCHANGED <<issued, status>>
    PROVE  /\ gen' \in [Sandboxes -> [Ids -> 0 .. MaxGeneration]]
           /\ GenerationsFence'
           /\ ClosedKept
<1> USE LeaseAssumption DEF Ids
<1>1. \A q \in Sandboxes : issued[q] \in 0 .. MaxLeases
  BY DEF LeaseInv, LeaseTypeOK
<1>2. k \in Ids /\ k = issued[s]
  BY <1>1 DEF LeasesOf, LeaseInv, OneOwner
<1>3. gen[s][k] \in 0 .. MaxGeneration /\ gen[s][k] < MaxGeneration
  BY <1>2 DEF LeaseInv, LeaseTypeOK, Extend
<1>4. /\ gen' \in [Sandboxes -> [Ids -> 0 .. MaxGeneration]]
      /\ \A q \in Sandboxes \ {s} : gen'[q] = gen[q]
      /\ \A j \in Ids : gen'[s][j] = IF j = k THEN gen[s][k] + 1 ELSE gen[s][j]
  <2>1. gen \in [Sandboxes -> [Ids -> 0 .. MaxGeneration]]
    BY DEF LeaseInv, LeaseTypeOK
  <2>2. gen' = [gen EXCEPT ![s][k] = gen[s][k] + 1]
    BY DEF Extend
  <2>3. gen[s][k] + 1 \in 0 .. MaxGeneration
    BY <1>3
  <2> QED
    BY <1>2, <2>1, <2>2, <2>3
<1>5. ASSUME NEW q \in Sandboxes, NEW i \in LeasesOf(q), NEW j \in LeasesOf(q), i < j
      PROVE  gen'[q][i] < gen'[q][j]
  <2>1. gen[q][i] < gen[q][j]
    BY <1>5 DEF LeaseInv, GenerationsFence
  <2>2. CASE q # s
    BY <1>4, <2>1, <2>2
  <2>3. CASE q = s
    <3>1. i \in Ids /\ j \in Ids /\ i # k
      BY <1>1, <1>2, <1>5, <2>3 DEF LeasesOf
    <3>2. gen[q][i] \in Nat /\ gen[q][j] \in Nat
      <4>1. gen \in [Sandboxes -> [Ids -> 0 .. MaxGeneration]]
        BY DEF LeaseInv, LeaseTypeOK
      <4>2. gen[q][i] \in 0 .. MaxGeneration /\ gen[q][j] \in 0 .. MaxGeneration
        BY <3>1, <4>1
      <4> QED
        BY <4>2
    <3>3. gen'[q][i] = gen[q][i]
      BY <1>4, <2>3, <3>1
    <3>4. gen'[q][j] = gen[q][j] \/ gen'[q][j] = gen[q][j] + 1
      BY <1>4, <2>3, <3>1
    <3> QED
      BY <2>1, <3>2, <3>3, <3>4
  <2> QED
    BY <2>2, <2>3
<1>6. ASSUME NEW q \in Sandboxes, NEW j \in Ids, status[q][j] \in Closed
      PROVE  gen'[q][j] = gen[q][j]
  <2>1. q = s => j # k
    BY <1>6 DEF Closed
  <2> QED
    BY <1>4, <2>1
<1> QED
  BY <1>4, <1>5, <1>6 DEF GenerationsFence, LeasesOf, ClosedKept

\* The worker's statements and the clock.
LEMMA WorkerStepKeeps ==
    ASSUME LeaseInv, NEW s \in Sandboxes, NEW k \in LeasesOf(s),
           \/ Claim(s) /\ k = assignedLease[s]
           \/ Renew(s, k) \/ Complete(s, k) \/ ExpireLease(s, k)
    PROVE  Keeps
<1> USE LeaseAssumption DEF Ids
<1>1. k \in Ids
  <2>1. issued[s] \in 0 .. MaxLeases
    BY DEF LeaseInv, LeaseTypeOK
  <2> QED
    BY <2>1 DEF LeasesOf
<1>2. ASSUME Claim(s), k = assignedLease[s] PROVE Keeps
  <2>1. /\ status[s][k] = "active" /\ Extend(s, k)
        /\ assignment' = [assignment EXCEPT ![s] = "assigned"]
        /\ UNCHANGED <<state, nodeOf, issued, leaseNode, status, live, assignedLease,
                       total, avail, healthy, accepting>>
    BY <1>2 DEF Claim, Owner, sandboxVars, nodeVars
  <2>2. /\ gen' \in [Sandboxes -> [Ids -> 0 .. MaxGeneration]]
        /\ GenerationsFence' /\ ClosedKept
    BY <2>1, ExtendKeeps
  <2>3. /\ assignment' \in [Sandboxes -> {"none", "reserved", "assigned", "completed"} \cup Closed]
        /\ \A q \in Sandboxes : assignment'[q] = assignment[q] \/ assignment'[q] = "assigned"
    BY <2>1 DEF LeaseInv, LeaseTypeOK
  <2>4. LeaseTypeOK'
    <3>1. \A q \in Sandboxes :
             /\ state'[q] = "absent" <=> issued'[q] = 0
             /\ \A j \in Ids : /\ status'[q][j] = "none" <=> j > issued'[q]
                               /\ leaseNode'[q][j] = NoNode <=> j > issued'[q]
      BY <2>1 DEF LeaseInv, LeaseTypeOK
    <3> QED
      BY <2>1, <2>2, <2>3, <3>1 DEF LeaseInv, LeaseTypeOK
  <2>5. OneOwner'
    BY <2>1 DEF LeaseInv, OneOwner
  <2>6. AssignmentFollowsLease'
    BY <2>1, <2>3 DEF LeaseInv, AssignmentFollowsLease
  <2> QED
    BY <2>1, <2>2, <2>4, <2>5, <2>6 DEF Keeps, LeaseInv, LatchesKept
<1>3. ASSUME Renew(s, k) PROVE Keeps
  <2>1. /\ status[s][k] = "active" /\ Extend(s, k)
        /\ UNCHANGED <<state, nodeOf, issued, leaseNode, status, live, assignedLease, assignment,
                       total, avail, healthy, accepting>>
    BY <1>3 DEF Renew, Owner, sandboxVars, assignmentVars, nodeVars
  <2>2. /\ gen' \in [Sandboxes -> [Ids -> 0 .. MaxGeneration]]
        /\ GenerationsFence' /\ ClosedKept
    BY <2>1, ExtendKeeps
  <2>3. LeaseTypeOK'
    BY <2>1, <2>2, ZenonT(60) DEF LeaseInv, LeaseTypeOK
  <2>4. OneOwner' /\ AssignmentFollowsLease'
    BY <2>1 DEF LeaseInv, OneOwner, AssignmentFollowsLease
  <2> QED
    BY <2>1, <2>2, <2>3, <2>4 DEF Keeps, LeaseInv, LatchesKept
<1>4. ASSUME Complete(s, k) PROVE Keeps
  <2>1. /\ status[s][k] = "active"
        /\ status' = [status EXCEPT ![s][k] = "completed"]
        /\ assignment' = [assignment EXCEPT ![s] = IF assignedLease[s] = k THEN "completed" ELSE @]
        /\ UNCHANGED <<state, nodeOf, issued, leaseNode, gen, live, assignedLease,
                       total, avail, healthy, accepting>>
    BY <1>4 DEF Complete, Owner, sandboxVars, nodeVars
  <2>2. /\ status' \in [Sandboxes -> [Ids -> Held \cup Closed \cup {"none"}]]
        /\ \A q \in Sandboxes \ {s} : status'[q] = status[q] /\ assignment'[q] = assignment[q]
        /\ \A j \in Ids : status'[s][j] = IF j = k THEN "completed" ELSE status[s][j]
    BY <1>1, <2>1, SMTT(40) DEF LeaseInv, LeaseTypeOK, Held
  <2>3. assignment' \in [Sandboxes -> {"none", "reserved", "assigned", "completed"} \cup Closed]
    BY <2>1 DEF LeaseInv, LeaseTypeOK
  <2>4. k = issued[s] /\ issued[s] \in 0 .. MaxLeases
    BY <1>1, <2>1 DEF LeaseInv, LeaseTypeOK, OneOwner
  <2>5. \A q \in Sandboxes, j \in Ids :
           /\ status'[q][j] = "none" <=> status[q][j] = "none"
           /\ status'[q][j] = "active" => status[q][j] = "active" /\ q # s
           /\ status[q][j] \in Closed => status'[q][j] = status[q][j]
    <3>1. \A j \in Ids : status[s][j] = "active" => j = k
      BY <2>4 DEF LeaseInv, OneOwner
    <3> QED
      BY <2>1, <2>2, <3>1 DEF Closed
  <2>6. LeaseTypeOK'
    <3>1. \A q \in Sandboxes :
             /\ state[q] = "absent" <=> issued[q] = 0
             /\ \A j \in Ids : /\ status[q][j] = "none" <=> j > issued[q]
                               /\ leaseNode[q][j] = NoNode <=> j > issued[q]
      BY DEF LeaseInv, LeaseTypeOK
    <3>2. \A q \in Sandboxes :
             /\ state'[q] = "absent" <=> issued'[q] = 0
             /\ \A j \in Ids : /\ status'[q][j] = "none" <=> j > issued'[q]
                               /\ leaseNode'[q][j] = NoNode <=> j > issued'[q]
      BY <2>1, <2>5, <3>1
    <3>3. UNCHANGED <<state, nodeOf, issued, leaseNode, gen, live, assignedLease,
                      total, avail, healthy, accepting>>
      BY <2>1
    <3> QED
      BY <2>2, <2>3, <3>2, <3>3 DEF LeaseInv, LeaseTypeOK
  <2>7. OneOwner' /\ GenerationsFence'
    BY <2>1, <2>5 DEF LeaseInv, OneOwner, GenerationsFence, LeasesOf
  <2>8. AssignmentFollowsLease'
    BY <2>1, <2>2, <2>5 DEF LeaseInv, AssignmentFollowsLease
  <2> QED
    BY <2>1, <2>5, <2>6, <2>7, <2>8 DEF Keeps, LeaseInv, ClosedKept, LatchesKept
<1>5. ASSUME ExpireLease(s, k) PROVE Keeps
  <2>1. /\ live' = [live EXCEPT ![s][k] = FALSE]
        /\ UNCHANGED <<state, nodeOf, issued, leaseNode, gen, status, assignedLease, assignment,
                       total, avail, healthy, accepting>>
    BY <1>5 DEF ExpireLease, sandboxVars, assignmentVars, nodeVars
  <2>2. live' \in [Sandboxes -> [Ids -> BOOLEAN]]
    BY <1>1, <2>1 DEF LeaseInv, LeaseTypeOK
  <2>3. LeaseTypeOK'
    BY <2>1, <2>2 DEF LeaseInv, LeaseTypeOK
  <2>4. OneOwner' /\ AssignmentFollowsLease' /\ GenerationsFence'
    BY <2>1 DEF LeaseInv, OneOwner, AssignmentFollowsLease, GenerationsFence,
       LeasesOf
  <2> QED
    BY <2>1, <2>3, <2>4 DEF Keeps, LeaseInv, ClosedKept, LatchesKept
<1> QED
  BY <1>2, <1>3, <1>4, <1>5

\* Registrations, heartbeats and drains touch the workers' rows only.
LEMMA NodeKeeps ==
    ASSUME LeaseInv, NEW n \in Nodes, NodeStep(n)
    PROVE  Keeps
<1>1. UNCHANGED <<state, nodeOf, issued, leaseNode, gen, status, live, assignedLease, assignment>>
  BY DEF NodeStep, Register, Heartbeat, GoSilent, SetDraining, sandboxVars, leaseVars,
     assignmentVars
<1>2. /\ total' \in [Nodes -> Nat] /\ avail' \in [Nodes -> Nat]
      /\ healthy' \in [Nodes -> BOOLEAN] /\ accepting' \in [Nodes -> BOOLEAN]
  <2>1. ASSUME NEW t \in Capacities, Register(n, t)
        PROVE  total' \in [Nodes -> Nat] /\ avail' \in [Nodes -> Nat]
    <3>1. t \in Nat /\ total[n] \in Nat /\ avail[n] \in Nat
      BY LeaseAssumption DEF LeaseInv, LeaseTypeOK
    <3>2. Greater(0, Lesser(t, t - (total[n] - avail[n]))) \in Nat
      BY <3>1 DEF Greater, Lesser
    <3> QED
      BY <2>1, <3>1, <3>2 DEF Register, LeaseInv, LeaseTypeOK
  <2>2. ASSUME NEW t \in Capacities, Register(n, t)
        PROVE  healthy' \in [Nodes -> BOOLEAN] /\ accepting' \in [Nodes -> BOOLEAN]
    BY <2>2 DEF Register, LeaseInv, LeaseTypeOK
  <2>3. ASSUME NEW count \in {0, 1}, Heartbeat(n, count)
        PROVE  /\ total' \in [Nodes -> Nat] /\ avail' \in [Nodes -> Nat]
               /\ healthy' \in [Nodes -> BOOLEAN] /\ accepting' \in [Nodes -> BOOLEAN]
    BY <2>3 DEF Heartbeat, LeaseInv, LeaseTypeOK
  <2>4. ASSUME GoSilent(n)
        PROVE  /\ total' \in [Nodes -> Nat] /\ avail' \in [Nodes -> Nat]
               /\ healthy' \in [Nodes -> BOOLEAN] /\ accepting' \in [Nodes -> BOOLEAN]
    BY <2>4 DEF GoSilent, LeaseInv, LeaseTypeOK
  <2>5. ASSUME NEW draining \in BOOLEAN, SetDraining(n, draining)
        PROVE  /\ total' \in [Nodes -> Nat] /\ avail' \in [Nodes -> Nat]
               /\ healthy' \in [Nodes -> BOOLEAN] /\ accepting' \in [Nodes -> BOOLEAN]
    BY <2>5 DEF SetDraining, LeaseInv, LeaseTypeOK
  <2> QED
    BY <2>1, <2>2, <2>3, <2>4, <2>5 DEF NodeStep
<1>3. LeaseTypeOK'
  BY <1>1, <1>2 DEF LeaseInv, LeaseTypeOK
<1>4. OneOwner' /\ AssignmentFollowsLease' /\ GenerationsFence'
  BY <1>1 DEF LeaseInv, OneOwner, AssignmentFollowsLease, GenerationsFence,
     LeasesOf
<1> QED
  BY <1>1, <1>3, <1>4 DEF Keeps, LeaseInv, ClosedKept, LatchesKept

\* Every step keeps the invariant, the closed leases and the latches.
LEMMA StepKeeps ==
    ASSUME LeaseInv, [Next]_vars
    PROVE  Keeps
<1>1. ASSUME NEW s \in Sandboxes, SandboxStep(s) PROVE Keeps
  <2>1. ASSUME Claim(s) PROVE Keeps
    <3>1. assignedLease[s] \in LeasesOf(s)
      BY <2>1 DEF Claim, Owner
    <3> QED
      BY <2>1, <3>1, WorkerStepKeeps
  <2> QED
    BY <1>1, <2>1, ScheduleKeeps, CommitKeeps, DeleteKeeps DEF SandboxStep
<1>2. ASSUME NEW s \in Sandboxes, NEW k \in LeasesOf(s), LeaseStep(s, k) PROVE Keeps
  BY <1>2, WorkerStepKeeps, GiveBackKeeps, ReassignKeeps, CommitKeeps DEF LeaseStep
<1>3. ASSUME NEW n \in Nodes, NodeStep(n) PROVE Keeps
  BY <1>3, NodeKeeps
<1>4. ASSUME UNCHANGED vars PROVE Keeps
  <2>1. UNCHANGED <<state, nodeOf, issued, leaseNode, gen, status, live, assignedLease, assignment,
                    total, avail, healthy, accepting>>
    BY <1>4 DEF vars, sandboxVars, leaseVars, assignmentVars, nodeVars
  <2>2. LeaseTypeOK'
    BY <2>1 DEF LeaseInv, LeaseTypeOK
  <2>3. OneOwner' /\ AssignmentFollowsLease' /\ GenerationsFence'
    BY <2>1 DEF LeaseInv, OneOwner, AssignmentFollowsLease, GenerationsFence,
       LeasesOf
  <2> QED
    BY <2>1, <2>2, <2>3 DEF Keeps, LeaseInv, ClosedKept, LatchesKept
<1> QED
  BY <1>1, <1>2, <1>3, <1>4 DEF Next


-----------------------------------------------------------------------------
(* The capacity of the workers.                                            *)

\* The units that a set of leases holds.
UnitsIn(H) == UNION {UnitsOf(l) : l \in H}

\* A lease holds as many units as its sandbox demands.
LEMMA UnitsOfLease ==
    ASSUME NEW l \in Sandboxes \X Ids
    PROVE  /\ IsFiniteSet(UnitsOf(l)) /\ Cardinality(UnitsOf(l)) = Demand[l[1]]
           /\ Demand[l[1]] \in Nat \ {0}
<1>1. Demand[l[1]] \in Nat \ {0}
  BY LeaseAssumption
<1>2. /\ IsFiniteSet(1 .. Demand[l[1]])
      /\ Cardinality(1 .. Demand[l[1]]) = Demand[l[1]]
  BY <1>1, FS_Interval, SMTT(40)
<1>3. IsFiniteSet({l}) /\ Cardinality({l}) = 1
  BY FS_Singleton
<1>4. /\ IsFiniteSet({l} \X (1 .. Demand[l[1]]))
      /\ Cardinality({l} \X (1 .. Demand[l[1]])) = Demand[l[1]]
  <2> DEFINE D == 1 .. Demand[l[1]]
  <2>1. IsFiniteSet({l} \X D) /\ Cardinality({l} \X D) = Cardinality({l}) * Cardinality(D)
    <3> HIDE DEF D
    <3>1. IsFiniteSet(D)
      BY <1>2 DEF D
    <3> QED
      BY <1>3, <3>1, FS_Product
  <2> QED
    BY <1>1, <1>2, <1>3, <2>1
<1> QED
  BY <1>1, <1>4 DEF UnitsOf

\* There are finitely many leases, so what they hold is a number.
LEMMA UnitsFinite ==
    ASSUME NEW H \in SUBSET (Sandboxes \X Ids)
    PROVE  IsFiniteSet(UnitsIn(H)) /\ Cardinality(UnitsIn(H)) \in Nat
<1>1. IsFiniteSet(Ids)
  BY LeaseAssumption, FS_Interval DEF Ids
<1>2. IsFiniteSet(Sandboxes \X Ids)
  BY <1>1, LeaseAssumption, FS_Product
<1>3. IsFiniteSet(H)
  BY <1>2, FS_Subset
<1> DEFINE f == [l \in H |-> UnitsOf(l)]
           T == {UnitsOf(l) : l \in H}
<1>4. f \in Surjection(H, T)
  BY DEF Surjection
<1> HIDE DEF f
<1>5. IsFiniteSet(T)
  BY <1>3, <1>4, FS_Surjection
<1>6. \A S \in T : IsFiniteSet(S)
  BY UnitsOfLease
<1>7. IsFiniteSet(UNION T)
  BY <1>5, <1>6, FS_UNION
<1> QED
  BY <1>7, FS_CardinalityType DEF UnitsIn

\* Another lease adds what its sandbox demands.
LEMMA UnitsAdded ==
    ASSUME NEW H \in SUBSET (Sandboxes \X Ids), NEW l \in (Sandboxes \X Ids) \ H
    PROVE  Cardinality(UnitsIn(H \cup {l})) = Cardinality(UnitsIn(H)) + Demand[l[1]]
<1>1. UnitsIn(H \cup {l}) = UnitsIn(H) \cup UnitsOf(l)
  BY DEF UnitsIn
<1>2. UnitsIn(H) \cap UnitsOf(l) = {}
  BY DEF UnitsIn, UnitsOf
<1>3. Cardinality(UnitsIn(H) \cap UnitsOf(l)) = 0
  BY <1>2, FS_EmptySet
<1>4. /\ IsFiniteSet(UnitsIn(H)) /\ Cardinality(UnitsIn(H)) \in Nat
      /\ IsFiniteSet(UnitsOf(l)) /\ Cardinality(UnitsOf(l)) = Demand[l[1]]
      /\ Demand[l[1]] \in Nat
  BY UnitsFinite, UnitsOfLease
<1>5. Cardinality(UnitsIn(H) \cup UnitsOf(l))
          = Cardinality(UnitsIn(H)) + Cardinality(UnitsOf(l)) - Cardinality(UnitsIn(H) \cap UnitsOf(l))
  BY <1>4, FS_Union
<1>6. Cardinality(UnitsIn(H) \cup UnitsOf(l)) = Cardinality(UnitsIn(H)) + Demand[l[1]]
  BY <1>3, <1>4, <1>5
<1> QED
  BY <1>1, <1>6

\* The books of worker m in the middle of a transaction that has left a free and
\* the leases H in place: nothing is lost, and what balanced still does.
Books(m, a, H) ==
    /\ a \in Nat
    /\ a <= total[m]
    /\ total[m] <= a + Cardinality(UnitsIn(H))
    /\ Balanced(m) => a + Cardinality(UnitsIn(H)) = total[m]

\* A transaction starts with the books as they are.
LEMMA BooksOpen ==
    ASSUME LeaseInv, CapacityNotLost, NEW m \in Nodes
    PROVE  /\ Books(m, avail[m], HeldOn(m))
           /\ HeldOn(m) \in SUBSET (Sandboxes \X Ids)
           /\ Load(m) = Cardinality(UnitsIn(HeldOn(m))) /\ Load(m) \in Nat
<1>1. HeldOn(m) \in SUBSET (Sandboxes \X Ids)
  BY DEF HeldOn
<1>2. Load(m) = Cardinality(UnitsIn(HeldOn(m)))
  BY DEF Load, UnitsIn
<1>3. avail[m] \in Nat /\ total[m] \in Nat
  BY DEF LeaseInv, LeaseTypeOK
<1> QED
  BY <1>1, <1>2, <1>3, UnitsFinite DEF Books, CapacityNotLost, Balanced

\* release_capacity: the credit is what the lease held, and its cap loses nothing.
LEMMA BooksCredited ==
    ASSUME LeaseInv, CapacityNotLost, NEW s \in Sandboxes, NEW k \in LeasesOf(s),
           status[s][k] \in Held, NEW m \in Nodes
    PROVE  Books(m, Credited(s, k)[m], HeldOn(m) \ {<<s, k>>})
<1> DEFINE l == <<s, k>>
           H == HeldOn(m) \ {l}
<1>1. k \in Ids
  BY LeaseAssumption DEF LeaseInv, LeaseTypeOK, LeasesOf, Ids
<1>2. leaseNode[s][k] \in Nodes /\ Credited(s, k) \in [Nodes -> Nat]
  BY CreditedType DEF LeaseInv
<1>3. /\ Books(m, avail[m], HeldOn(m)) /\ HeldOn(m) \in SUBSET (Sandboxes \X Ids)
      /\ avail[m] \in Nat /\ total[m] \in Nat
  BY BooksOpen DEF LeaseInv, LeaseTypeOK
<1>4. l \in HeldOn(m) <=> leaseNode[s][k] = m
  BY <1>1 DEF HeldOn
<1>5. CASE leaseNode[s][k] # m
  <2>1. Credited(s, k)[m] = avail[m]
    BY <1>2, <1>5 DEF Credited, LeaseInv, LeaseTypeOK
  <2>2. H = HeldOn(m)
    BY <1>4, <1>5
  <2> QED
    BY <1>3, <2>1, <2>2
<1>6. CASE leaseNode[s][k] = m
  <2>1. Credited(s, k)[m] = Lesser(total[m], avail[m] + Demand[s])
    BY <1>6 DEF Credited, LeaseInv, LeaseTypeOK
  <2>2. H \cup {l} = HeldOn(m) /\ l \in (Sandboxes \X Ids) \ H /\ H \in SUBSET (Sandboxes \X Ids)
    BY <1>1, <1>3, <1>4, <1>6
  <2>3. l[1] = s
    OBVIOUS
  <2> HIDE DEF l, H
  <2>4. Cardinality(UnitsIn(HeldOn(m))) = Cardinality(UnitsIn(H)) + Demand[s]
    BY <2>2, <2>3, UnitsAdded
  <2>5. Cardinality(UnitsIn(H)) \in Nat /\ Demand[s] \in Nat
    BY <2>2, UnitsFinite, LeaseAssumption
  <2>6. Books(m, Credited(s, k)[m], H)
    BY <1>3, <2>1, <2>4, <2>5 DEF Books, Lesser
  <2> QED
    BY <2>6 DEF H, l
<1> QED
  BY <1>5, <1>6

\* How a transaction leaves the books of worker m.
BooksClose(m) ==
    /\ avail'[m] <= total'[m] /\ total'[m] <= avail'[m] + Load(m)'
    /\ Balanced(m) => Balanced(m)' \/ (total'[m] # total[m] /\ total'[m] < Load(m))

\* The books it was working on are the ones it leaves.
LEMMA BooksClosed ==
    ASSUME NEW m \in Nodes, NEW a, NEW H,
           Books(m, a, H), avail'[m] = a, HeldOn(m)' = H, total'[m] = total[m]
    PROVE  BooksClose(m)
<1>1. Load(m)' = Cardinality(UnitsIn(H))
  BY DEF Load, UnitsIn
<1> QED
  BY <1>1 DEF Books, BooksClose, Balanced

\* The leases that hold capacity on m once the status column is rows.
HeldIn(rows, m) ==
    {l \in Sandboxes \X Ids : rows[l[1]][l[2]] \in Held /\ leaseNode[l[1]][l[2]] = m}

\* debit_capacity takes for the new lease what its sandbox demands.
LEMMA BooksDebited ==
    ASSUME LeaseInv, NEW s \in Sandboxes, NEW n \in Nodes, NEW g, NEW st, NEW free, NEW rows,
           Settled(s, rows), free \in [Nodes -> Nat],
           Place(s, n, g, st, free, rows),
           NEW m \in Nodes, Books(m, free[m], HeldIn(rows, m))
    PROVE  BooksClose(m)
<1> DEFINE k == issued[s] + 1
           l == <<s, k>>
           H == HeldIn(rows, m)
<1>1. k \in Ids /\ free[n] >= Demand[s]
  <2>1. issued[s] \in 0 .. MaxLeases /\ LeaseBound[s] \in 0 .. MaxLeases /\ MaxLeases \in Nat
    BY LeaseAssumption DEF LeaseInv, LeaseTypeOK
  <2>2. issued[s] < LeaseBound[s] /\ free[n] >= Demand[s]
    BY DEF Place, Schedulable
  <2> QED
    BY <2>1, <2>2 DEF Ids
<1>2. /\ status' = [rows EXCEPT ![s][k] = "active"]
      /\ leaseNode' = [leaseNode EXCEPT ![s][k] = n]
      /\ avail' = [free EXCEPT ![n] = @ - Demand[s]]
      /\ total' = total
  BY DEF Place
<1>3. rows[s][k] = "none"
  <2>1. k > issued[s]
    BY DEF LeaseInv, LeaseTypeOK
  <2> QED
    BY <1>1, <2>1 DEF LeaseInv, LeaseTypeOK, Settled
<1>4. H \in SUBSET (Sandboxes \X Ids) /\ l \in (Sandboxes \X Ids) \ H /\ l[1] = s
  BY <1>1, <1>3 DEF Held, HeldIn
<1>5. ASSUME NEW q \in Sandboxes, NEW j \in Ids
      PROVE  /\ status'[q][j] = IF q = s /\ j = k THEN "active" ELSE rows[q][j]
             /\ leaseNode'[q][j] = IF q = s /\ j = k THEN n ELSE leaseNode[q][j]
  BY <1>1, <1>2 DEF Settled, LeaseInv, LeaseTypeOK
<1>6. HeldOn(m)' = IF m = n THEN H \cup {l} ELSE H
  <2>1. ASSUME NEW x \in Sandboxes \X Ids
        PROVE  x \in HeldOn(m)' <=> IF x = l THEN m = n ELSE x \in H
    <3>1. PICK q \in Sandboxes, j \in Ids : x = <<q, j>>
      OBVIOUS
    <3>2. x \in HeldOn(m)' <=> status'[q][j] \in Held /\ leaseNode'[q][j] = m
      BY <3>1 DEF HeldOn
    <3>3. x \in H <=> rows[q][j] \in Held /\ leaseNode[q][j] = m
      BY <3>1 DEF HeldIn
    <3>4. x = l <=> q = s /\ j = k
      BY <3>1
    <3> QED
      BY <1>5, <3>2, <3>3, <3>4 DEF Held
  <2>2. HeldOn(m)' \in SUBSET (Sandboxes \X Ids)
    BY DEF HeldOn
  <2> QED
    BY <1>4, <2>1, <2>2
<1> HIDE DEF l, k, H
<1>0. Books(m, free[m], H)
  BY DEF H
<1>7. CASE m # n
  <2>1. avail'[m] = free[m]
    BY <1>2, <1>7
  <2> QED
    BY <1>0, <1>2, <1>6, <1>7, <2>1, BooksClosed
<1>8. CASE m = n
  <2>1. avail'[m] = free[m] - Demand[s] /\ Demand[s] \in Nat /\ free[m] \in Nat /\ total[m] \in Nat
    <3>1. avail'[m] = free[m] - Demand[s]
      BY <1>2, <1>8
    <3>2. Demand[s] \in Nat /\ free[m] \in Nat /\ total[m] \in Nat
      BY LeaseAssumption DEF LeaseInv, LeaseTypeOK
    <3> QED
      BY <3>1, <3>2
  <2>2. Cardinality(UnitsIn(H \cup {l})) = Cardinality(UnitsIn(H)) + Demand[s]
        /\ Cardinality(UnitsIn(H)) \in Nat
    BY <1>4, UnitsAdded, UnitsFinite
  <2>3. Books(m, avail'[m], H \cup {l})
    BY <1>0, <1>1, <1>8, <2>1, <2>2 DEF Books
  <2> QED
    BY <1>2, <1>6, <1>8, <2>3, BooksClosed
<1> QED
  BY <1>7, <1>8

\* A placement that settled no lease before it.
LEMMA PlaceBalances ==
    ASSUME LeaseInv, CapacityNotLost, NEW s \in Sandboxes, NEW n \in Nodes, NEW g, NEW st,
           \A k \in Ids : status[s][k] # "active",
           Place(s, n, g, st, avail, status), NEW m \in Nodes
    PROVE  BooksClose(m)
<1>1. Settled(s, status) /\ avail \in [Nodes -> Nat]
  BY SettledAsIs DEF LeaseInv, LeaseTypeOK
<1>2. Books(m, avail[m], HeldIn(status, m))
  BY BooksOpen DEF HeldOn, HeldIn
<1> QED
  BY <1>1, <1>2, BooksDebited

\* A placement that first settled the lapsed lease k.
LEMMA ReplaceBalances ==
    ASSUME LeaseInv, CapacityNotLost, NEW s \in Sandboxes, NEW n \in Nodes, NEW g, NEW st,
           NEW k \in LeasesOf(s), status[s][k] = "active",
           Place(s, n, g, st, Credited(s, k), [status EXCEPT ![s][k] = "expired"]), NEW m \in Nodes
    PROVE  BooksClose(m)
<1> DEFINE rows == [status EXCEPT ![s][k] = "expired"]
           H == HeldOn(m) \ {<<s, k>>}
<1>1. Settled(s, rows)
  BY SettledByExpiry
<1>2. Credited(s, k) \in [Nodes -> Nat]
  BY CreditedType DEF LeaseInv
<1>3. Books(m, Credited(s, k)[m], H)
  BY BooksCredited DEF Held
<1>4. \A q \in Sandboxes, j \in Ids :
          rows[q][j] = IF q = s /\ j = k THEN "expired" ELSE status[q][j]
  BY DEF LeaseInv, LeaseTypeOK
<1>5. H = HeldIn(rows, m)
  <2>1. ASSUME NEW x \in Sandboxes \X Ids PROVE x \in H <=> x \in HeldIn(rows, m)
    <3>1. x[1] \in Sandboxes /\ x[2] \in Ids /\ (x = <<s, k>> <=> x[1] = s /\ x[2] = k)
      OBVIOUS
    <3> HIDE DEF rows
    <3> QED
      BY <1>4, <3>1 DEF HeldOn, Held, HeldIn
  <2>2. H \in SUBSET (Sandboxes \X Ids) /\ HeldIn(rows, m) \in SUBSET (Sandboxes \X Ids)
    BY DEF HeldOn, HeldIn
  <2> HIDE DEF H, rows
  <2> QED
    BY <2>1, <2>2
<1> HIDE DEF H, rows
<1> DEFINE free == Credited(s, k)
<1>6. Place(s, n, g, st, free, rows) /\ free \in [Nodes -> Nat] /\ Books(m, free[m], HeldIn(rows, m))
  BY <1>2, <1>3, <1>5 DEF rows
<1> HIDE DEF free
<1> QED
  BY <1>1, <1>6, BooksDebited

\* A lease that is given back returns what it held, once.
LEMMA ReleaseBalances ==
    ASSUME LeaseInv, CapacityNotLost, NEW s \in Sandboxes, NEW k \in LeasesOf(s),
           status[s][k] \in Held, NEW how \in Closed, Release(s, k, how), NEW m \in Nodes
    PROVE  BooksClose(m)
<1> DEFINE H == HeldOn(m) \ {<<s, k>>}
<1>1. Books(m, Credited(s, k)[m], H)
  BY BooksCredited
<1>2. /\ status' = [status EXCEPT ![s][k] = how]
      /\ avail' = Credited(s, k) /\ leaseNode' = leaseNode /\ total' = total
  BY DEF Release
<1>3. \A q \in Sandboxes, j \in Ids :
          status'[q][j] = IF q = s /\ j = k THEN how ELSE status[q][j]
  BY <1>2 DEF LeaseInv, LeaseTypeOK
<1>4. HeldOn(m)' = H
  <2>1. ASSUME NEW x \in Sandboxes \X Ids PROVE x \in HeldOn(m)' <=> x \in H
    <3>1. x[1] \in Sandboxes /\ x[2] \in Ids /\ (x = <<s, k>> <=> x[1] = s /\ x[2] = k)
      OBVIOUS
    <3> QED
      BY <1>2, <1>3, <3>1 DEF HeldOn, Held, Closed
  <2>2. H \in SUBSET (Sandboxes \X Ids) /\ HeldOn(m)' \in SUBSET (Sandboxes \X Ids)
    BY DEF HeldOn
  <2> HIDE DEF H
  <2> QED
    BY <2>1, <2>2
<1> HIDE DEF H
<1> QED
  BY <1>1, <1>2, <1>4, BooksClosed

\* register_worker carries over what the leases hold; only a worker smaller than
\* that unbalances its books.
LEMMA RegisterBalances ==
    ASSUME LeaseInv, CapacityNotLost, NEW n \in Nodes, NEW t \in Capacities, Register(n, t),
           NEW m \in Nodes
    PROVE  BooksClose(m)
<1>1. /\ total' = [total EXCEPT ![n] = t]
      /\ avail' = [avail EXCEPT ![n] = Greater(0, Lesser(t, t - (total[n] - avail[n])))]
      /\ UNCHANGED <<status, leaseNode>>
  BY DEF Register, leaseVars
<1>2. HeldOn(m)' = HeldOn(m) /\ Load(m)' = Load(m)
  BY <1>1 DEF HeldOn, Load
<1>3. /\ Books(m, avail[m], HeldOn(m)) /\ Load(m) = Cardinality(UnitsIn(HeldOn(m)))
      /\ Load(m) \in Nat
  BY BooksOpen
<1>4. t \in Nat /\ avail[m] \in Nat /\ total[m] \in Nat
  BY LeaseAssumption DEF LeaseInv, LeaseTypeOK
<1>5. CASE m # n
  <2>1. avail'[m] = avail[m] /\ total'[m] = total[m]
    BY <1>1, <1>5 DEF LeaseInv, LeaseTypeOK
  <2> QED
    BY <1>2, <1>3, <2>1, BooksClosed
<1>6. CASE m = n
  <2>1. total'[m] = t /\ avail'[m] = Greater(0, Lesser(t, t - (total[m] - avail[m])))
    BY <1>1, <1>6 DEF LeaseInv, LeaseTypeOK
  <2>2. avail[m] <= total[m] /\ total[m] <= avail[m] + Load(m)
    BY <1>3 DEF Books
  <2>3. avail'[m] = IF t - (total[m] - avail[m]) < 0 THEN 0 ELSE t - (total[m] - avail[m])
    BY <1>4, <2>1, <2>2 DEF Greater, Lesser
  <2>4. avail'[m] <= total'[m] /\ total'[m] <= avail'[m] + Load(m)
    BY <1>3, <1>4, <2>1, <2>2, <2>3
  <2>5. ASSUME avail[m] + Load(m) = total[m], ~(t # total[m] /\ t < Load(m))
        PROVE  avail'[m] + Load(m) = t
    BY <1>3, <1>4, <2>2, <2>3, <2>5
  <2> QED
    BY <1>2, <2>1, <2>4, <2>5 DEF BooksClose, Balanced
<1> QED
  BY <1>5, <1>6

\* The statements that touch neither the capacity nor what a lease holds.
LEMMA QuietBalances ==
    ASSUME LeaseInv, CapacityNotLost, UNCHANGED <<leaseNode, total, avail>>,
           \A q \in Sandboxes, j \in Ids : status'[q][j] \in Held <=> status[q][j] \in Held,
           NEW m \in Nodes
    PROVE  BooksClose(m)
<1>1. HeldOn(m)' = HeldOn(m)
  <2>1. ASSUME NEW x \in Sandboxes \X Ids PROVE x \in HeldOn(m)' <=> x \in HeldOn(m)
    <3>1. x[1] \in Sandboxes /\ x[2] \in Ids
      OBVIOUS
    <3> QED
      BY <3>1 DEF HeldOn
  <2>2. HeldOn(m) \in SUBSET (Sandboxes \X Ids) /\ HeldOn(m)' \in SUBSET (Sandboxes \X Ids)
    BY DEF HeldOn
  <2> QED
    BY <2>1, <2>2
<1> QED
  BY <1>1, BooksOpen, BooksClosed

\* Every statement closes the books of every worker.
LEMMA StepBalances ==
    ASSUME LeaseInv, CapacityNotLost, [Next]_vars, NEW m \in Nodes
    PROVE  BooksClose(m)
<1>1. ASSUME NEW s \in Sandboxes, SandboxStep(s) PROVE BooksClose(m)
  <2>0. /\ \A j \in Ids : status[s][j] = "active" => j = issued[s] /\ j \in LeasesOf(s)
        /\ \A k \in LeasesOf(s) : k \in Ids
    BY LeaseAssumption DEF LeaseInv, LeaseTypeOK, OneOwner, LeasesOf, Ids
  <2>1. ASSUME NEW n \in Nodes, NEW st, Schedule(s, n, st) PROVE BooksClose(m)
    <3>1. \A k \in Ids : status[s][k] # "active"
      BY <2>1, LeaseAssumption DEF Schedule, LeaseInv, LeaseTypeOK, Ids
    <3> QED
      BY <2>1, <3>1, PlaceBalances DEF Schedule
  <2>2. ASSUME NEW n \in Nodes, RescheduleLapsed(s, n) PROVE BooksClose(m)
    <3>1. issued[s] \in LeasesOf(s) /\ status[s][issued[s]] = "active"
      BY <2>2 DEF RescheduleLapsed, Lapsed
    <3> QED
      BY <2>2, <3>1, ReplaceBalances DEF RescheduleLapsed
  <2>3. ASSUME NEW n \in Nodes, Reschedule(s, n) PROVE BooksClose(m)
    <3>1. \A k \in Ids : status[s][k] # "active"
      BY <2>0, <2>3 DEF Reschedule
    <3> QED
      BY <2>3, <3>1, PlaceBalances DEF Reschedule
  <2>4. CASE Claim(s) \/ ReleaseQuarantine(s)
    BY <2>4, QuietBalances DEF Claim, ReleaseQuarantine, leaseVars, nodeVars
  <2>5. ASSUME NEW k \in LeasesOf(s), DeleteSandbox(s, k) PROVE BooksClose(m)
    <3>1. CASE k \in HeldBy(s) /\ Release(s, k, "released")
      BY <3>1, ReleaseBalances DEF HeldBy, Closed
    <3>2. CASE UNCHANGED <<leaseVars, nodeVars>>
      BY <3>2, QuietBalances DEF leaseVars, nodeVars
    <3> QED
      BY <2>5, <3>1, <3>2 DEF DeleteSandbox
  <2> QED
    BY <1>1, <2>1, <2>2, <2>3, <2>4, <2>5 DEF SandboxStep
<1>2. ASSUME NEW s \in Sandboxes, NEW k \in LeasesOf(s), LeaseStep(s, k) PROVE BooksClose(m)
  <2>1. ASSUME NEW how \in Closed, status[s][k] \in Held, Release(s, k, how) PROVE BooksClose(m)
    BY <2>1, ReleaseBalances
  <2>2. CASE ReleaseLease(s, k) \/ Reconcile(s, k) \/ ReleaseOrphaned(s, k)
    BY <2>1, <2>2 DEF ReleaseLease, Reconcile, ReleaseOrphaned, Lapsed, Held, Closed
  <2>3. CASE ReassignNowhere(s, k)
    BY <2>1, <2>3, QuietBalances DEF ReassignNowhere, Held, Closed, vars, leaseVars, nodeVars
  <2>4. ASSUME NEW n \in Nodes, Reassign(s, k, n) PROVE BooksClose(m)
    <3>1. CASE status[s][k] = "active"
      BY <2>4, <3>1, ReplaceBalances DEF Reassign
    <3>2. CASE status[s][k] = "expired"
      <4>1. \A j \in Ids : status[s][j] = "active" => j \in LeasesOf(s)
        BY LeaseAssumption, SMTT(40) DEF LeaseInv, LeaseTypeOK, OneOwner, LeasesOf, Ids
      <4>2. \A j \in Ids : status[s][j] # "active"
        BY <2>4, <3>2, <4>1 DEF Reassign, Reassignable
      <4> QED
        BY <2>4, <3>2, <4>2, PlaceBalances DEF Reassign
    <3> QED
      BY <2>4, <3>1, <3>2 DEF Reassign
  <2>5. CASE Complete(s, k)
    <3>1. /\ UNCHANGED <<leaseNode, total, avail>> /\ status[s][k] = "active"
          /\ status' = [status EXCEPT ![s][k] = "completed"]
      BY <2>5 DEF Complete, Owner, nodeVars
    <3>2. \A q \in Sandboxes, j \in Ids : status'[q][j] \in Held <=> status[q][j] \in Held
      BY <3>1 DEF LeaseInv, LeaseTypeOK, Held
    <3> QED
      BY <3>1, <3>2, QuietBalances
  <2>6. CASE \/ Renew(s, k) \/ MarkQuarantined(s, k) \/ ExpireLease(s, k)
             \/ \E to \in CommitTargets : UpdateStateWithLease(s, k, to)
    BY <2>6, QuietBalances
       DEF Renew, MarkQuarantined, ExpireLease, UpdateStateWithLease, leaseVars, nodeVars
  <2> QED
    BY <1>2, <2>2, <2>3, <2>4, <2>5, <2>6 DEF LeaseStep
<1>3. ASSUME NEW n \in Nodes, NodeStep(n) PROVE BooksClose(m)
  <2>1. CASE \E t \in Capacities : Register(n, t)
    BY <2>1, RegisterBalances
  <2>2. CASE UNCHANGED <<leaseNode, status, total, avail>>
    BY <2>2, QuietBalances
  <2> QED
    BY <1>3, <2>1, <2>2 DEF NodeStep, Heartbeat, GoSilent, SetDraining, leaseVars
<1>4. CASE UNCHANGED vars
  BY <1>4, QuietBalances DEF vars, leaseVars, nodeVars
<1> QED
  BY <1>1, <1>2, <1>3, <1>4 DEF Next

\* No worker holds anything at first.
LEMMA NoneHeld ==
    ASSUME \A s \in Sandboxes, k \in Ids : status[s][k] = "none", NEW n \in Nodes
    PROVE  Load(n) = 0
<1>1. HeldOn(n) = {}
  BY DEF HeldOn, Held
<1>2. UNION {UnitsOf(l) : l \in HeldOn(n)} = {}
  BY <1>1
<1> QED
  BY <1>2, FS_EmptySet DEF Load

-----------------------------------------------------------------------------
(* The theorems.                                                           *)

\* The inductive invariant holds throughout.
THEOREM LeaseInvariant == Spec => []LeaseInv
<1>1. LeaseInv /\ [Next]_vars => LeaseInv'
  BY StepKeeps DEF Keeps
<1> QED
  BY <1>1, LeaseInvInit, PTL DEF Spec

\* The rows have their types, are written in order, and a row exists exactly
\* once it was issued.
THEOREM LeaseTypes == Spec => []LeaseTypeOK
<1>1. LeaseInv => LeaseTypeOK
  BY DEF LeaseInv
<1> QED
  BY <1>1, LeaseInvariant, PTL

\* Whatever schedulers, retries and recovery passes do at once, a sandbox has
\* at most one owner and it is the newest.
THEOREM SingleOwner == Spec => []OneOwner
<1>1. LeaseInv => OneOwner
  BY DEF LeaseInv
<1> QED
  BY <1>1, LeaseInvariant, PTL

\* A replacement always carries a higher generation than every earlier lease.
THEOREM GenerationsOrdered == Spec => []GenerationsFence
<1>1. LeaseInv => GenerationsFence
  BY DEF LeaseInv
<1> QED
  BY <1>1, LeaseInvariant, PTL

\* The assignment row names the active lease, for its worker to claim or claimed,
\* whatever late releases and deletions of the sandbox do to it.
THEOREM OwnersAssigned == Spec => []AssignmentFollowsLease
<1>1. LeaseInv => AssignmentFollowsLease
  BY DEF LeaseInv
<1> QED
  BY <1>1, LeaseInvariant, PTL

\* A closed lease is never revived.
THEOREM LeasesEnd == Spec => ClosedForGood
<1>1. LeaseInv /\ [Next]_vars => [ClosedKept]_vars
  BY StepKeeps DEF Keeps
<1> QED
  BY <1>1, LeaseInvariant, PTL DEF Spec, ClosedForGood

\* Teardown and quarantine hold against every statement.
THEOREM LatchesHold == Spec => Latched
<1>1. LeaseInv /\ [Next]_vars => [LatchesKept]_vars
  BY StepKeeps DEF Keeps
<1> QED
  BY <1>1, LeaseInvariant, PTL DEF Spec, Latched

\* No capacity of a worker leaks, whatever its size was and becomes.
THEOREM NoCapacityLost == Spec => []CapacityNotLost
<1>1. Init => CapacityNotLost
  <2> SUFFICES ASSUME Init, NEW n \in Nodes PROVE avail[n] <= total[n] /\ total[n] <= avail[n] + Load(n)
    BY DEF CapacityNotLost
  <2>1. \A s \in Sandboxes, k \in Ids : status[s][k] = "none"
    BY DEF Init
  <2>2. Load(n) = 0 /\ avail[n] = 0 /\ total[n] = 0
    BY <2>1, NoneHeld DEF Init
  <2> QED
    BY <2>2
<1>2. LeaseInv /\ CapacityNotLost /\ [Next]_vars => CapacityNotLost'
  BY StepBalances DEF BooksClose, CapacityNotLost
<1> QED
  BY <1>1, <1>2, LeaseInvariant, PTL DEF Spec

\* No capacity of a worker is handed out twice, unless it was made smaller than
\* what its leases hold.
THEOREM BooksBalance == Spec => StaysBalanced
<1>1. LeaseInv /\ CapacityNotLost /\ [Next]_vars => [BalanceKept]_vars
  BY StepBalances DEF BooksClose, BalanceKept
<1> QED
  BY <1>1, LeaseInvariant, NoCapacityLost, PTL DEF Spec, StaysBalanced
=============================================================================
