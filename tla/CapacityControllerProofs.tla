------------------------- MODULE CapacityControllerProofs -------------------------
(***************************************************************************)
(* Proofs about the capacity controller: capacity adds up and is taken in  *)
(* whole instances; no instance is terminated or stopped but a draining    *)
(* one; and while the status is exact the fleet is over its limit by less  *)
(* than one instance.                                                      *)
(***************************************************************************)
EXTENDS CapacityController, FiniteSetTheorems, TLAPS

---------------------------------------------------------------------------
(* Capacity *)

\* A set of instances has finitely many vCPUs.
LEMMA CpusFinite ==
  ASSUME NEW size \in Reports, NEW S \in SUBSET Instances
  PROVE  IsFiniteSet(Cpus(size, S)) /\ Vcpus(size, S) = Cardinality(Cpus(size, S)) /\ Vcpus(size, S) \in Nat
PROOF
  <1> DEFINE Of == [i \in S |-> {i} \X (1 .. size[i])]
             All == { {i} \X (1 .. size[i]) : i \in S }
  <1>1. IsFiniteSet(S)
    <2>1. IsFiniteSet(Instances)
      BY FS_Interval, InstancesAssumption DEF Instances
    <2> QED  BY <2>1, FS_Subset
  <1>2. Of \in Surjection(S, All)
    BY DEF Surjection
  <1>3. IsFiniteSet(All)
    BY <1>1, <1>2, FS_Surjection
  <1>4. ASSUME NEW A \in All  PROVE IsFiniteSet(A)
    <2>1. PICK i \in S : A = {i} \X (1 .. size[i])
      OBVIOUS
    <2>2. size[i] \in Int
      BY InstancesAssumption
    <2>3. IsFiniteSet({i})
      BY FS_Singleton
    <2>4. IsFiniteSet(1 .. size[i])
      <3>1. 1 \in Int
        OBVIOUS
      <3> QED  BY <2>2, <3>1, FS_Interval
    <2> QED  BY <2>1, <2>3, <2>4, FS_Product
  <1>5. IsFiniteSet(UNION All)
    BY <1>3, <1>4, FS_UNION
  <1>6. Cpus(size, S) = UNION All
    BY DEF Cpus
  <1>7. Vcpus(size, S) = Cardinality(Cpus(size, S))
    BY DEF Vcpus
  <1> QED  BY <1>5, <1>6, <1>7, FS_CardinalityType

\* A pair is a vCPU of the instance it names.
LEMMA CpuOf ==
  ASSUME NEW size \in Reports, NEW S \in SUBSET Instances, NEW u
  PROVE  u \in Cpus(size, S) <=> \E i \in S : \E k \in 1 .. size[i] : u = << i, k >>
PROOF  BY DEF Cpus

\* The capacity of disjoint sets of instances adds up.
LEMMA VcpusAdd ==
  ASSUME NEW size \in Reports, NEW S \in SUBSET Instances, NEW T \in SUBSET Instances, S \cap T = {}
  PROVE  Vcpus(size, S \cup T) = Vcpus(size, S) + Vcpus(size, T)
PROOF
  <1> DEFINE U == S \cup T
             A == Cpus(size, S)
             B == Cpus(size, T)
  <1>1. Cpus(size, U) = A \cup B
    BY CpuOf
  <1>2. A \cap B = {}
    BY CpuOf
  <1>3. Cardinality(A \cup B) = Cardinality(A) + Cardinality(B) - Cardinality(A \cap B)
    BY CpusFinite, FS_Union
  <1>4. Cardinality(A \cap B) = 0
    BY <1>2, FS_EmptySet
  <1>5. /\ Vcpus(size, S) = Cardinality(A) /\ Vcpus(size, T) = Cardinality(B)
        /\ Vcpus(size, S) \in Nat /\ Vcpus(size, T) \in Nat
    BY CpusFinite
  <1>6. Vcpus(size, U) = Cardinality(Cpus(size, U))
    BY CpusFinite
  <1> DEFINE C == Cardinality(A \cup B)
             D == Cardinality(A \cap B)
  <1>7. Vcpus(size, U) = C
    BY <1>1, <1>6
  <1>8. C = Vcpus(size, S) + Vcpus(size, T) - D /\ D = 0
    BY <1>3, <1>4, <1>5
  <1>9. Vcpus(size, U) = Vcpus(size, S) + Vcpus(size, T)
    <2> HIDE DEF C, D, U
    <2> QED  BY <1>5, <1>7, <1>8
  <1> QED  BY <1>9

\* More instances do not have less capacity.
LEMMA VcpusMonotone ==
  ASSUME NEW size \in Reports, NEW S \in SUBSET Instances, NEW T \in SUBSET S
  PROVE  Vcpus(size, T) <= Vcpus(size, S)
PROOF
  <1> DEFINE R == S \ T
  <1>1. R \in SUBSET Instances /\ T \in SUBSET Instances /\ T \cap R = {} /\ T \cup R = S
    OBVIOUS
  <1> HIDE DEF R
  <1>2. Vcpus(size, T \cup R) = Vcpus(size, T) + Vcpus(size, R)
    BY <1>1, VcpusAdd
  <1>3. Vcpus(size, S) = Vcpus(size, T) + Vcpus(size, R)
    BY <1>1, <1>2
  <1>4. Vcpus(size, T) \in Nat /\ Vcpus(size, R) \in Nat
    BY <1>1, CpusFinite
  <1> QED  BY <1>3, <1>4

\* A set of instances that has a key in 0 .. b has one with the largest key.
LEMMA LastOne ==
  ASSUME NEW P \in SUBSET Instances, P # {}, NEW b \in Nat, NEW key \in [Instances -> 0 .. b]
  PROVE  \E i \in P : \A d \in P : key[d] <= key[i]
PROOF
  <1> DEFINE Rest == { b - key[i] : i \in P }
             Less == OpToRel(<, Nat)
  <1>1. Rest \subseteq Nat /\ Rest # {}
    OBVIOUS
  <1>2. IsWellFoundedOn(Less, Nat)
    BY NatLessThanWellFounded
  <1>3. PICK x \in Rest : \A y \in Rest : ~ (<< y, x >> \in Less)
    <2> HIDE DEF Rest, Less
    <2> QED  BY <1>1, <1>2, WFMin
  <1>4. \A y \in Rest : x <= y
    <2> SUFFICES ASSUME NEW y \in Rest  PROVE x <= y
      OBVIOUS
    <2>1. x \in Nat /\ y \in Nat /\ ~ (<< y, x >> \in Less)
      BY <1>1, <1>3
    <2>2. ~ (y < x)
      BY <2>1 DEF OpToRel
    <2> HIDE DEF Rest, Less
    <2> QED  BY <2>1, <2>2
  <1>5. PICK i \in P : x = b - key[i]
    OBVIOUS
  <1>6. ASSUME NEW d \in P  PROVE key[d] <= key[i]
    <2>1. x <= b - key[d]
      BY <1>4
    <2>2. key[d] \in Nat /\ key[i] \in Nat
      OBVIOUS
    <2> QED  BY <2>1, <2>2, <1>5
  <1> QED  BY <1>6

---------------------------------------------------------------------------
(* Taking whole instances *)

\* The oldest instances that cover n: without one of them they do not.
LEMMA OldestOvershoot ==
  ASSUME NEW size \in Reports, NEW S \in SUBSET Instances, NEW n \in Int, Oldest(size, S, n) # {}
  PROVE  \E i \in Oldest(size, S, n) : Vcpus(size, Oldest(size, S, n) \ {i}) < n
PROOF
  <1> DEFINE P == Oldest(size, S, n)
             key == [i \in Instances |-> i]
  <1>1. P \in SUBSET Instances /\ P # {}
    BY DEF Oldest
  <1>2. key \in [Instances -> 0 .. MaxInstances] /\ MaxInstances \in Nat
    BY InstancesAssumption DEF Instances
  <1>3. PICK i \in P : \A d \in P : key[d] <= key[i]
    <2> HIDE DEF P, key
    <2> QED  BY <1>1, <1>2, LastOne
  <1>4. \A d \in P : d <= i
    BY <1>1, <1>3
  <1> DEFINE Before == { d \in S : d < i }
             Rest == P \ {i}
  <1>5. Before \in SUBSET Instances /\ Rest \in SUBSET Before
    <2>1. P \subseteq S /\ \A d \in S \cup {i} : d \in Int
      BY <1>1 DEF Oldest, Instances
    <2> HIDE DEF P
    <2>2. \A d \in P : d # i => d < i
      BY <1>4, <2>1
    <2> QED  BY <2>1, <2>2
  <1>6. Vcpus(size, Before) < n
    BY DEF Oldest
  <1>7. Vcpus(size, Rest) < n
    <2> HIDE DEF Before, Rest
    <2>1. Rest \in SUBSET Instances
      BY <1>5
    <2>2. Vcpus(size, Rest) <= Vcpus(size, Before)
      BY <1>5, VcpusMonotone
    <2>3. Vcpus(size, Rest) \in Nat /\ Vcpus(size, Before) \in Nat
      BY <1>5, <2>1, CpusFinite
    <2> QED  BY <1>6, <2>2, <2>3
  <1> QED  BY <1>7

\* The oldest instances do not cover n only when they are all there are.
LEMMA OldestCovers ==
  ASSUME NEW size \in Reports, NEW S \in SUBSET Instances, NEW n \in Int, Vcpus(size, Oldest(size, S, n)) < n
  PROVE  Oldest(size, S, n) = S
PROOF
  <1> DEFINE P == Oldest(size, S, n)
             Left == S \ P
             key == [i \in Instances |-> MaxInstances - i]
  <1>1. P \in SUBSET S
    BY DEF Oldest
  <1> SUFFICES ASSUME Left # {}  PROVE FALSE
    BY <1>1
  <1>2. key \in [Instances -> 0 .. MaxInstances] /\ MaxInstances \in Nat
    BY InstancesAssumption DEF Instances
  <1>3. PICK i \in Left : \A d \in Left : key[d] <= key[i]
    <2>1. Left \in SUBSET Instances
      OBVIOUS
    <2> HIDE DEF Left, key
    <2> QED  BY <1>2, <2>1, LastOne
  <1>4. \A d \in Left : i <= d
    <2> SUFFICES ASSUME NEW d \in Left  PROVE i <= d
      OBVIOUS
    <2>1. MaxInstances - d <= MaxInstances - i
      BY <1>3
    <2>2. i \in Int /\ d \in Int /\ MaxInstances \in Int
      BY <1>2 DEF Instances
    <2> QED  BY <2>1, <2>2
  <1> DEFINE Before == { d \in S : d < i }
  <1>5. Before \in SUBSET P
    <2>1. i \in Int /\ \A d \in S : d \in Int
      BY DEF Instances
    <2> HIDE DEF P
    <2>2. ASSUME NEW d \in S, d < i  PROVE d \in P
      BY <1>4, <2>1, <2>2
    <2> QED  BY <2>2
  <1>6. Vcpus(size, Before) < n
    <2> HIDE DEF Before, P
    <2>1. Before \in SUBSET Instances /\ P \in SUBSET Instances
      BY <1>1, <1>5
    <2>2. Vcpus(size, Before) <= Vcpus(size, P)
      BY <1>5, <2>1, VcpusMonotone
    <2>3. Vcpus(size, Before) \in Nat /\ Vcpus(size, P) \in Nat
      BY <2>1, CpusFinite
    <2>4. Vcpus(size, P) < n
      BY DEF P
    <2> QED  BY <2>2, <2>3, <2>4
  <1> QED  BY <1>6 DEF Oldest

\* Nothing is taken for nothing.
LEMMA OldestOfNothing ==
  ASSUME NEW size \in Reports, NEW S \in SUBSET Instances, NEW n \in Int, n <= 0
  PROVE  Oldest(size, S, n) = {}
PROOF
  <1> SUFFICES ASSUME NEW i \in Oldest(size, S, n)  PROVE FALSE
    OBVIOUS
  <1> DEFINE Before == { d \in S : d < i }
  <1>1. Vcpus(size, Before) < n /\ Before \in SUBSET Instances
    BY DEF Oldest
  <1> HIDE DEF Before
  <1>2. Vcpus(size, Before) \in Nat
    BY <1>1, CpusFinite
  <1> QED  BY <1>1, <1>2

\* The numbers a tick decides by are integers.
LEMMA DecisionTypes ==
  ASSUME TypeOK
  PROVE  /\ Active \in SUBSET Instances /\ tick.draining \in SUBSET Instances
         /\ Reclaimed \in SUBSET tick.draining
         /\ Deficit \in Int /\ Vcpus(tick.size, Reclaimed) \in Nat /\ Shortfall \in Int
         /\ tick.desired \in Nat /\ tick.size \in Reports
PROOF
  <1>1. /\ Active \in SUBSET Instances /\ tick.draining \in SUBSET Instances
        /\ tick.desired \in Nat /\ tick.size \in Reports
    BY DEF TypeOK, Tick, Active
  <1>2. Reclaimed \in SUBSET tick.draining
    BY DEF Reclaimed, Oldest
  <1>3. Reclaimed \in SUBSET Instances
    BY <1>1, <1>2
  <1>4. Vcpus(tick.size, Active) \in Nat /\ Vcpus(tick.size, Reclaimed) \in Nat
    BY <1>1, <1>3, CpusFinite
  <1>5. Deficit \in Int
    BY <1>1, <1>4 DEF Deficit
  <1>6. Shortfall \in Int
    BY <1>4, <1>5 DEF Shortfall
  <1> QED  BY <1>1, <1>2, <1>4, <1>5, <1>6

---------------------------------------------------------------------------
(* Types *)

\* The target is a number and keeps to MAX_VCPUS.
LEMMA DesiredBounded ==
  ASSUME NEW b \in Backlogs
  PROVE  DesiredVcpus(b) \in Nat /\ DesiredVcpus(b) <= MaxVcpus
PROOF
  <1>1. ASSUME NEW x \in Int, NEW y \in Int
        PROVE  /\ Max({x, y}) \in {x, y} /\ Max({x, y}) >= x
               /\ Min({x, y}) \in {x, y} /\ Min({x, y}) <= x
    <2>1. \E m \in {x, y} : \A z \in {x, y} : m >= z
      OBVIOUS
    <2>2. \E m \in {x, y} : \A z \in {x, y} : m =< z
      OBVIOUS
    <2> QED  BY <2>1, <2>2 DEF Max, Min
  <1> DEFINE pairs  == (b + TargetPerPair - 1) \div TargetPerPair
             wanted == pairs * PairCpu
             capped == Min({MaxVcpus, wanted})
  <1>2. pairs \in Int
    BY TargetAssumption
  <1>3. wanted \in Int
    <2> HIDE DEF pairs
    <2> QED  BY <1>2, TargetAssumption
  <1>4. capped \in Int /\ capped <= MaxVcpus
    <2> HIDE DEF wanted
    <2> QED  BY <1>1, <1>3, TargetAssumption
  <1>5. DesiredVcpus(b) = Max({MinVcpus, capped})
    BY DEF DesiredVcpus
  <1> HIDE DEF capped
  <1>6. DesiredVcpus(b) \in {MinVcpus, capped} /\ DesiredVcpus(b) >= MinVcpus
    BY <1>1, <1>4, <1>5, TargetAssumption
  <1> QED  BY <1>4, <1>6, TargetAssumption

\* What an instance that is not live has, and how one that is may change.
LEMMA InstanceTypes ==
  ASSUME NEW x \in Instance
  PROVE  /\ x.state \in {"none", "live", "gone"}
         /\ x.state # "live" => x.tag = "none" /\ x.workers = "down" /\ x.work = "idle" /\ x.cmds = {}
         /\ x.state = "live" =>
              x \in [ state : {"live"}, tag : {"none", "draining", "overdue"},
                      workers : {"up", "stopping", "down"}, work : {"idle", "unseen", "seen"},
                      cmds : SUBSET {"stop", "start"} ]
PROOF  BY DEF Instance, NotLaunched, Gone

\* What an instance does of its own launches, terminates, tags and untags nothing,
\* and receives no command.
LEMMA InstanceMove ==
  ASSUME TypeOK, NEW i \in Instances, InstanceStep(i)
  PROVE  /\ inst' \in [Instances -> Instance] /\ tick' = tick /\ exact' = exact
         /\ \A j \in Instances :
              /\ inst'[j].state = inst[j].state
              /\ inst'[j].tag = "none" <=> inst[j].tag = "none"
              /\ inst'[j].cmds \subseteq inst[j].cmds
PROOF
  <1> DEFINE x == inst[i]
             LiveOnes == [ state : {"live"}, tag : {"none", "draining", "overdue"},
                           workers : {"up", "stopping", "down"}, work : {"idle", "unseen", "seen"},
                           cmds : SUBSET {"stop", "start"} ]
  <1>1. inst \in [Instances -> Instance] /\ x \in Instance
    BY DEF TypeOK
  <1>2. ASSUME NEW y, Change(i, y), y \in LiveOnes, x.state = "live",
               y.tag = "none" <=> x.tag = "none", y.cmds \subseteq x.cmds
        PROVE  /\ inst' \in [Instances -> Instance] /\ tick' = tick /\ exact' = exact
               /\ \A j \in Instances :
                    /\ inst'[j].state = inst[j].state
                    /\ inst'[j].tag = "none" <=> inst[j].tag = "none"
                    /\ inst'[j].cmds \subseteq inst[j].cmds
    <2>1. y \in Instance /\ y.state = "live"
      BY <1>2 DEF Instance
    <2>2. inst' = [inst EXCEPT ![i] = y] /\ tick' = tick /\ exact' = exact
      BY <1>2 DEF Change
    <2>3. inst' \in [Instances -> Instance]
      BY <1>1, <2>1, <2>2
    <2>4. \A j \in Instances : inst'[j] = IF j = i THEN y ELSE inst[j]
      BY <1>1, <2>2
    <2> HIDE DEF LiveOnes
    <2> QED  BY <1>2, <2>1, <2>2, <2>3, <2>4
  <1>3. CASE AgentClaims(i)
    <2> DEFINE y == [ inst[i] EXCEPT !.work = "unseen" ]
    <2>1. x \in LiveOnes
      BY <1>1, <1>3, InstanceTypes DEF AgentClaims
    <2>2. y \in LiveOnes /\ y.tag = x.tag /\ y.cmds = x.cmds /\ x.state = "live"
      BY <2>1
    <2>3. Change(i, y)
      BY <1>3 DEF AgentClaims
    <2> HIDE DEF y, x, LiveOnes
    <2> QED  BY <1>2, <2>2, <2>3
  <1>4. CASE HeartbeatShows(i)
    <2> DEFINE y == [ inst[i] EXCEPT !.work = "seen" ]
    <2>1. x \in LiveOnes
      BY <1>1, <1>4, InstanceTypes DEF HeartbeatShows
    <2>2. y \in LiveOnes /\ y.tag = x.tag /\ y.cmds = x.cmds /\ x.state = "live"
      BY <2>1
    <2>3. Change(i, y)
      BY <1>4 DEF HeartbeatShows
    <2> HIDE DEF y, x, LiveOnes
    <2> QED  BY <1>2, <2>2, <2>3
  <1>5. CASE HeartbeatLate(i)
    <2> DEFINE y == [ inst[i] EXCEPT !.work = "unseen" ]
    <2>1. x \in LiveOnes
      BY <1>1, <1>5, InstanceTypes DEF HeartbeatLate
    <2>2. y \in LiveOnes /\ y.tag = x.tag /\ y.cmds = x.cmds /\ x.state = "live"
      BY <2>1
    <2>3. Change(i, y)
      BY <1>5 DEF HeartbeatLate
    <2> HIDE DEF y, x, LiveOnes
    <2> QED  BY <1>2, <2>2, <2>3
  <1>6. CASE AgentFinishes(i)
    <2> DEFINE w == IF inst[i].workers = "stopping" THEN "down" ELSE inst[i].workers
               y == [ inst[i] EXCEPT !.work = "idle", !.workers = w ]
    <2>1. x \in LiveOnes
      BY <1>1, <1>6, InstanceTypes DEF AgentFinishes
    <2>2. w \in {"up", "stopping", "down"}
      BY <2>1
    <2>3. Change(i, y)
      BY <1>6 DEF AgentFinishes
    <2> HIDE DEF w
    <2>4. y \in LiveOnes /\ y.tag = x.tag /\ y.cmds = x.cmds /\ x.state = "live"
      BY <2>1, <2>2
    <2> HIDE DEF y, x, LiveOnes
    <2> QED  BY <1>2, <2>3, <2>4
  <1>7. CASE WorkersExit(i)
    <2> DEFINE y == [ inst[i] EXCEPT !.work = "idle", !.workers = "down" ]
    <2>1. x \in LiveOnes
      BY <1>1, <1>7, InstanceTypes DEF WorkersExit
    <2>2. y \in LiveOnes /\ y.tag = x.tag /\ y.cmds = x.cmds /\ x.state = "live"
      BY <2>1
    <2>3. Change(i, y)
      BY <1>7 DEF WorkersExit
    <2> HIDE DEF y, x, LiveOnes
    <2> QED  BY <1>2, <2>2, <2>3
  <1>8. CASE RunStop(i)
    <2> DEFINE w == IF inst[i].workers = "up" THEN "stopping" ELSE inst[i].workers
               c == inst[i].cmds \ {"stop"}
               y == [ inst[i] EXCEPT !.cmds = c, !.workers = w ]
    <2>1. x \in LiveOnes
      BY <1>1, <1>8, InstanceTypes DEF RunStop
    <2>2. w \in {"up", "stopping", "down"} /\ c \in SUBSET {"stop", "start"} /\ c \subseteq x.cmds
      BY <2>1
    <2>3. Change(i, y)
      BY <1>8 DEF RunStop
    <2> HIDE DEF w, c
    <2>4. y \in LiveOnes /\ y.tag = x.tag /\ y.cmds = c /\ x.state = "live"
      BY <2>1, <2>2
    <2> HIDE DEF y, x, LiveOnes
    <2> QED  BY <1>2, <2>2, <2>3, <2>4
  <1>9. CASE RunStart(i)
    <2> DEFINE w == IF inst[i].workers = "down" THEN "up" ELSE inst[i].workers
               c == inst[i].cmds \ {"start"}
               y == [ inst[i] EXCEPT !.cmds = c, !.workers = w ]
    <2>1. x \in LiveOnes
      BY <1>1, <1>9, InstanceTypes DEF RunStart
    <2>2. w \in {"up", "stopping", "down"} /\ c \in SUBSET {"stop", "start"} /\ c \subseteq x.cmds
      BY <2>1
    <2>3. Change(i, y)
      BY <1>9 DEF RunStart
    <2> HIDE DEF w, c
    <2>4. y \in LiveOnes /\ y.tag = x.tag /\ y.cmds = c /\ x.state = "live"
      BY <2>1, <2>2
    <2> HIDE DEF y, x, LiveOnes
    <2> QED  BY <1>2, <2>2, <2>3, <2>4
  <1>10. CASE DeadlinePasses(i)
    <2> DEFINE y == [ inst[i] EXCEPT !.tag = "overdue" ]
    <2>1. x \in LiveOnes
      BY <1>1, <1>10, InstanceTypes DEF DeadlinePasses
    <2>2. y \in LiveOnes /\ y.tag # "none" /\ x.tag # "none" /\ y.cmds = x.cmds /\ x.state = "live"
      BY <1>10, <2>1 DEF DeadlinePasses
    <2>3. Change(i, y)
      BY <1>10 DEF DeadlinePasses
    <2> HIDE DEF y, x, LiveOnes
    <2> QED  BY <1>2, <2>2, <2>3
  <1> QED
    BY <1>3, <1>4, <1>5, <1>6, <1>7, <1>8, <1>9, <1>10 DEF InstanceStep

\* A command is noted by the live instances it is sent to, or by none.
LEMMA CommandSent ==
  ASSUME TypeOK, NEW S, NEW c \in {"stop", "start"}, SendCommand(S, c)
  PROVE  /\ inst' \in [Instances -> Instance]
         /\ \A j \in Instances :
              /\ inst'[j].state = inst[j].state /\ inst'[j].tag = inst[j].tag
              /\ \A e \in {"stop", "start"} :
                   e \in inst'[j].cmds => e \in inst[j].cmds \/ (e = c /\ j \in S \cap Live)
PROOF
  <1> DEFINE Got(j) == [ inst[j] EXCEPT !.cmds = inst[j].cmds \cup {c} ]
             Now(j) == IF j \in S \cap Live THEN Got(j) ELSE inst[j]
  <1>1. inst \in [Instances -> Instance]
    BY DEF TypeOK
  <1>2. CASE inst' = inst
    BY <1>1, <1>2
  <1>3. CASE inst' = [j \in Instances |-> Now(j)]
    <2>1. ASSUME NEW j \in Instances, inst[j].state = "live"
          PROVE  /\ Got(j) \in Instance /\ Got(j).state = inst[j].state /\ Got(j).tag = inst[j].tag
                 /\ Got(j).cmds = inst[j].cmds \cup {c}
      <3> DEFINE x == inst[j]
                 k == inst[j].cmds \cup {c}
      <3>1. x \in [ state : {"live"}, tag : {"none", "draining", "overdue"},
                    workers : {"up", "stopping", "down"}, work : {"idle", "unseen", "seen"},
                    cmds : SUBSET {"stop", "start"} ]
        BY <1>1, <2>1, InstanceTypes
      <3>2. k \in SUBSET {"stop", "start"}
        BY <3>1
      <3>3. Got(j) = [ x EXCEPT !.cmds = k ]
        OBVIOUS
      <3> HIDE DEF x, k
      <3>4. /\ Got(j) \in Instance /\ Got(j).state = x.state /\ Got(j).tag = x.tag
            /\ Got(j).cmds = k
        BY <3>1, <3>2, <3>3 DEF Instance
      <3> QED  BY <3>4 DEF x, k
    <2> HIDE DEF Got
    <2>2. \A j \in Instances : inst'[j] = Now(j)
      BY <1>3
    <2>3. \A j \in Instances : Now(j) \in Instance
      BY <1>1, <2>1 DEF Live
    <2>4. inst' \in [Instances -> Instance]
      BY <1>3, <2>3
    <2> QED  BY <2>1, <2>2, <2>4 DEF Live
  <1> QED  BY <1>2, <1>3 DEF SendCommand

---------------------------------------------------------------------------
(* The inductive invariant *)

Pcs == {"off", "list", "tags", "busy", "start", "untag", "resend",
        "terminate", "create", "cordon", "stop"}

\* A step that changes only the place in the tick changes no decision of it.
LEMMA DecisionsStay ==
  ASSUME tick \in Tick, NEW p \in Pcs, Goto(p)
  PROVE  /\ tick' \in Tick /\ tick'.pc = p
         /\ tick'.seen = tick.seen /\ tick'.draining = tick.draining
         /\ tick'.desired = tick.desired /\ tick'.overdue = tick.overdue /\ tick'.size = tick.size
         /\ Active' = Active /\ Deficit' = Deficit
         /\ Reclaimed' = Reclaimed /\ Victims' = Victims
PROOF
  <1>1. /\ tick' \in Tick /\ tick'.pc = p
        /\ tick'.seen = tick.seen /\ tick'.draining = tick.draining
        /\ tick'.desired = tick.desired /\ tick'.overdue = tick.overdue /\ tick'.size = tick.size
        /\ tick'.busy = tick.busy /\ tick'.known = tick.known
    BY DEF Goto, Tick, Pcs
  <1>2. Active' = Active
    BY <1>1 DEF Active
  <1>3. Deficit' = Deficit
    BY <1>1, <1>2 DEF Deficit
  <1>4. Reclaimed' = Reclaimed
    BY <1>1, <1>3 DEF Reclaimed
  <1>5. Victims' = Victims
    <2> DEFINE Before(i) == { d \in Active : DrainsBefore(d, i) }
    <2>1. ASSUME NEW i  PROVE { d \in Active' : DrainsBefore(d, i)' } = Before(i)
      BY <1>1, <1>2 DEF DrainsBefore
    <2>2. Victims = { i \in Active : tick.known /\ Vcpus(tick.size, Before(i)) < -Deficit }
      BY DEF Victims
    <2>3. Victims' = { i \in Active' :
                         tick'.known /\ Vcpus(tick'.size, { d \in Active' : DrainsBefore(d, i)' }) < -Deficit' }
      BY DEF Victims
    <2>4. Victims' = { i \in Active : tick.known /\ Vcpus(tick.size, Before(i)) < -Deficit }
      <3> HIDE DEF Before
      <3> QED  BY <1>1, <1>2, <1>3, <2>1, <2>3
    <2> QED  BY <2>2, <2>4
  <1> QED  BY <1>1, <1>2, <1>3, <1>4, <1>5

\* With no tick under way there is nothing to decide.
LEMMA Idle ==
  tick = NoTick /\ inst \in [Instances -> Instance] /\ exact \in BOOLEAN => CapacityInv
PROOF
  <1> SUFFICES ASSUME tick = NoTick, inst \in [Instances -> Instance], exact \in BOOLEAN
               PROVE  CapacityInv
    OBVIOUS
  <1>1. /\ tick \in Tick /\ tick.pc = "off" /\ tick.draining = {} /\ tick.desired = 0
    BY InstancesAssumption DEF NoTick, Tick
  <1> QED
    BY <1>1, TargetAssumption
    DEF CapacityInv, TypeOK, ReadInOrder, DrainingIsTagged, VictimIsTagged

\* The invariant holds at first.
LEMMA InitCapacity == Init => CapacityInv
PROOF
  <1> SUFFICES ASSUME Init  PROVE CapacityInv
    OBVIOUS
  <1>1. inst \in [Instances -> Instance] /\ tick = NoTick /\ exact \in BOOLEAN
    BY DEF Init, Instance
  <1> QED  BY <1>1, Idle

\* Steps after which every instance is in the same state, and draining or not as
\* before: calls that fail, commands, and what instances do of their own.
LEMMA QuietStep ==
  ASSUME CapacityInv, inst' \in [Instances -> Instance], exact' = exact,
         \A j \in Instances : /\ inst'[j].state = inst[j].state
                              /\ inst'[j].tag = "none" <=> inst[j].tag = "none",
         \/ tick' = tick
         \/ tick.pc = "tags" /\ Goto("busy")
         \/ tick.pc = "busy" /\ Goto("start")
         \/ tick.pc = "start" /\ Goto("untag")
         \/ tick.pc = "resend" /\ Goto("terminate")
         \/ tick.pc = "terminate" /\ Goto("create")
         \/ tick.pc = "create" /\ Goto("cordon")
  PROVE  CapacityInv'
PROOF
  <1> USE DEF CapacityInv
  <1>1. tick \in Tick /\ inst \in [Instances -> Instance]
    BY DEF TypeOK
  <1>2. PICK p \in Pcs : Goto(p) /\
          \/ p = tick.pc
          \/ << tick.pc, p >> \in
               { << "tags", "busy" >>, << "busy", "start" >>, << "start", "untag" >>,
                 << "resend", "terminate" >>, << "terminate", "create" >>, << "create", "cordon" >> }
    <2>1. CASE tick' = tick
      <3>1. tick.pc \in Pcs /\ tick = [ tick EXCEPT !.pc = tick.pc ]
        BY <1>1 DEF Tick, Pcs
      <3> QED  BY <2>1, <3>1 DEF Goto
    <2> QED  BY <2>1 DEF Pcs
  <1>3. /\ tick' \in Tick /\ tick'.pc = p
        /\ tick'.seen = tick.seen /\ tick'.draining = tick.draining /\ tick'.desired = tick.desired
        /\ Active' = Active /\ Reclaimed' = Reclaimed /\ Victims' = Victims
    BY <1>1, <1>2, DecisionsStay
  <1>4. Live' = Live
    BY DEF Live
  <1>5. TypeOK'
    BY <1>3 DEF TypeOK
  <1>6. ReadInOrder'
    BY <1>2, <1>3 DEF ReadInOrder
  <1>8. DrainingIsTagged'
    <2>1. Reclaimed \subseteq tick.draining /\ tick.draining \in SUBSET Instances
      BY DecisionTypes
    <2>2. p \in {"busy", "start", "untag"} => \A i \in tick.draining : inst'[i].tag # "none"
      BY <1>2, <2>1 DEF DrainingIsTagged, ReadInOrder
    <2>3. p \in {"resend", "terminate"} => \A i \in tick.draining \ Reclaimed : inst'[i].tag # "none"
      BY <1>2, <2>1 DEF DrainingIsTagged
    <2> QED  BY <1>3, <2>2, <2>3 DEF DrainingIsTagged
  <1>9. VictimIsTagged'
    <2>1. Victims \subseteq Instances
      BY DecisionTypes DEF Victims
    <2>2. p = "stop" => tick.pc = "stop"
      BY <1>2
    <2> QED  BY <1>3, <1>4, <2>1, <2>2 DEF VictimIsTagged
  <1> QED  BY <1>5, <1>6, <1>8, <1>9

\* What each step of the tick that reads something finds.
LEMMA ReadStep ==
  ASSUME CapacityInv,
         \/ \E b \in Backlogs : TickStart(b)
         \/ \E listed \in SUBSET EverLaunched, size \in Reports : TickList(listed, size)
         \/ TickTags \/ TickBusy
  PROVE  CapacityInv'
PROOF
  <1> USE DEF CapacityInv
  <1>1. /\ tick \in Tick /\ inst \in [Instances -> Instance] /\ inst' = inst
        /\ exact' \in BOOLEAN
    BY DEF TypeOK, TickStart, TickList, TickTags, TickBusy
  <1>2. Live \in SUBSET Instances /\ EverLaunched \in SUBSET Instances
    BY DEF Live, EverLaunched
  <1>3. CASE \E b \in Backlogs : TickStart(b)
    <2>1. PICK b \in Backlogs : TickStart(b)
      BY <1>3
    <2>2. DesiredVcpus(b) \in Nat /\ DesiredVcpus(b) <= MaxVcpus
      BY DesiredBounded
    <2>3. /\ tick' \in Tick /\ tick'.pc = "list" /\ tick'.desired = DesiredVcpus(b)
          /\ tick'.draining = {}
      BY <2>1, <2>2, InstancesAssumption DEF TickStart, NoTick, Tick
    <2> QED
      BY <1>1, <2>2, <2>3 DEF TypeOK, ReadInOrder, DrainingIsTagged, VictimIsTagged
  <1>4. ASSUME NEW listed \in SUBSET EverLaunched, NEW size \in Reports, TickList(listed, size)
        PROVE  CapacityInv'
    <2>1. listed \in SUBSET Instances
      BY <1>2
    <2>2. /\ tick' \in Tick /\ tick'.pc = "tags" /\ tick'.desired = tick.desired
          /\ tick'.draining = tick.draining
      BY <1>1, <1>4, <2>1 DEF TickList, Tick
    <2>3. tick.draining = {}
      BY <1>4 DEF TickList, ReadInOrder
    <2> QED
      BY <1>1, <2>2, <2>3 DEF TypeOK, ReadInOrder, DrainingIsTagged, VictimIsTagged
  <1>5. CASE TickTags
    <2> DEFINE D == { i \in tick.seen : inst[i].tag # "none" }
               O == { i \in tick.seen : inst[i].tag = "overdue" }
    <2>1. D \in SUBSET Instances /\ O \in SUBSET Instances
      BY <1>1 DEF Tick
    <2>2. tick' = [ tick EXCEPT !.pc = "busy", !.draining = D, !.overdue = O ] /\ tick.pc = "tags"
      BY <1>5 DEF TickTags
    <2>3. /\ tick' \in Tick /\ tick'.pc = "busy" /\ tick'.desired = tick.desired
          /\ tick'.seen = tick.seen /\ tick'.draining = D
      <3> HIDE DEF D, O
      <3> QED  BY <1>1, <2>1, <2>2 DEF Tick
    <2> QED
      BY <1>1, <2>3 DEF TypeOK, ReadInOrder, DrainingIsTagged, VictimIsTagged
  <1>6. CASE TickBusy
    <2> DEFINE B == { i \in Live : inst[i].work = "seen" }
    <2>1. B \in SUBSET Instances
      BY <1>2
    <2>2. tick' = [ tick EXCEPT !.pc = "start", !.known = TRUE, !.busy = B ] /\ tick.pc = "busy"
      BY <1>6 DEF TickBusy
    <2>3. /\ tick' \in Tick /\ tick'.pc = "start" /\ tick'.desired = tick.desired
          /\ tick'.seen = tick.seen /\ tick'.draining = tick.draining
      <3> HIDE DEF B
      <3> QED  BY <1>1, <2>1, <2>2 DEF Tick
    <2> QED
      BY <1>1, <2>2, <2>3 DEF TypeOK, ReadInOrder, DrainingIsTagged, VictimIsTagged
  <1> QED  BY <1>3, <1>4, <1>5, <1>6

\* What each step of the tick that tags, untags, terminates or launches does to the
\* instances.
LEMMA FleetStep ==
  ASSUME CapacityInv, TickUncordonUntag \/ TickTerminate \/ TickCreate \/ TickCordonTag
  PROVE  /\ inst' \in [Instances -> Instance]
         /\ \A j \in Instances :
              /\ TickUncordonUntag =>
                   /\ inst'[j].state = inst[j].state /\ inst'[j].cmds = inst[j].cmds
                   /\ j \notin Reclaimed => inst'[j].tag = inst[j].tag
              /\ TickTerminate =>
                   /\ j \in Terminable => inst'[j].state = "gone" /\ inst'[j].cmds = {}
                   /\ j \notin Terminable => inst'[j] = inst[j]
              /\ TickCreate =>
                   /\ j \in NewInstances(Shortfall) => inst'[j].state = "live" /\ inst'[j].cmds = {}
                   /\ j \notin NewInstances(Shortfall) => inst'[j] = inst[j]
              /\ TickCordonTag =>
                   /\ inst'[j].state = inst[j].state /\ inst'[j].cmds = inst[j].cmds
                   /\ j \in Victims \cap Live => inst'[j].tag = "draining"
PROOF
  <1> USE DEF CapacityInv
  <1>1. inst \in [Instances -> Instance]
    BY DEF TypeOK
  <1>2. ASSUME NEW j \in Instances, inst[j].state = "live"
        PROVE  /\ Tagged(j) \in Instance /\ Untagged(j) \in Instance
               /\ Tagged(j).tag = "draining" /\ Tagged(j).state = "live" /\ Tagged(j).cmds = inst[j].cmds
               /\ Untagged(j).state = "live" /\ Untagged(j).cmds = inst[j].cmds
    <2> DEFINE x == inst[j]
    <2>1. x \in [ state : {"live"}, tag : {"none", "draining", "overdue"},
                  workers : {"up", "stopping", "down"}, work : {"idle", "unseen", "seen"},
                  cmds : SUBSET {"stop", "start"} ]
      BY <1>1, <1>2, InstanceTypes
    <2>2. Tagged(j) = [ x EXCEPT !.tag = "draining" ] /\ Untagged(j) = [ x EXCEPT !.tag = "none" ]
      BY DEF Tagged, Untagged
    <2> QED  BY <2>1, <2>2 DEF Instance
  <1>3. /\ Launched \in Instance /\ Gone \in Instance
        /\ Launched.state = "live" /\ Launched.cmds = {} /\ Gone.state = "gone" /\ Gone.cmds = {}
    BY DEF Launched, Gone, NotLaunched, Instance
  <1>4. ASSUME TickUncordonUntag
        PROVE  /\ inst' \in [Instances -> Instance]
               /\ \A j \in Instances :
                    /\ inst'[j].state = inst[j].state /\ inst'[j].cmds = inst[j].cmds
                    /\ j \notin Reclaimed => inst'[j].tag = inst[j].tag
    <2>1. \A j \in Reclaimed : j \in Instances /\ inst[j].tag # "none"
      BY <1>4, DecisionTypes DEF TickUncordonUntag, DrainingIsTagged
    <2>2. inst' = [j \in Instances |-> IF j \in Reclaimed THEN Untagged(j) ELSE inst[j]]
      BY <1>4 DEF TickUncordonUntag
    <2>3. \A j \in Reclaimed : inst[j].state = "live"
      BY <1>1, <2>1, InstanceTypes
    <2> QED  BY <1>1, <1>2, <2>2, <2>3
  <1>5. ASSUME TickTerminate
        PROVE  /\ inst' \in [Instances -> Instance]
               /\ \A j \in Instances :
                    /\ j \in Terminable => inst'[j].state = "gone" /\ inst'[j].cmds = {}
                    /\ j \notin Terminable => inst'[j] = inst[j]
    BY <1>1, <1>3, <1>5 DEF TickTerminate
  <1>6. ASSUME TickCreate
        PROVE  /\ inst' \in [Instances -> Instance]
               /\ \A j \in Instances :
                    /\ j \in NewInstances(Shortfall) => inst'[j].state = "live" /\ inst'[j].cmds = {}
                    /\ j \notin NewInstances(Shortfall) => inst'[j] = inst[j]
    BY <1>1, <1>3, <1>6 DEF TickCreate
  <1>7. ASSUME TickCordonTag
        PROVE  /\ inst' \in [Instances -> Instance]
               /\ \A j \in Instances :
                    /\ inst'[j].state = inst[j].state /\ inst'[j].cmds = inst[j].cmds
                    /\ j \in Victims \cap Live => inst'[j].tag = "draining"
    <2>1. inst' = [j \in Instances |-> IF j \in Victims \cap Live THEN Tagged(j) ELSE inst[j]]
      BY <1>7 DEF TickCordonTag
    <2>2. \A j \in Victims \cap Live : inst[j].state = "live"
      BY DEF Live
    <2> QED  BY <1>1, <1>2, <2>1, <2>2
  <1> QED  BY <1>4, <1>5, <1>6, <1>7

\* Those steps keep the invariant.
LEMMA FleetStepKeeps ==
  ASSUME CapacityInv, TickUncordonUntag \/ TickTerminate \/ TickCreate \/ TickCordonTag
  PROVE  CapacityInv'
PROOF
  <1> USE DEF CapacityInv
  <1>1. /\ tick \in Tick /\ inst \in [Instances -> Instance] /\ inst' \in [Instances -> Instance]
        /\ exact \in BOOLEAN
    BY FleetStep DEF TypeOK
  <1>2. PICK p \in Pcs : Goto(p) /\
          << tick.pc, p >> \in { << "untag", "resend" >>, << "terminate", "create" >>,
                                 << "create", "cordon" >>, << "cordon", "stop" >> }
    BY DEF TickUncordonUntag, TickTerminate, TickCreate, TickCordonTag, Pcs
  <1>3. /\ tick' \in Tick /\ tick'.pc = p
        /\ tick'.seen = tick.seen /\ tick'.draining = tick.draining /\ tick'.desired = tick.desired
        /\ Active' = Active /\ Reclaimed' = Reclaimed /\ Victims' = Victims
    BY <1>1, <1>2, DecisionsStay
  <1>4. /\ Active \subseteq Instances /\ tick.draining \subseteq Instances
        /\ Reclaimed \subseteq tick.draining /\ Victims \subseteq Active
    BY DecisionTypes DEF Victims
  <1>5. TypeOK' /\ ReadInOrder'
    BY <1>1, <1>2, <1>3 DEF TypeOK, ReadInOrder, Goto
  <1>6. CASE TickUncordonUntag
    <2>1. tick.pc = "untag" /\ p = "resend"
      BY <1>2, <1>6 DEF TickUncordonUntag
    <2>2. \A i \in tick.draining \ Reclaimed : inst'[i].tag # "none"
      BY <1>4, <1>6, <2>1, FleetStep DEF DrainingIsTagged
    <2> QED  BY <1>3, <1>5, <2>1, <2>2 DEF DrainingIsTagged, VictimIsTagged
  <1>7. CASE TickTerminate \/ TickCreate
    <2>1. p \in {"create", "cordon"}
      BY <1>2, <1>7 DEF TickTerminate, TickCreate
    <2> QED  BY <1>3, <1>5, <2>1 DEF DrainingIsTagged, VictimIsTagged
  <1>8. CASE TickCordonTag
    <2>1. p = "stop"
      BY <1>2, <1>8 DEF TickCordonTag
    <2>2. Live' = Live
      BY <1>8, FleetStep DEF Live
    <2>3. \A i \in Victims \cap Live : inst'[i].tag # "none"
      BY <1>4, <1>8, FleetStep
    <2> QED  BY <1>3, <1>5, <2>1, <2>2, <2>3 DEF DrainingIsTagged, VictimIsTagged
  <1> QED  BY <1>6, <1>7, <1>8

\* Every step keeps the invariant.
LEMMA CapacityStep == CapacityInv /\ [Next]_vars => CapacityInv'
PROOF
  <1> SUFFICES ASSUME CapacityInv, [Next]_vars  PROVE CapacityInv'
    OBVIOUS
  <1>1. TypeOK /\ inst \in [Instances -> Instance] /\ tick \in Tick /\ exact \in BOOLEAN
    BY DEF CapacityInv, TypeOK
  <1>2. CASE TickTagsFail \/ TickBusyUnknown \/ TickOrbFails \/ UNCHANGED vars
    BY <1>1, <1>2, QuietStep
    DEF TickTagsFail, TickBusyUnknown, TickOrbFails, Goto, vars
  <1>3. CASE TickUncordonStart
    BY <1>1, <1>3, CommandSent, QuietStep DEF TickUncordonStart, Goto
  <1>4. CASE TickResendStop
    BY <1>1, <1>4, CommandSent, QuietStep DEF TickResendStop, Goto
  <1>5. CASE TickCordonStop
    <2>1. (tick = NoTick /\ inst \in [Instances -> Instance] /\ exact \in BOOLEAN)'
      BY <1>1, <1>5, CommandSent DEF TickCordonStop
    <2> QED  BY <2>1, Idle, PTL
  <1>6. CASE TickAbort
    <2>1. (tick = NoTick /\ inst \in [Instances -> Instance] /\ exact \in BOOLEAN)'
      BY <1>1, <1>6 DEF TickAbort
    <2> QED  BY <2>1, Idle, PTL
  <1>7. CASE \/ \E b \in Backlogs : TickStart(b)
             \/ \E listed \in SUBSET EverLaunched, size \in Reports : TickList(listed, size)
             \/ TickTags \/ TickBusy
    BY <1>7, ReadStep
  <1>8. CASE TickUncordonUntag \/ TickTerminate \/ TickCreate \/ TickCordonTag
    BY <1>8, FleetStepKeeps
  <1>9. ASSUME NEW i \in Instances, InstanceStep(i)  PROVE CapacityInv'
    <2>1. /\ inst' \in [Instances -> Instance] /\ tick' = tick /\ exact' = exact
          /\ \A j \in Instances : /\ inst'[j].state = inst[j].state
                                  /\ inst'[j].tag = "none" <=> inst[j].tag = "none"
      BY <1>1, <1>9, InstanceMove
    <2> QED  BY <2>1, QuietStep
  <1> QED
    BY <1>2, <1>3, <1>4, <1>5, <1>6, <1>7, <1>8, <1>9 DEF Next, TickStep

\* What a tick has listed, read and tagged stays as it takes it to be: the inductive
\* invariant holds in every reachable state.
THEOREM CapacityInvariant == Spec => []CapacityInv
PROOF
  <1>1. Init => CapacityInv
    BY InitCapacity
  <1>2. CapacityInv /\ [Next]_vars => CapacityInv'
    BY CapacityStep
  <1> QED  BY <1>1, <1>2, PTL DEF Spec

\* Fleet and tick keep to their state space: nothing that was not launched, or is
\* gone, is tagged, works or holds a command.
THEOREM CapacityTypeCorrect == Spec => []TypeOK
PROOF
  <1>1. CapacityInv => TypeOK
    BY DEF CapacityInv
  <1> QED  BY <1>1, CapacityInvariant, PTL

---------------------------------------------------------------------------
(* Draining instances only *)

\* No instance is terminated but one that is marked draining when it is.
THEOREM CapacityTerminatesDraining == Spec => TerminatedWasDraining
PROOF
  <1> DEFINE Drains ==
        \A i \in Instances :
          inst[i].state = "live" /\ inst'[i].state = "gone" => inst[i].tag # "none"
  <1>1. CapacityInv /\ [Next]_vars => [Drains]_vars
    <2> SUFFICES ASSUME CapacityInv, Next  PROVE Drains
      BY DEF vars
    <2>1. TypeOK /\ inst \in [Instances -> Instance]
      BY DEF CapacityInv, TypeOK
    <2>2. CASE inst' = inst
      BY <2>2
    <2>3. CASE TickUncordonStart \/ TickResendStop \/ TickCordonStop
      BY <2>1, <2>3, CommandSent DEF TickUncordonStart, TickResendStop, TickCordonStop
    <2>4. CASE TickUncordonUntag \/ TickCreate \/ TickCordonTag
      BY <2>4, FleetStep
    <2>5. CASE TickTerminate
      <3>1. \A i \in Instances : inst'[i].state = "gone" /\ inst[i].state = "live" => i \in Terminable
        BY <2>5, FleetStep
      <3>2. \A i \in Terminable : inst[i].tag # "none"
        BY <2>5 DEF CapacityInv, DrainingIsTagged, TickTerminate, Terminable
      <3> QED  BY <3>1, <3>2
    <2>6. CASE \E i \in Instances : InstanceStep(i)
      BY <2>1, <2>6, InstanceMove
    <2> QED
      BY <2>2, <2>3, <2>4, <2>5, <2>6
      DEF Next, TickStep, TickStart, TickList, TickTags, TickTagsFail, TickBusy,
          TickBusyUnknown, TickOrbFails, TickAbort
  <1> QED  BY <1>1, CapacityInvariant, PTL DEF Spec, TerminatedWasDraining

\* A stop command is sent only to an instance that is marked draining, by the cordon
\* and by the sweep alike.
THEOREM CapacityStopsDraining == Spec => StopOnlyDraining
PROOF
  <1> DEFINE Drains ==
        \A i \in Instances :
          "stop" \in inst'[i].cmds /\ "stop" \notin inst[i].cmds => inst[i].tag # "none"
  <1>1. CapacityInv /\ [Next]_vars => [Drains]_vars
    <2> SUFFICES ASSUME CapacityInv, Next  PROVE Drains
      BY DEF vars
    <2>1. TypeOK /\ inst \in [Instances -> Instance]
      BY DEF CapacityInv, TypeOK
    <2>2. CASE inst' = inst
      BY <2>2
    <2>3. CASE TickUncordonStart
      BY <2>1, <2>3, CommandSent DEF TickUncordonStart
    <2>4. CASE TickResendStop
      <3>1. \A i \in StillBusy : inst[i].tag # "none"
        BY <2>4 DEF CapacityInv, DrainingIsTagged, TickResendStop, StillBusy
      <3>2. SendCommand(StillBusy, "stop")
        BY <2>4 DEF TickResendStop
      <3> QED  BY <2>1, <3>1, <3>2, CommandSent
    <2>5. CASE TickCordonStop
      <3>1. \A i \in Victims \cap Live : inst[i].tag # "none"
        BY <2>5 DEF CapacityInv, VictimIsTagged, TickCordonStop
      <3>2. SendCommand(Victims, "stop")
        BY <2>5 DEF TickCordonStop
      <3> QED  BY <2>1, <3>1, <3>2, CommandSent
    <2>6. CASE TickUncordonUntag \/ TickTerminate \/ TickCreate \/ TickCordonTag
      BY <2>6, FleetStep
    <2>7. CASE \E i \in Instances : InstanceStep(i)
      BY <2>1, <2>7, InstanceMove
    <2> QED
      BY <2>2, <2>3, <2>4, <2>5, <2>6, <2>7
      DEF Next, TickStep, TickStart, TickList, TickTags, TickTagsFail, TickBusy,
          TickBusyUnknown, TickOrbFails, TickAbort
  <1> QED  BY <1>1, CapacityInvariant, PTL DEF Spec, StopOnlyDraining

---------------------------------------------------------------------------
(* Bounds *)

\* A fleet that only loses instances stays within its bound.
LEMMA FleetShrinks ==
  ASSUME FleetBounded, exact' => exact, Live' \subseteq Live
  PROVE  FleetBounded'
PROOF
  <1> SUFFICES ASSUME exact'  PROVE FleetBounded'
    BY DEF FleetBounded
  <1>1. Live \in SUBSET Instances /\ MaxVcpus \in Nat /\ VcpusOf \in Reports
    BY TargetAssumption, InstancesAssumption DEF Live
  <1>2. CASE Live' = {}
    BY <1>2 DEF FleetBounded
  <1>3. CASE Live' # {}
    <2>1. PICK i \in Live : Vcpus(VcpusOf, Live \ {i}) < MaxVcpus
      BY <1>3 DEF FleetBounded
    <2>2. PICK j \in Live' : Live' \ {j} \subseteq Live \ {i}
      <3>1. CASE i \in Live'
        BY <3>1
      <3>2. CASE i \notin Live'
        BY <1>3, <3>2
      <3> QED  BY <3>1, <3>2
    <2> DEFINE A == Live \ {i}
               B == Live' \ {j}
    <2>3. A \in SUBSET Instances /\ B \in SUBSET Instances /\ B \in SUBSET A
      BY <1>1, <2>2
    <2>4. Vcpus(VcpusOf, A) < MaxVcpus
      BY <2>1
    <2>5. Vcpus(VcpusOf, B) < MaxVcpus
      <3> HIDE DEF A, B
      <3>1. Vcpus(VcpusOf, B) <= Vcpus(VcpusOf, A) /\ Vcpus(VcpusOf, A) \in Nat /\ Vcpus(VcpusOf, B) \in Nat
        BY <1>1, <2>3, VcpusMonotone, CpusFinite
      <3> QED  BY <1>1, <2>4, <3>1
    <2> QED  BY <2>5 DEF FleetBounded
  <1> QED  BY <1>2, <1>3

\* What a tick creates, all draining capacity being taken back before, leaves the
\* fleet below the target but for the last instance.
LEMMA CreateBounded ==
  ASSUME CapacityInv, FleetIsListed, FleetBounded, TickCreate
  PROVE  FleetBounded'
PROOF
  <1> DEFINE Fresh == Instances \ EverLaunched
             New == NewInstances(Shortfall)
  <1> SUFFICES ASSUME exact, exact'  PROVE FleetBounded'
    BY DEF FleetBounded, TickCreate, Goto
  <1>1. /\ TypeOK /\ tick.draining \subseteq tick.seen /\ Live \subseteq tick.seen
        /\ tick.seen \in SUBSET Instances /\ tick.desired <= MaxVcpus /\ MaxVcpus \in Nat
        /\ tick.size = VcpusOf /\ VcpusOf \in Reports
    BY TargetAssumption, InstancesAssumption DEF CapacityInv, ReadInOrder, FleetIsListed, TickCreate, TypeOK, Tick
  <1>2. /\ Active \in SUBSET Instances /\ tick.draining \in SUBSET Instances
        /\ Deficit \in Int /\ Vcpus(VcpusOf, Reclaimed) \in Nat /\ Shortfall \in Int
        /\ tick.desired \in Nat
    BY <1>1, DecisionTypes
  <1>3. New = Oldest(VcpusOf, Fresh, Shortfall) /\ Fresh \in SUBSET Instances
    BY DEF NewInstances
  <1>4. New \in SUBSET Fresh /\ New \cap Live = {} /\ Live \in SUBSET Instances
    BY <1>3 DEF Oldest, Live, EverLaunched
  <1>5. Live' = Live \cup New
    BY <1>4, FleetStep DEF Live
  <1> HIDE DEF New, Fresh
  <1>6. CASE New = {}
    BY <1>5, <1>6, FleetShrinks
  <1>7. CASE New # {}
    <2>1. Shortfall > 0
      <3> SUFFICES ASSUME Shortfall <= 0  PROVE FALSE
        BY <1>2
      <3> QED  BY <1>1, <1>2, <1>3, <1>7, OldestOfNothing
    <2>2. Vcpus(VcpusOf, tick.seen) = tick.desired - Shortfall
      <3>1. Vcpus(VcpusOf, Reclaimed) < Deficit
        BY <1>1, <1>2, <2>1 DEF Shortfall
      <3>2. Reclaimed = tick.draining
        BY <1>1, <1>2, <3>1, OldestCovers DEF Reclaimed
      <3>3. Active \cap tick.draining = {} /\ Active \cup tick.draining = tick.seen
        BY <1>1 DEF Active
      <3>4. Vcpus(VcpusOf, Active \cup tick.draining) = Vcpus(VcpusOf, Active) + Vcpus(VcpusOf, tick.draining)
        BY <1>1, <1>2, <3>3, VcpusAdd
      <3>5. Vcpus(VcpusOf, tick.seen) = Vcpus(VcpusOf, Active) + Vcpus(VcpusOf, Reclaimed)
        BY <3>2, <3>3, <3>4
      <3>6. Vcpus(VcpusOf, Active) \in Nat
        BY <1>1, <1>2, CpusFinite
      <3>7. Shortfall = tick.desired - Vcpus(VcpusOf, Active) - Vcpus(VcpusOf, Reclaimed)
        BY <1>1 DEF Shortfall, Deficit
      <3> QED  BY <1>2, <3>5, <3>6, <3>7
    <2>3. PICK i \in New : Vcpus(VcpusOf, New \ {i}) < Shortfall
      BY <1>1, <1>2, <1>3, <1>7, OldestOvershoot
    <2> DEFINE Rest == New \ {i}
               Both == Live \cup Rest
    <2>4. Rest \in SUBSET Instances /\ Live \cap Rest = {} /\ Live' \ {i} = Both
      BY <1>3, <1>4, <1>5
    <2>5. Vcpus(VcpusOf, Rest) < Shortfall
      BY <2>3
    <2> HIDE DEF Rest
    <2>6. Vcpus(VcpusOf, Both) = Vcpus(VcpusOf, Live) + Vcpus(VcpusOf, Rest)
      BY <1>1, <1>4, <2>4, VcpusAdd
    <2>7. Vcpus(VcpusOf, Live) <= Vcpus(VcpusOf, tick.seen) /\ Vcpus(VcpusOf, Live) \in Nat /\ Vcpus(VcpusOf, Rest) \in Nat
      BY <1>1, <1>4, <2>4, VcpusMonotone, CpusFinite
    <2> HIDE DEF Both
    <2>8. Vcpus(VcpusOf, Both) < MaxVcpus
      BY <1>1, <1>2, <2>2, <2>5, <2>6, <2>7
    <2>9. i \in Live' /\ Vcpus(VcpusOf, Live' \ {i}) < MaxVcpus
      BY <1>5, <2>4, <2>8
    <2> QED  BY <2>9 DEF FleetBounded
  <1> QED  BY <1>6, <1>7

\* Only the creation adds to the fleet.
LEMMA FleetGrows ==
  ASSUME CapacityInv, [Next]_vars
  PROVE  TickCreate \/ ((exact' => exact) /\ Live' \subseteq Live)
PROOF
  <1>1. TypeOK
    BY DEF CapacityInv
  <1>2. CASE inst' = inst /\ (exact' => exact)
    BY <1>2 DEF Live
  <1>3. CASE TickUncordonStart \/ TickResendStop \/ TickCordonStop
    BY <1>1, <1>3, CommandSent DEF TickUncordonStart, TickResendStop, TickCordonStop, Goto, Live
  <1>4. CASE TickUncordonUntag \/ TickTerminate \/ TickCordonTag
    BY <1>4, FleetStep DEF TickUncordonUntag, TickTerminate, TickCordonTag, Goto, Live
  <1>5. CASE \E i \in Instances : InstanceStep(i)
    BY <1>1, <1>5, InstanceMove DEF Live
  <1>6. CASE \E listed \in SUBSET EverLaunched, size \in Reports : TickList(listed, size)
    <2>1. PICK listed, size : TickList(listed, size)
      BY <1>6
    <2>2. inst' = inst /\ (exact' => exact)
      BY <2>1 DEF TickList
    <2> QED  BY <1>2, <2>2
  <1>7. CASE \/ \E b \in Backlogs : TickStart(b)
             \/ TickTags \/ TickTagsFail \/ TickBusy \/ TickBusyUnknown \/ TickOrbFails \/ TickAbort
             \/ UNCHANGED vars
    <2>1. inst' = inst /\ exact' = exact
      BY <1>7
      DEF TickStart, TickTags, TickTagsFail, TickBusy, TickBusyUnknown, TickOrbFails, TickAbort,
          Goto, vars
    <2> QED  BY <1>2, <2>1
  <1> QED
    BY <1>3, <1>4, <1>5, <1>6, <1>7 DEF Next, TickStep

\* While the status is exact, a tick knows the whole fleet until it creates.
LEMMA ListedStep ==
  ASSUME CapacityInv, FleetIsListed, [Next]_vars
  PROVE  FleetIsListed'
PROOF
  <1>1. tick \in Tick
    BY DEF CapacityInv, TypeOK
  <1>2. CASE TickCreate
    <2>1. tick'.pc = "cordon"
      BY <1>1, <1>2 DEF TickCreate, Goto, Tick
    <2> QED  BY <2>1 DEF FleetIsListed
  <1>3. ASSUME NEW listed \in SUBSET EverLaunched, NEW size \in Reports, TickList(listed, size)
        PROVE  FleetIsListed'
    <2>1. tick'.seen = listed /\ tick'.size = size
      BY <1>1, <1>3 DEF TickList, Tick
    <2>2. exact' => listed = Live /\ size = VcpusOf
      BY <1>3 DEF TickList
    <2>3. Live' = Live
      BY <1>3 DEF TickList, Live
    <2> QED  BY <2>1, <2>2, <2>3 DEF FleetIsListed
  <1>4. CASE ~ TickCreate /\
             ~ \E listed \in SUBSET EverLaunched, size \in Reports : TickList(listed, size)
    <2>1. (exact' => exact) /\ Live' \subseteq Live
      BY <1>4, FleetGrows
    <2>2. \/ tick'.pc \in {"off", "list", "cordon", "stop"}
          \/ /\ tick'.seen = tick.seen
             /\ tick'.size = tick.size
             /\ tick.pc \in {"tags", "busy", "start", "untag", "resend", "terminate", "create"}
          \/ tick' = tick
      <3>1. CASE \E b \in Backlogs : TickStart(b)
        BY <3>1 DEF TickStart, NoTick
      <3>2. CASE TickTags \/ TickBusy
        <4>1. CASE TickTags
          <5>1. tick'.seen = tick.seen /\ tick'.size = tick.size
            BY <1>1, <4>1 DEF TickTags, Tick
          <5> QED  BY <4>1, <5>1 DEF TickTags
        <4>2. CASE TickBusy
          <5>1. tick'.seen = tick.seen /\ tick'.size = tick.size
            BY <1>1, <4>2 DEF TickBusy, Tick
          <5> QED  BY <4>2, <5>1 DEF TickBusy
        <4> QED  BY <3>2, <4>1, <4>2
      <3>3. CASE TickTagsFail \/ TickBusyUnknown \/ TickUncordonStart \/ TickUncordonUntag
                   \/ TickResendStop \/ TickTerminate \/ TickOrbFails
        <4>1. /\ \E p \in Pcs : Goto(p)
              /\ tick.pc \in {"tags", "busy", "start", "untag", "resend", "terminate", "create"}
          BY <3>3
          DEF TickTagsFail, TickBusyUnknown, TickUncordonStart, TickUncordonUntag, TickResendStop,
              TickTerminate, TickOrbFails, Pcs
        <4>2. tick'.seen = tick.seen /\ tick'.size = tick.size
          BY <1>1, <4>1, DecisionsStay
        <4> QED  BY <4>1, <4>2
      <3>4. CASE TickCordonTag \/ TickCordonStop \/ TickAbort
        BY <1>1, <3>4 DEF TickCordonTag, TickCordonStop, TickAbort, Goto, NoTick, Tick
      <3>5. CASE \E i \in Instances : InstanceStep(i)
        BY <3>5, InstanceMove DEF CapacityInv
      <3> QED
        BY <1>4, <3>1, <3>2, <3>3, <3>4, <3>5 DEF Next, TickStep, vars
    <2> QED  BY <2>1, <2>2 DEF FleetIsListed
  <1> QED  BY <1>2, <1>3, <1>4

\* As long as every status was exact, the fleet is over MAX_VCPUS by less than one of
\* its instances, whatever else fails and wherever a tick is interrupted.
THEOREM CapacityFleetBounded == Spec => []FleetBounded
PROOF
  <1>1. Init => FleetInv
    <2> SUFFICES ASSUME Init  PROVE FleetInv
      OBVIOUS
    <2>1. CapacityInv
      BY InitCapacity
    <2>2. Live = {} /\ tick.pc = "off"
      BY DEF Init, Live, NotLaunched, NoTick
    <2> QED  BY <2>1, <2>2 DEF FleetInv, FleetIsListed, FleetBounded
  <1>2. FleetInv /\ [Next]_vars => FleetInv'
    <2> SUFFICES ASSUME FleetInv, [Next]_vars  PROVE FleetInv'
      OBVIOUS
    <2>1. CapacityInv /\ FleetIsListed /\ FleetBounded
      BY DEF FleetInv
    <2>2. CapacityInv'
      BY <2>1, CapacityStep
    <2>3. FleetIsListed'
      BY <2>1, ListedStep
    <2>4. FleetBounded'
      <3>1. CASE TickCreate
        BY <2>1, <3>1, CreateBounded
      <3>2. CASE (exact' => exact) /\ Live' \subseteq Live
        BY <2>1, <3>2, FleetShrinks
      <3> QED  BY <2>1, <3>1, <3>2, FleetGrows
    <2> QED  BY <2>2, <2>3, <2>4 DEF FleetInv
  <1>3. FleetInv => FleetBounded
    BY DEF FleetInv
  <1> QED  BY <1>1, <1>2, <1>3, PTL DEF Spec

===================================================================================
