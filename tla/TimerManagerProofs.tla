------------------------- MODULE TimerManagerProofs -------------------------
(***************************************************************************)
(* Theorems about TimerManager, for any finite set of addresses.           *)
(***************************************************************************)
EXTENDS TimerManager, FiniteSetTheorems, TLAPS

\* Who holds the mutex decides what the others may find: an entry is being
\* added exactly by its holder, and only the scan has places to visit or a
\* connection in its hands.
Discipline ==
    /\ \A a \in Addrs : /\ life[a] = "adding" => mutex = a
                        /\ mutex = a => life[a] = "adding"
                        /\ life[a] = "adding" => a \in connections
                        /\ life[a] = "new" => a \notin connections
    /\ todo # {} => mutex = Scan
    /\ pin # Nobody => mutex = Scan

\* connection_count on its own: it depends on life alone.
Counted == connection_count = Cardinality(Alive)

\* The rest of StatusExact.
Published ==
    /\ mutex = Nobody => connection_object_count = Cardinality(connections)
    /\ connection_count <= max_connection_count
    /\ connection_object_count <= max_connection_object_count

\* TypeOK without the figures, whose types follow from Counted.
Shape ==
    /\ life \in [Addrs -> Life]
    /\ connections \subseteq Addrs /\ todo \subseteq connections
    /\ mutex \in Addrs \cup {Scan, Nobody} /\ pin \in Addrs \cup {Nobody}

Figures ==
    /\ connection_count \in Nat /\ max_connection_count \in Nat
    /\ connection_object_count \in Nat /\ max_connection_object_count \in Nat

Inv == Shape /\ Figures /\ Discipline /\ Registered /\ PinHolds /\ Counted /\ Published

-----------------------------------------------------------------------------
(* The map, the mutex and the lives: no figures.                           *)

\* Destroying an object that has no entry in anybody's hands.
LEMMA DestroyLife ==
    ASSUME NEW a \in Addrs, destroy(a)
    PROVE  life' = [life EXCEPT ![a] = "raw"]
BY DEF destroy

\* Shape and the three properties about the map survive every step.
LEMMA StepMap ==
    ASSUME Shape, Discipline, Registered, PinHolds, Next
    PROVE  Shape' /\ Discipline' /\ Registered' /\ PinHolds'
<1> USE AddrsAssumption DEF Shape, Discipline, Registered, PinHolds, Life
<1>1. ASSUME NEW a \in Addrs, construct(a)
      PROVE  Shape' /\ Discipline' /\ Registered' /\ PinHolds'
  BY <1>1 DEF construct
<1>2. ASSUME NEW a \in Addrs, accept_failed(a)
      PROVE  Shape' /\ Discipline' /\ Registered' /\ PinHolds'
  BY <1>2, DestroyLife DEF accept_failed
<1>3. ASSUME NEW a \in Addrs, release(a)
      PROVE  Shape' /\ Discipline' /\ Registered' /\ PinHolds'
  BY <1>3, DestroyLife DEF release
<1>4. ASSUME NEW a \in Addrs, add_insert(a)
      PROVE  Shape' /\ Discipline' /\ Registered' /\ PinHolds'
  BY <1>4 DEF add_insert
<1>5. ASSUME NEW a \in Addrs, add_publish(a)
      PROVE  Shape' /\ Discipline' /\ Registered' /\ PinHolds'
  BY <1>5 DEF add_publish
<1>6. CASE scan_begin
  BY <1>6 DEF scan_begin
<1>7. ASSUME NEW a \in Addrs, scan_lock(a)
      PROVE  Shape' /\ Discipline' /\ Registered' /\ PinHolds'
  BY <1>7 DEF scan_lock
<1>8. ASSUME NEW a \in Addrs, scan_erase(a)
      PROVE  Shape' /\ Discipline' /\ Registered' /\ PinHolds'
  BY <1>8 DEF scan_erase
<1>9. ASSUME NEW a \in Addrs, scan_unlock(a)
      PROVE  Shape' /\ Discipline' /\ Registered' /\ PinHolds'
  BY <1>9, DestroyLife DEF scan_unlock
<1>10. CASE scan_end
  BY <1>10 DEF scan_end
<1> QED
  BY <1>1, <1>2, <1>3, <1>4, <1>5, <1>6, <1>7, <1>8, <1>9, <1>10 DEF Next, ScanStep

-----------------------------------------------------------------------------
(* The number of Connection objects.                                       *)

\* A set of addresses has a cardinality; one more object is one more, one
\* object less is one less, and an object that exists counts.
LEMMA AliveCount ==
    ASSUME NEW S \in SUBSET Addrs, NEW a \in Addrs
    PROVE  /\ Cardinality(S) \in Nat
           /\ a \notin S => Cardinality(S \cup {a}) = Cardinality(S) + 1
           /\ a \in S => /\ Cardinality(S \ {a}) = Cardinality(S) - 1
                         /\ Cardinality(S) > 0
<1>1. IsFiniteSet(S)
  BY FS_Subset, AddrsAssumption
<1>2. Cardinality(S) \in Nat
  BY <1>1, FS_CardinalityType
<1>3. a \notin S => Cardinality(S \cup {a}) = Cardinality(S) + 1
  BY <1>1, FS_AddElement
<1>4. a \in S => Cardinality(S \ {a}) = Cardinality(S) - 1
  BY <1>1, FS_RemoveElement
<1>5. a \in S => Cardinality(S) # 0
  BY <1>1, FS_EmptySet
<1> QED
  BY <1>2, <1>3, <1>4, <1>5

\* The figures keep their types and connection_count stays exact when an
\* object is constructed ...
LEMMA ConstructCounts ==
    ASSUME Shape, Figures, Counted, NEW a \in Addrs, construct(a)
    PROVE  Figures' /\ Counted'
<1>1. Alive' = Alive \cup {a} /\ a \notin Alive
  BY DEF Shape, Alive, construct
<1>2. Figures'
  BY DEF Figures, construct, increment_connection_count
<1>3. Cardinality(Alive \cup {a}) = Cardinality(Alive) + 1
  <2>1. Alive \in SUBSET Addrs
    BY DEF Alive
  <2> QED
    BY <1>1, <2>1, AliveCount
<1>4. connection_count' = connection_count + 1
  BY DEF construct, increment_connection_count
<1> QED
  BY <1>1, <1>2, <1>3, <1>4 DEF Counted

\* ... when one is destroyed, wherever that happens ...
LEMMA DestroyCounts ==
    ASSUME Shape, Figures, Counted, NEW a \in Addrs, life[a] # "raw", destroy(a)
    PROVE  Figures' /\ Counted'
<1>1. Alive' = Alive \ {a} /\ a \in Alive
  BY DEF Shape, Alive, destroy
<1>2. /\ Cardinality(Alive \ {a}) = Cardinality(Alive) - 1
      /\ Cardinality(Alive) > 0 /\ Cardinality(Alive) \in Nat
  <2>1. Alive \in SUBSET Addrs
    BY DEF Alive
  <2> QED
    BY <1>1, <2>1, AliveCount
<1>3. connection_count' = connection_count - 1
  BY DEF destroy, decrement_connection_count
<1>4. Counted'
  BY <1>1, <1>2, <1>3 DEF Counted
<1>5. connection_count' \in Nat
  BY <1>2, <1>3 DEF Counted
<1>6. Figures'
  BY <1>5 DEF Figures, destroy, decrement_connection_count
<1> QED
  BY <1>4, <1>6

\* ... and when a step leaves the set of objects and their count alone.
LEMMA SameAliveCounts ==
    ASSUME Counted, Alive' = Alive, UNCHANGED connection_count
    PROVE  Counted'
BY DEF Counted

\* Publishing the size of the map keeps the types and brings the figure up
\* to date.
LEMMA PublishCounts ==
    ASSUME Shape, Figures, Published, UNCHANGED connections,
           set_connection_object_count(Cardinality(connections))
    PROVE  Figures' /\ Published' /\ UNCHANGED connection_count
<1>1. Cardinality(connections) \in Nat
  BY FS_Subset, FS_CardinalityType, AddrsAssumption DEF Shape
<1> QED
  BY <1>1 DEF Figures, Published, set_connection_object_count

\* The figures survive every step.
LEMMA StepFigures ==
    ASSUME Shape, Figures, Discipline, PinHolds, Counted, Published, Next
    PROVE  Figures' /\ Counted' /\ Published'
<1>1. ASSUME NEW a \in Addrs, construct(a)
      PROVE  Figures' /\ Counted' /\ Published'
  <2>1. Published'
    BY <1>1 DEF Figures, Published, construct, increment_connection_count
  <2> QED
    BY <1>1, <2>1, ConstructCounts
<1>2. ASSUME NEW a \in Addrs, life[a] # "raw", destroy(a), UNCHANGED connections,
             UNCHANGED mutex
      PROVE  Figures' /\ Counted' /\ Published'
  <2>1. Published'
    BY <1>2 DEF Figures, Published, destroy, decrement_connection_count
  <2> QED
    BY <1>2, <2>1, DestroyCounts
<1>3. ASSUME NEW a \in Addrs, accept_failed(a)
      PROVE  Figures' /\ Counted' /\ Published'
  BY <1>2, <1>3 DEF accept_failed
<1>4. ASSUME NEW a \in Addrs, release(a)
      PROVE  Figures' /\ Counted' /\ Published'
  <2>1. CASE pin = a
    <3>1. Alive' = Alive
      BY <1>4, <2>1 DEF release, Shape, Alive
    <3>2. Figures' /\ Published' /\ UNCHANGED connection_count
      BY <1>4, <2>1 DEF release, status, Figures, Published
    <3> QED
      BY <3>1, <3>2, SameAliveCounts
  <2>2. CASE pin # a
    BY <1>2, <1>4, <2>2 DEF release
  <2> QED
    BY <2>1, <2>2
<1>5. ASSUME NEW a \in Addrs, add_insert(a)
      PROVE  Figures' /\ Counted' /\ Published'
  <2>1. Alive' = Alive
    BY <1>5 DEF add_insert, Shape, Alive
  <2>2. Figures' /\ Published' /\ UNCHANGED connection_count
    BY <1>5, AddrsAssumption DEF add_insert, status, Figures, Published
  <2> QED
    BY <2>1, <2>2, SameAliveCounts
<1>6. ASSUME NEW a \in Addrs, add_publish(a)
      PROVE  Figures' /\ Counted' /\ Published'
  <2>1. Alive' = Alive
    BY <1>6 DEF add_publish, Shape, Alive
  <2>2. Figures' /\ Published' /\ UNCHANGED connection_count
    BY <1>6, PublishCounts DEF add_publish
  <2> QED
    BY <2>1, <2>2, SameAliveCounts
<1>7. CASE scan_begin
  <2>1. Alive' = Alive /\ UNCHANGED connection_count
    BY <1>7 DEF scan_begin, Alive, status
  <2>2. Figures' /\ Published'
    BY <1>7, AddrsAssumption DEF scan_begin, status, Figures, Published
  <2> QED
    BY <2>1, <2>2, SameAliveCounts
<1>8. ASSUME NEW a \in Addrs, scan_lock(a)
      PROVE  Figures' /\ Counted' /\ Published'
  BY <1>8 DEF scan_lock, status, Figures, Published, Counted, Alive
<1>9. ASSUME NEW a \in Addrs, scan_erase(a)
      PROVE  Figures' /\ Counted' /\ Published'
  <2>1. Alive' = Alive /\ UNCHANGED connection_count
    BY <1>9 DEF scan_erase, Alive, status
  <2>2. Figures' /\ Published'
    BY <1>9, AddrsAssumption DEF scan_erase, status, Figures, Published
  <2> QED
    BY <2>1, <2>2, SameAliveCounts
<1>10. ASSUME NEW a \in Addrs, scan_unlock(a)
       PROVE  Figures' /\ Counted' /\ Published'
  <2>1. CASE life[a] = "dropped"
    BY <1>2, <1>10, <2>1 DEF scan_unlock
  <2>2. CASE life[a] # "dropped"
    BY <1>10, <2>2 DEF scan_unlock, status, Figures, Published, Counted, Alive
  <2> QED
    BY <2>1, <2>2
<1>11. CASE scan_end
  <2>1. Alive' = Alive
    BY <1>11 DEF scan_end, Alive
  <2>2. Figures' /\ Published' /\ UNCHANGED connection_count
    BY <1>11, PublishCounts DEF scan_end
  <2> QED
    BY <2>1, <2>2, SameAliveCounts
<1> QED
  BY <1>1, <1>3, <1>4, <1>5, <1>6, <1>7, <1>8, <1>9, <1>10, <1>11 DEF Next, ScanStep

-----------------------------------------------------------------------------
(* The theorems.                                                           *)

\* The process starts without connections.
LEMMA InitInv ==
    ASSUME Init
    PROVE  Inv
<1>1. Alive = {} /\ Cardinality({}) = 0
  BY FS_EmptySet DEF Init, Alive
<1>2. Shape /\ Discipline /\ Registered /\ PinHolds
  BY AddrsAssumption DEF Init, Shape, Life, Discipline, Registered, PinHolds
<1>3. Figures /\ Counted /\ Published
  BY <1>1 DEF Init, Figures, Counted, Published
<1> QED
  BY <1>2, <1>3 DEF Inv

\* Inv is inductive.
LEMMA StepInv ==
    ASSUME Inv, [Next]_vars
    PROVE  Inv'
<1>1. CASE Next
  BY <1>1, StepMap, StepFigures DEF Inv
<1>2. CASE UNCHANGED vars
  BY <1>2 DEF vars, status, Inv, Shape, Figures, Discipline, Registered, PinHolds,
              Counted, Published, Alive
<1> QED
  BY <1>1, <1>2

\* Inv holds in every reachable state.
LEMMA Invariance == Spec => []Inv
BY InitInv, StepInv, PTL DEF Spec

\* The map holds addresses, the scan's iterator points into the map, and no
\* figure becomes negative: what timer_manager.cpp and server_status.h keep
\* has its type, for any number of connections.
THEOREM TypesKept == Spec => []TypeOK
<1>1. Inv => TypeOK
  BY DEF Inv, Shape, Figures, TypeOK
<1> QED
  BY <1>1, Invariance, PTL

\* ServerStatus's connection_count is the number of Connection objects at
\* every moment, connection_object_count the size of connections_ whenever
\* mutex_ is free, and the peaks bound both.
THEOREM FiguresExact == Spec => []StatusExact
<1>1. Inv => StatusExact
  BY DEF Inv, Counted, Published, StatusExact
<1> QED
  BY <1>1, Invariance, PTL

\* A started connection is in connections_ until it is destroyed: the scan
\* erases only entries whose weak_ptr has expired.
THEOREM StartedIsRegistered == Spec => []Registered
<1>1. Inv => Registered
  BY DEF Inv
<1> QED
  BY <1>1, Invariance, PTL

\* The connection in the scan's hands is not destroyed by another thread,
\* and one that only the scan keeps alive is in its hands.
THEOREM ScanPins == Spec => []PinHolds
<1>1. Inv => PinHolds
  BY DEF Inv
<1> QED
  BY <1>1, Invariance, PTL
=============================================================================
