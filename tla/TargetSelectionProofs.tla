------------------------ MODULE TargetSelectionProofs ------------------------
(***************************************************************************)
(* The rotation of GetNextTarget is even for every number of listeners and *)
(* targets.                                                                *)
(***************************************************************************)
EXTENDS TargetSelection, TLAPS

-----------------------------------------------------------------------------
(***************************************************************************)
(* Arithmetic: the remainder of a number and of its successor.             *)
(***************************************************************************)
LEMMA RemainderUnique ==
    ASSUME NEW n \in Nat \ {0}, NEW p \in Int, NEW q \in Int,
           NEW r \in 0..(n - 1), NEW s \in 0..(n - 1), n * p + r = n * q + s
    PROVE  r = s
  <1>1. n * (p - q) = s - r
    OBVIOUS
  <1>2. s - r < n /\ s - r > -n
    OBVIOUS
  <1>3. CASE p - q >= 1
    <2>1. n * (p - q) >= n
      BY <1>3
    <2> QED
      BY <1>1, <1>2, <2>1
  <1>4. CASE p - q <= -1
    <2>1. n * (p - q) <= -n
      BY <1>4
    <2> QED
      BY <1>1, <1>2, <2>1
  <1>5. CASE p = q
    BY <1>1, <1>5
  <1> QED
    BY <1>3, <1>4, <1>5

LEMMA RemainderStep ==
    ASSUME NEW n \in Nat \ {0}, NEW p \in Int, NEW q \in Int,
           NEW r \in 0..(n - 1), NEW s \in 0..(n - 1), n * p + r + 1 = n * q + s
    PROVE  s = IF r = n - 1 THEN 0 ELSE r + 1
  <1>1. CASE r = n - 1
    <2>1. n * (p + 1) + 0 = n * q + s
      BY <1>1
    <2> QED
      BY <1>1, <2>1, RemainderUnique
  <1>2. CASE r # n - 1
    <2>1. r + 1 \in 0..(n - 1)
      BY <1>2
    <2>2. n * p + (r + 1) = n * q + s
      OBVIOUS
    <2> QED
      BY <1>2, <2>1, <2>2, RemainderUnique
  <1> QED
    BY <1>1, <1>2

LEMMA Division ==
    ASSUME NEW k \in Nat, NEW n \in Nat \ {0}
    PROVE  \E q \in Int : k % n \in 0..(n - 1) /\ k = n * q + (k % n)
  <1>1. k % n \in 0..(n - 1)
    OBVIOUS
  <1>2. k \div n \in Int
    OBVIOUS
  <1>3. k = n * (k \div n) + (k % n)
    OBVIOUS
  <1> QED
    BY <1>1, <1>2, <1>3

LEMMA ModStep ==
    ASSUME NEW k \in Nat, NEW n \in Nat \ {0}
    PROVE  /\ k % n \in 0..(n - 1)
           /\ (k + 1) % n = IF k % n = n - 1 THEN 0 ELSE (k % n) + 1
  <1>1. PICK p \in Int, r \in 0..(n - 1) : k = n * p + r /\ r = k % n
    BY Division
  <1>2. k + 1 \in Nat
    OBVIOUS
  <1>3. PICK q \in Int, s \in 0..(n - 1) : k + 1 = n * q + s /\ s = (k + 1) % n
    BY <1>2, Division
  <1>4. n * p + r + 1 = n * q + s
    BY <1>1, <1>3
  <1>5. s = IF r = n - 1 THEN 0 ELSE r + 1
    BY <1>4, RemainderStep
  <1> QED
    BY <1>1, <1>3, <1>5

-----------------------------------------------------------------------------
LEMMA BackendOf == ASSUME NEW l \in Listener, NEW i \in Target(l) PROVE <<l, i>> \in Backend
  BY DEF Backend

LEMMA PositionIsTarget ==
    ASSUME TypeOK, NEW l \in Listener
    PROVE  /\ Position(l) \in Target(l)
           /\ Size[l] - 1 \in Target(l)
  <1>1. roundRobinIndex[NameOf[l]] \in Nat /\ Size[l] \in Nat \ {0}
    BY RulesAssumption DEF TypeOK, Name
  <1>2. Position(l) \in 0..(Size[l] - 1)
    BY <1>1, ModStep DEF Position
  <1>3. Size[l] - 1 \in 0..(Size[l] - 1)
    BY <1>1
  <1> QED
    BY <1>2, <1>3 DEF Target

LEMMA InitType == Init => TypeOK
  <1> SUFFICES ASSUME Init PROVE TypeOK
    OBVIOUS
  <1>1. /\ listenerRules \subseteq Listener
        /\ inserting \in (Listener \ listenerRules) \cup {None}
        /\ refused \subseteq Listener
        /\ crashed \in BOOLEAN
    BY DEF Init
  <1>2. /\ pc \in [Listener -> {"idle", "accept", "find", "pick", "connect"}]
        /\ \A l \in Listener : pc[l] = "idle" <=> l \notin listenerRules
        /\ target \in [Listener -> Backend \cup {None}]
        /\ \A l \in Listener : target[l] # None <=> pc[l] = "connect"
    BY DEF Init
  <1>3. /\ roundRobinIndex \in [Name -> Nat]
        /\ picks \in [Backend -> Nat]
        /\ active \in [Backend -> Nat]
    BY DEF Init
  <1> QED
    BY <1>1, <1>2, <1>3 DEF TypeOK

LEMMA NextType == TypeOK /\ [Next]_vars => TypeOK'
  <1> SUFFICES ASSUME TypeOK, [Next]_vars PROVE TypeOK'
    OBVIOUS
  <1> USE RulesAssumption
  <1>1. ASSUME NEW l \in Listener,
               BeginRegister(l) \/ EndRegister(l) \/ Accept(l) \/ FindRule(l),
               UNCHANGED crashed
        PROVE  TypeOK'
    <2>1. CASE BeginRegister(l)
      BY <1>1, <2>1 DEF TypeOK, BeginRegister
    <2>2. CASE EndRegister(l)
      BY <1>1, <2>2 DEF TypeOK, EndRegister
    <2>3. CASE Accept(l)
      BY <1>1, <2>3 DEF TypeOK, Accept
    <2>4. CASE FindRule(l)
      BY <1>1, <2>4 DEF TypeOK, FindRule, Refuse
    <2> QED
      BY <1>1, <2>1, <2>2, <2>3, <2>4
  <1>2. ASSUME NEW l \in Listener, GetNextTarget(l), UNCHANGED crashed PROVE TypeOK'
    <2>1. CASE Missed /\ Refuse(l)
      BY <1>2, <2>1 DEF TypeOK, GetNextTarget, Refuse
    <2>2. ASSUME NEW r \in Named(l),
                 target' = [target EXCEPT ![l] = <<r, Position(r)>>],
                 picks' = [picks EXCEPT ![<<r, Position(r)>>] = @ + 1],
                 roundRobinIndex' = [roundRobinIndex EXCEPT ![NameOf[l]] = @ + 1],
                 pc' = [pc EXCEPT ![l] = "connect"],
                 UNCHANGED <<refused, listenerRules, inserting, active>>
          PROVE  TypeOK'
      <3>1. <<r, Position(r)>> \in Backend
        BY PositionIsTarget, BackendOf DEF Named, TypeOK
      <3>2. l \in listenerRules
        BY <1>2 DEF TypeOK, GetNextTarget
      <3>3. roundRobinIndex' \in [Name -> Nat] /\ picks' \in [Backend -> Nat]
        BY <2>2, <3>1 DEF TypeOK, Name
      <3>4. /\ target' \in [Listener -> Backend \cup {None}]
            /\ \A m \in Listener : target'[m] # None <=> pc'[m] = "connect"
        BY <2>2, <3>1 DEF TypeOK
      <3> QED
        BY <1>2, <2>2, <3>2, <3>3, <3>4 DEF TypeOK
    <2> QED
      BY <1>2, <2>1, <2>2 DEF GetNextTarget
  <1>3. ASSUME NEW l \in Listener, ConnectFailed(l) \/ Connected(l), UNCHANGED crashed
        PROVE  TypeOK'
    BY <1>3 DEF TypeOK, ConnectFailed, Connected
  <1>4. ASSUME NEW b \in Backend, Disconnect(b), UNCHANGED crashed PROVE TypeOK'
    BY <1>4 DEF TypeOK, Disconnect
  <1>6. ASSUME NEW l \in Listener, Crash(l) PROVE TypeOK'
    BY <1>6 DEF TypeOK, Crash
  <1>5. CASE UNCHANGED vars
    BY <1>5 DEF TypeOK, vars
  <1> QED
    BY <1>1, <1>2, <1>3, <1>4, <1>5, <1>6 DEF Next, Run

\* Every reachable state is well typed.
THEOREM TypeCorrect == Spec => []TypeOK
  BY InitType, NextType, PTL DEF Spec

-----------------------------------------------------------------------------
(***************************************************************************)
(* Rotation is inductive when names are unique: a pick raises the count at *)
(* the current position and moves the position on by one, or back to the   *)
(* start after the last target.                                            *)
(***************************************************************************)
LEMMA InitRotation == Init => Rotation
  <1> SUFFICES ASSUME Init PROVE Rotation
    OBVIOUS
  <1>1. TypeOK
    BY InitType
  <1>2. ASSUME NEW l \in Listener, NEW i \in Target(l)
        PROVE  picks[<<l, i>>] = picks[<<l, Size[l] - 1>>] + IF i < Position(l) THEN 1 ELSE 0
    <2>1. picks[<<l, i>>] = 0 /\ picks[<<l, Size[l] - 1>>] = 0
      BY <1>1, BackendOf, PositionIsTarget DEF Init
    <2>2. 0 % Size[l] = 0
      BY RulesAssumption
    <2>3. Position(l) = 0
      BY <2>2 DEF Position, Init, Name
    <2> QED
      BY <2>1, <2>3, RulesAssumption DEF Target
  <1> QED
    BY <1>2 DEF Rotation

LEMMA PickRotation ==
    ASSUME TypeOK, Rotation, UniqueNames, NEW r \in Listener,
           picks' = [picks EXCEPT ![<<r, Position(r)>>] = @ + 1],
           roundRobinIndex' = [roundRobinIndex EXCEPT ![NameOf[r]] = @ + 1],
           NEW l \in Listener, NEW i \in Target(l)
    PROVE  (picks[<<l, i>>])' = (picks[<<l, Size[l] - 1>>])' + IF i < Position(l)' THEN 1 ELSE 0
  <1> DEFINE k == roundRobinIndex[NameOf[l]]
             n == Size[l]
             last == picks[<<l, n - 1>>]
  <1>1. /\ k \in Nat
        /\ n \in Nat \ {0}
        /\ i \in 0..(n - 1)
        /\ n - 1 \in Target(l)
    BY RulesAssumption DEF TypeOK, Name, Target
  <1>2. /\ picks[<<l, i>>] \in Nat
        /\ last \in Nat
    BY <1>1, BackendOf DEF TypeOK
  <1>3. picks[<<l, i>>] = last + IF i < k % n THEN 1 ELSE 0
    BY DEF Rotation, Position
  <1>4. CASE l = r
    <2>1. Position(l)' = (k + 1) % n
      BY <1>4 DEF Position, TypeOK, Name
    <2>2. (picks[<<l, i>>])' = picks[<<l, i>>] + IF i = k % n THEN 1 ELSE 0
      BY <1>4, BackendOf DEF TypeOK, Position
    <2>3. (picks[<<l, n - 1>>])' = last + IF n - 1 = k % n THEN 1 ELSE 0
      BY <1>1, <1>4, BackendOf DEF TypeOK, Position
    <2>4. /\ k % n \in 0..(n - 1)
          /\ (k + 1) % n = IF k % n = n - 1 THEN 0 ELSE (k % n) + 1
      BY <1>1, ModStep
    <2> HIDE DEF k, n, last
    <2>5. CASE k % n = n - 1
      BY <1>1, <1>2, <1>3, <2>1, <2>2, <2>3, <2>4, <2>5 DEF n
    <2>6. CASE k % n # n - 1
      BY <1>1, <1>2, <1>3, <2>1, <2>2, <2>3, <2>4, <2>6 DEF n
    <2> QED
      BY <2>5, <2>6
  <1>5. CASE l # r
    <2>1. NameOf[l] # NameOf[r]
      BY <1>5 DEF UniqueNames
    <2>2. Position(l)' = k % n
      BY <2>1 DEF Position, TypeOK, Name
    <2>3. (picks[<<l, i>>])' = picks[<<l, i>>] /\ (picks[<<l, n - 1>>])' = last
      BY <1>1, <1>5, BackendOf DEF TypeOK
    <2> QED
      BY <1>3, <2>2, <2>3
  <1> QED
    BY <1>4, <1>5

LEMMA NextRotation == TypeOK /\ Rotation /\ UniqueNames /\ [Next]_vars => Rotation'
  <1> SUFFICES ASSUME TypeOK, Rotation, UniqueNames, [Next]_vars PROVE Rotation'
    OBVIOUS
  <1>1. CASE UNCHANGED <<picks, roundRobinIndex>>
    BY <1>1 DEF Rotation, Position
  <1>2. ASSUME NEW l \in Listener, NEW r \in Named(l),
               picks' = [picks EXCEPT ![<<r, Position(r)>>] = @ + 1],
               roundRobinIndex' = [roundRobinIndex EXCEPT ![NameOf[l]] = @ + 1]
        PROVE  Rotation'
    <2>1. r \in Listener /\ NameOf[r] = NameOf[l]
      BY DEF Named, TypeOK
    <2>2. \A m \in Listener : \A i \in Target(m) :
            (picks[<<m, i>>])' = (picks[<<m, Size[m] - 1>>])' + IF i < Position(m)' THEN 1 ELSE 0
      BY <1>2, <2>1, PickRotation
    <2> QED
      BY <2>2 DEF Rotation
  <1> QED
    BY <1>1, <1>2 DEF Next, Run, vars, BeginRegister, EndRegister, Accept, FindRule,
                      GetNextTarget, Refuse, ConnectFailed, Connected, Disconnect, Crash

LEMMA RotationIsEven == TypeOK /\ Rotation => EvenlyDistributed
  <1> SUFFICES ASSUME TypeOK, Rotation, NEW l \in Listener, NEW i \in Target(l), NEW j \in Target(l)
               PROVE  picks[<<l, i>>] <= picks[<<l, j>>] + 1
    BY DEF EvenlyDistributed
  <1>1. picks[<<l, i>>] \in Nat /\ picks[<<l, j>>] \in Nat /\ picks[<<l, Size[l] - 1>>] \in Nat
    BY BackendOf, PositionIsTarget DEF TypeOK
  <1>2. /\ picks[<<l, i>>] = picks[<<l, Size[l] - 1>>] + IF i < Position(l) THEN 1 ELSE 0
        /\ picks[<<l, j>>] = picks[<<l, Size[l] - 1>>] + IF j < Position(l) THEN 1 ELSE 0
    BY DEF Rotation
  <1> QED
    BY <1>1, <1>2

\* With unique names, the targets of each rule take turns at any moment
\* (iocp.cpp:225), for any number of listeners and any sizes of their lists.
THEOREM TakesTurns == UniqueNames => (Spec => []Rotation)
  <1> SUFFICES ASSUME UniqueNames PROVE Spec => []Rotation
    OBVIOUS
  <1>1. Init => TypeOK /\ Rotation
    BY InitType, InitRotation
  <1>2. TypeOK /\ Rotation /\ [Next]_vars => (TypeOK /\ Rotation)'
    BY NextType, NextRotation
  <1> QED
    BY <1>1, <1>2, PTL DEF Spec

\* With unique names, no target of a rule is ever chosen two times more than
\* another, for any number of listeners and any sizes of their target lists.
THEOREM Even == Spec => []EvenlyDistributed
  <1>1. CASE UniqueNames
    <2>1. Spec => []Rotation
      BY <1>1, TakesTurns
    <2>2. TypeOK /\ Rotation => EvenlyDistributed
      BY RotationIsEven
    <2> QED
      BY <2>1, <2>2, TypeCorrect, PTL
  <1>2. CASE ~UniqueNames
    <2>1. EvenlyDistributed
      BY <1>2 DEF EvenlyDistributed
    <2> QED
      BY <2>1, PTL
  <1> QED
    BY <1>1, <1>2
-----------------------------------------------------------------------------
(***************************************************************************)
(* A client goes to a target of the listener it came to, and is turned     *)
(* away only while the main thread registers another listener.             *)
(***************************************************************************)
LEMMA NextOwnTarget == TypeOK /\ OwnTarget /\ [Next]_vars => OwnTarget'
  <1> SUFFICES ASSUME TypeOK, UniqueNames => \A l \in Listener : target[l] # None => target[l][1] = l,
                      [Next]_vars, UniqueNames, NEW m \in Listener, target'[m] # None
               PROVE  target'[m][1] = m
    BY DEF OwnTarget, UniqueNames
  <1>1. ASSUME target'[m] = target[m] PROVE target'[m][1] = m
    BY <1>1
  <1>2. ASSUME NEW l \in Listener, GetNextTarget(l) PROVE target'[m][1] = m
    <2>1. CASE Missed /\ Refuse(l)
      BY <1>1, <2>1 DEF Refuse
    <2>2. ASSUME NEW r \in Named(l), target' = [target EXCEPT ![l] = <<r, Position(r)>>]
          PROVE  target'[m][1] = m
      <3>1. r = l
        BY DEF Named, TypeOK, UniqueNames
      <3>2. CASE m = l
        BY <2>2, <3>1, <3>2 DEF TypeOK
      <3>3. CASE m # l
        BY <1>1, <2>2, <3>3 DEF TypeOK
      <3> QED
        BY <3>2, <3>3
    <2> QED
      BY <1>2, <2>1, <2>2 DEF GetNextTarget
  <1>3. ASSUME NEW l \in Listener, FindRule(l) \/ ConnectFailed(l) \/ Connected(l)
        PROVE  target'[m] = target[m]
    <2>1. CASE m = l
      BY <1>3, <2>1 DEF FindRule, Refuse, ConnectFailed, Connected, TypeOK
    <2>2. CASE m # l
      BY <1>3, <2>2 DEF FindRule, Refuse, ConnectFailed, Connected, TypeOK
    <2> QED
      BY <2>1, <2>2
  <1> QED
    BY <1>1, <1>2, <1>3 DEF Next, Run, vars, BeginRegister, EndRegister, Accept, Disconnect,
                            Crash

\* GetNextTarget finds by name the rule that HandleAccept found by socket
\* (iocp.cpp:214, 321), for any listeners with unique names.
THEOREM OwnRule == Spec => []OwnTarget
  <1>1. Init => OwnTarget
    BY DEF Init, OwnTarget
  <1> QED
    BY <1>1, NextOwnTarget, TypeCorrect, PTL DEF Spec

LEMMA NextRefused == TypeOK /\ RefusedForAnother /\ [Next]_vars => RefusedForAnother'
  <1> SUFFICES ASSUME TypeOK, RefusedForAnother, [Next]_vars, NEW l \in refused'
               PROVE  \E m \in Listener \ {l} : m \in listenerRules' \/ m = inserting'
    BY DEF RefusedForAnother
  <1>1. \A m \in Listener : m \in listenerRules \/ m = inserting
            => m \in listenerRules' \/ m = inserting'
    BY RulesAssumption DEF Next, Run, vars, BeginRegister, EndRegister, Accept, FindRule,
           GetNextTarget, ConnectFailed, Connected, Disconnect, Crash
  <1>2. CASE l \in refused
    <2>1. PICK m \in Listener \ {l} : m \in listenerRules \/ m = inserting
      BY <1>2 DEF RefusedForAnother
    <2> QED
      BY <1>1, <2>1
  <1>3. CASE l \notin refused
    <2>1. PICK k \in Listener : FindRule(k) \/ GetNextTarget(k)
      BY <1>3 DEF Next, Run, vars, BeginRegister, EndRegister, Accept, ConnectFailed,
                  Connected, Disconnect, Crash
    <2>2. Missed /\ Refuse(k)
      BY <1>3, <2>1 DEF FindRule, GetNextTarget
    <2>3. k = l
      BY <1>3, <2>2 DEF Refuse
    <2>4. pc[l] \in {"find", "pick"} /\ inserting' = inserting
      BY <2>1, <2>3 DEF FindRule, GetNextTarget
    <2>5. l \in listenerRules
      BY <2>3, <2>4 DEF TypeOK
    <2>6. inserting \in Listener \ {l}
      BY <2>2, <2>5 DEF TypeOK, Missed
    <2> QED
      BY <2>4, <2>6
  <1> QED
    BY <1>2, <1>3

\* For any number of listeners, a client is turned away for lack of a target
\* only after, or while, another listener is registered (iocp.cpp:85, 327).
THEOREM RefusedOnlyForAnother == Spec => []RefusedForAnother
  <1>1. Init => RefusedForAnother
    BY DEF Init, RefusedForAnother
  <1> QED
    BY <1>1, NextRefused, TypeCorrect, PTL DEF Spec
=============================================================================
