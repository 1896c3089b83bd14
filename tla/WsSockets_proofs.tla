-------------------------- MODULE WsSockets_proofs --------------------------
(***************************************************************************)
(* Theorems about WsSockets, for any number of sockets, failures and       *)
(* vanishings.                                                             *)
(***************************************************************************)
EXTENDS WsSockets, TLAPS

\* The two devices are each other's peer.
LEMMA OtherFacts ==
  \A d \in Devices : Other(d) \in Devices /\ Other(d) # d /\ Other(Other(d)) = d
  BY DEF Devices, Other

\* No socket is open at the start.
LEMMA TypeInit == Init => TypeOK
  BY FaultAssumption DEF Init, TypeOK, Both

\* Every step keeps the types.
LEMMA TypeStep == TypeOK /\ [Next]_vars => TypeOK'
<1> SUFFICES ASSUME TypeOK, [Next]_vars PROVE TypeOK' OBVIOUS
<1> USE DEF TypeOK
<1>1. ASSUME NEW d \in Devices, NEW s \in Sockets, Dial(d, s) PROVE TypeOK'
  BY <1>1 DEF Dial, Both
<1>2. ASSUME NEW d \in Devices, NEW s \in Sockets, ReadHello(d, s) PROVE TypeOK'
  <2>2. hello' \in [Sockets -> [Devices -> BOOLEAN]] BY <1>2 DEF ReadHello
  <2>3. end' \in [Sockets -> [Devices -> {"over", "open", "reg"}]]
    <3>1. PICK v \in {"over", "reg"} : end' = [end EXCEPT ![s][d] = v] BY <1>2 DEF ReadHello
    <3> QED BY <3>1
  <2>4. slot' \in [Devices -> Sockets \cup {None}] BY <1>2 DEF ReadHello
  <2>5. fin' \in [Sockets -> [Devices -> BOOLEAN]]
    <3>1. CASE slot[d] = None BY <1>2, <3>1 DEF ReadHello
    <3>2. CASE slot[d] # None
      <4>1. PICK f \in [Devices -> BOOLEAN] : fin' = [fin EXCEPT ![s] = f] BY <1>2, <3>2 DEF ReadHello
      <4> QED BY <4>1
    <3> QED BY <3>1, <3>2
  <2>6. UNCHANGED <<failed, vanished>> BY <1>2 DEF ReadHello
  <2> QED BY <2>2, <2>3, <2>4, <2>5, <2>6
<1>3. ASSUME NEW d \in Devices, NEW s \in Sockets, Leave(d, s)
      PROVE  /\ end' \in [Sockets -> [Devices -> {"over", "open", "reg"}]]
             /\ hello' \in [Sockets -> [Devices -> BOOLEAN]]
             /\ fin' \in [Sockets -> [Devices -> BOOLEAN]]
             /\ slot' \in [Devices -> Sockets \cup {None}]
  BY <1>3 DEF Leave
<1>4. ASSUME NEW d \in Devices, NEW s \in Sockets, ReadEnd(d, s) PROVE TypeOK'
  BY <1>3, <1>4 DEF ReadEnd
<1>5. ASSUME NEW d \in Devices, NEW s \in Sockets, Fail(d, s) PROVE TypeOK'
  BY <1>3, <1>5, FaultAssumption DEF Fail
<1>6. ASSUME NEW d \in Devices, Vanish(d) PROVE TypeOK'
  BY <1>6, FaultAssumption DEF Vanish
<1>7. CASE UNCHANGED vars BY <1>7 DEF vars
<1> QED BY <1>1, <1>2, <1>4, <1>5, <1>6, <1>7 DEF Next, Handler

-----------------------------------------------------------------------------
\* Both invariants: who has left is recorded on both sides.
SocketInv == OneRegistered /\ NeverHalfOpen

\* Every step keeps slots and sockets in agreement.
LEMMA SocketStep == TypeOK /\ SocketInv /\ [Next]_vars => SocketInv'
<1> SUFFICES ASSUME TypeOK, SocketInv, [Next]_vars PROVE SocketInv' OBVIOUS
<1> USE DEF SocketInv
<1>1. ASSUME NEW d \in Devices, NEW s \in Sockets, Dial(d, s) PROVE SocketInv'
  <2>1. \A x \in Devices, z \in Sockets :
          end'[z][x] = IF z = s THEN "open" ELSE end[z][x]
    BY <1>1 DEF Dial, Both, TypeOK
  <2>2. \A x \in Devices : slot[x] # s BY <1>1 DEF Dial, Idle, OneRegistered
  <2>3. UNCHANGED <<fin, slot, vanished>> BY <1>1 DEF Dial
  <2>4. OneRegistered' BY <2>1, <2>2, <2>3 DEF OneRegistered
  <2>5. NeverHalfOpen' BY <2>1, <2>3, OtherFacts DEF NeverHalfOpen
  <2> QED BY <2>4, <2>5
<1>2. ASSUME NEW d \in Devices, NEW s \in Sockets, ReadHello(d, s) PROVE SocketInv'
  <2>1. CASE slot[d] = None
    <3>1. \A x \in Devices, z \in Sockets :
            end'[z][x] = IF z = s /\ x = d THEN "reg" ELSE end[z][x]
      BY <1>2, <2>1 DEF ReadHello, TypeOK
    <3>2. UNCHANGED <<fin, vanished>> /\ slot' = [slot EXCEPT ![d] = s]
      BY <1>2, <2>1 DEF ReadHello
    <3>3. OneRegistered'
      BY <2>1, <3>1, <3>2, SocketAssumption DEF OneRegistered, TypeOK
    <3>4. end[s][d] # "over" BY <1>2 DEF ReadHello
    <3>5. NeverHalfOpen' BY <3>1, <3>2, <3>4, OtherFacts DEF NeverHalfOpen
    <3> QED BY <3>3, <3>5
  <2>2. CASE slot[d] # None
    <3>1. \A x \in Devices, z \in Sockets :
            end'[z][x] = IF z = s /\ x = d THEN "over" ELSE end[z][x]
      BY <1>2, <2>2 DEF ReadHello, TypeOK
    <3>2. \A x \in Devices, z \in Sockets :
            fin'[z][x] = IF z = s THEN x = Other(d) /\ end[s][x] # "over" ELSE fin[z][x]
      BY <1>2, <2>2 DEF ReadHello, TypeOK
    <3>3. UNCHANGED <<slot, vanished>> /\ end[s][d] = "open" BY <1>2, <2>2 DEF ReadHello
    <3>4. OneRegistered' BY <3>1, <3>3 DEF OneRegistered
    <3>5. NeverHalfOpen'
      <4> SUFFICES ASSUME vanished' = 0, NEW x \in Devices, NEW z \in Sockets,
                          end'[z][x] # "over", end'[z][Other(x)] = "over"
                   PROVE  fin'[z][x]
        BY DEF NeverHalfOpen
      <4>1. CASE z # s
        <5>1. end'[z][x] = end[z][x] /\ fin'[z][x] = fin[z][x]
          BY <3>1, <3>2, <4>1
        <5>2. end'[z][Other(x)] = end[z][Other(x)]
          BY <3>1, <4>1, OtherFacts
        <5> QED BY <3>3, <5>1, <5>2 DEF NeverHalfOpen
      <4>2. CASE z = s
        <5>1. x # d
          BY <3>1, <4>2
        <5>2. x = Other(d)
          BY <1>2, <5>1 DEF Devices, Other
        <5>3. end[s][x] # "over"
          BY <3>1, <4>2, <5>1
        <5>4. fin'[s][x] = (x = Other(d) /\ end[s][x] # "over")
          BY <3>2
        <5> QED BY <4>2, <5>2, <5>3, <5>4, Zenon
      <4> QED BY <4>1, <4>2
    <3> QED BY <3>4, <3>5
  <2> QED BY <2>1, <2>2
<1>3. ASSUME NEW d \in Devices, NEW s \in Sockets, end[s][d] # "over", Leave(d, s),
             UNCHANGED vanished
      PROVE  SocketInv'
  <2>1. \A x \in Devices, z \in Sockets :
          end'[z][x] = IF z = s /\ x = d THEN "over" ELSE end[z][x]
    BY <1>3 DEF Leave, TypeOK
  <2>2. \A x \in Devices, z \in Sockets :
          fin'[z][x] = IF z = s THEN x = Other(d) /\ end[s][x] # "over" ELSE fin[z][x]
    BY <1>3 DEF Leave, TypeOK
  <2>3. \A x \in Devices : slot'[x] = IF x = d /\ slot[d] = s THEN None ELSE slot[x]
    BY <1>3 DEF Leave, TypeOK
  <2>4. OneRegistered' BY <2>1, <2>3, SocketAssumption DEF OneRegistered
  <2>5. NeverHalfOpen'
    <3> SUFFICES ASSUME vanished = 0, NEW x \in Devices, NEW z \in Sockets,
                        end'[z][x] # "over", end'[z][Other(x)] = "over"
                 PROVE  fin'[z][x]
      BY <1>3 DEF NeverHalfOpen
    <3>1. CASE z = s
      <4>1. x # d BY <2>1, <3>1
      <4>2. x = Other(d) BY <4>1 DEF Devices, Other
      <4> QED BY <2>1, <2>2, <3>1, <4>1, <4>2
    <3>2. CASE z # s BY <2>1, <2>2, <3>2, OtherFacts DEF NeverHalfOpen
    <3> QED BY <3>1, <3>2
  <2> QED BY <2>4, <2>5
<1>4. ASSUME NEW d \in Devices, NEW s \in Sockets, ReadEnd(d, s) PROVE SocketInv'
  BY <1>3, <1>4 DEF ReadEnd
<1>5. ASSUME NEW d \in Devices, NEW s \in Sockets, Fail(d, s) PROVE SocketInv'
  BY <1>3, <1>5 DEF Fail
<1>6. ASSUME NEW d \in Devices, Vanish(d) PROVE SocketInv'
  <2>1. \A x \in Devices, z \in Sockets : end'[z][x] = IF x = d THEN "over" ELSE end[z][x]
    BY <1>6 DEF Vanish, TypeOK
  <2>2. \A x \in Devices : slot'[x] = IF x = d THEN None ELSE slot[x]
    BY <1>6 DEF Vanish, TypeOK
  <2>3. OneRegistered' BY <2>1, <2>2, SocketAssumption DEF OneRegistered
  <2>4. vanished' # 0 BY <1>6, FaultAssumption DEF Vanish, TypeOK
  <2>5. NeverHalfOpen' BY <2>4 DEF NeverHalfOpen
  <2> QED BY <2>3, <2>5
<1>7. CASE UNCHANGED vars BY <1>7 DEF vars, OneRegistered, NeverHalfOpen
<1> QED BY <1>1, <1>2, <1>4, <1>5, <1>6, <1>7 DEF Next, Handler

\* They agree at the start, there being none.
LEMMA SocketInit == Init => SocketInv
  BY SocketAssumption DEF Init, SocketInv, OneRegistered, NeverHalfOpen, Both

\* They agree in every reachable state.
LEMMA SocketInvariant == Spec => []SocketInv
<1>1. TypeOK /\ SocketInv /\ [Next]_vars => (TypeOK /\ SocketInv)' BY TypeStep, SocketStep
<1>2. Init => TypeOK /\ SocketInv BY TypeInit, SocketInit
<1> QED BY <1>1, <1>2, PTL DEF Spec

\* On each device ws_conns names the one registered socket of the peer.
THEOREM OneSocketRegistered == Spec => []OneRegistered
<1>1. SocketInv => OneRegistered BY DEF SocketInv
<1> QED BY <1>1, SocketInvariant, PTL

\* No socket is half open unless a device dropped off the network: what one
\* end has left, the other is told to leave.
THEOREM NoHalfOpenSocket == Spec => []NeverHalfOpen
<1>1. SocketInv => NeverHalfOpen BY DEF SocketInv
<1> QED BY <1>1, SocketInvariant, PTL

\* Slots, ends of sockets and what is in flight between them keep their types,
\* for any set of sockets and any number of failures.
THEOREM SocketTypes == Spec => []TypeOK
  BY TypeInit, TypeStep, PTL DEF Spec
=============================================================================
