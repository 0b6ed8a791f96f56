------------------------- MODULE NodeAddress_proofs --------------------------
(***************************************************************************)
(* For any address lists: a lookup during which the live Machine or its    *)
(* Node has an address all the time finds one, or one of its Gets fails;   *)
(* and one that nothing interferes with finds the first in the documented  *)
(* order of sources and types.                                             *)
(***************************************************************************)
EXTENDS NodeAddress, WellFoundedInduction, TLAPS

USE AddressAssumption

\* A non-empty set of positions has a first one.
LEMMA FirstPosition ==
  ASSUME NEW S \in SUBSET Nat, S # {}
  PROVE  \E i \in S : \A j \in S : i <= j
<1>1. \E i \in S : \A j \in S : ~(<<j, i>> \in OpToRel(<, Nat))
  BY WFMin, NatLessThanWellFounded, Zenon
<1>2. PICK i \in S : \A j \in S : ~(<<j, i>> \in OpToRel(<, Nat))
  BY <1>1, Zenon
<1>3. ASSUME NEW j \in S PROVE ~(j < i)
  BY <1>2, Zenon DEF OpToRel
<1> QED BY <1>3

\* A list with an IP has one for the lookup to find, and none otherwise.
LEMMA FirstIsIP ==
  ASSUME NEW addrs \in Lists, NEW t \in AddressTypes, OfType(addrs, t) # {}
  PROVE  First(addrs, t) \in IPs
<1>1. addrs \in Seq(Address) /\ OfType(addrs, t) \subseteq 1 .. Len(addrs)
      /\ OfType(addrs, t) \in SUBSET Nat
  BY DEF OfType
<1>2. \E i \in OfType(addrs, t) : \A j \in OfType(addrs, t) : i <= j
  BY <1>1, FirstPosition
<1> DEFINE i == CHOOSE i \in OfType(addrs, t) : \A j \in OfType(addrs, t) : i <= j
<1>3. i \in OfType(addrs, t)
  BY <1>2
<1>4. addrs[i] \in Address
  BY <1>1, <1>3
<1> QED BY <1>4 DEF First, Address

LEMMA FindsIP ==
  ASSUME NEW addrs \in Lists
  PROVE  /\ FindIP(addrs) \in IPs \cup {None}
         /\ NodeIPFromAddresses(addrs) = FindIP(addrs)
         /\ FindIP(addrs) = None <=> ~Usable(addrs)
<1>1. {"InternalIP", "ExternalIP"} \subseteq AddressTypes
  BY DEF AddressTypes
<1>2. CASE OfType(addrs, "InternalIP") # {}
  BY <1>1, <1>2, FirstIsIP DEF FindIP, NodeIPFromAddresses, Usable
<1>3. CASE OfType(addrs, "InternalIP") = {} /\ OfType(addrs, "ExternalIP") # {}
  BY <1>1, <1>3, FirstIsIP DEF FindIP, NodeIPFromAddresses, Usable
<1>4. CASE OfType(addrs, "InternalIP") = {} /\ OfType(addrs, "ExternalIP") = {}
  BY <1>4 DEF FindIP, NodeIPFromAddresses, Usable
<1> QED BY <1>2, <1>3, <1>4

LEMMA EmptyHasNoIP == FindIP(<<>>) = None
<1>1. \A t : OfType(<<>>, t) = {}
  BY DEF OfType
<1> QED BY <1>1 DEF FindIP

(***************************************************************************)
(* The inductive invariant: what has been steady is a source now, and once *)
(* the lookup has gone on to the Node, the Machine has not been.           *)
(***************************************************************************)
AInv ==
  /\ TypeOK
  /\ lookup.pc \in {"request", "machine", "node"} => steady \subseteq Sources
  /\ lookup.pc = "node" => "machine" \notin steady

LEMMA AInit == Init => AInv
<1> SUFFICES ASSUME Init PROVE AInv
  OBVIOUS
<1>1. TypeOK
  BY DEF Init, TypeOK, Pcs
<1> QED BY <1>1 DEF Init, AInv

LEMMA TypeNext == TypeOK /\ [Next]_vars => TypeOK'
<1> SUFFICES ASSUME TypeOK, [Next]_vars PROVE TypeOK'
  OBVIOUS
<1> USE DEF TypeOK, Pcs
<1>1. CASE UNCHANGED vars
  BY <1>1 DEF vars, api
<1>2. CASE Begin
  <2>1. Sources \subseteq {"machine", "node"}
    BY DEF Sources
  <2> QED BY <1>2, <2>1 DEF Begin, api
<1>3. CASE InMachine
  <2>1. FindIP(lookup.machine) \in IPs \cup {None}
    BY FindsIP, EmptyHasNoIP
  <2> QED BY <1>3, <2>1 DEF InMachine, Found, api
<1>4. CASE InInfra
  <2>1. InfraIP(lookup.infra) \in IPs \cup {None}
    BY FindsIP DEF InfraIP
  <2> QED BY <1>4, <2>1 DEF InInfra, Found, api
<1>5. CASE NotInRequest
  BY <1>5 DEF NotInRequest, Goto, api
<1>6. CASE GetMachine
  <2>1. FindIP(machine.addresses) \in IPs \cup {None}
    BY FindsIP
  <2> QED BY <1>6, <2>1 DEF GetMachine, Found, Goto, api
<1>7. CASE GetNode
  <2>1. (IF node = None THEN None ELSE NodeIPFromAddresses(node)) \in IPs \cup {None}
    BY FindsIP
  <2> QED BY <1>7, <2>1 DEF GetNode, Found, api
<1>8. CASE GetFails
  BY <1>8 DEF GetFails, Goto, api
<1>9. CASE Change
  BY <1>9 DEF Change
<1> QED BY <1>1, <1>2, <1>3, <1>4, <1>5, <1>6, <1>7, <1>8, <1>9 DEF Next, Step

LEMMA ANext == AInv /\ [Next]_vars => AInv'
<1> SUFFICES ASSUME AInv, [Next]_vars PROVE AInv'
  OBVIOUS
<1> USE DEF AInv
<1>1. TypeOK'
  BY TypeNext
<1>2. UNCHANGED api => Sources' = Sources
  BY DEF api, Sources
<1>3. CASE UNCHANGED vars
  BY <1>1, <1>2, <1>3 DEF vars
<1>4. CASE Begin
  BY <1>1, <1>2, <1>4 DEF Begin
<1>5. CASE InMachine \/ InInfra \/ GetNode \/ GetFails
  <2>1. lookup'.pc \in {"done", "failed"}
    BY <1>5 DEF InMachine, InInfra, GetNode, GetFails, Found, Goto, TypeOK
  <2> QED BY <1>1, <2>1
<1>6. CASE NotInRequest
  <2>1. lookup'.pc = "machine"
    BY <1>6 DEF NotInRequest, Goto, TypeOK
  <2> QED BY <1>1, <1>2, <1>6, <2>1 DEF NotInRequest
<1>7. CASE GetMachine
  <2>1. CASE FindIP(machine.addresses) = None /\ machine.nodeRef
    <3>1. ~Usable(machine.addresses)
      BY <2>1, FindsIP DEF TypeOK
    <3>2. "machine" \notin Sources
      BY <3>1 DEF Sources
    <3> QED BY <1>1, <1>2, <1>7, <3>2 DEF GetMachine
  <2>2. CASE ~(FindIP(machine.addresses) = None /\ machine.nodeRef)
    <3>1. lookup'.pc = "done"
      BY <1>7, <2>2 DEF GetMachine, Found, TypeOK
    <3> QED BY <1>1, <3>1
  <2> QED BY <2>1, <2>2
<1>8. CASE Change
  BY <1>1, <1>8 DEF Change
<1> QED BY <1>3, <1>4, <1>5, <1>6, <1>7, <1>8 DEF Next, Step

\* A lookup that ends without an address ended at one of the Gets.
LEMMA EmptyHanded ==
  ASSUME AInv, [Next]_vars,
         lookup.pc # "done", lookup'.pc = "done", lookup'.ip = None
  PROVE  steady = {}
<1> USE DEF AInv
<1>1. CASE GetMachine
  <2>1. ~(FindIP(machine.addresses) = None /\ machine.nodeRef)
    BY <1>1 DEF GetMachine, Goto, TypeOK
  <2>2. FindIP(machine.addresses) = None /\ ~machine.nodeRef
    BY <1>1, <2>1 DEF GetMachine, Found, TypeOK
  <2>3. ~Usable(machine.addresses)
    BY <2>2, FindsIP DEF TypeOK
  <2>4. Sources = {}
    BY <2>2, <2>3 DEF Sources
  <2> QED BY <1>1, <2>4 DEF GetMachine
<1>2. CASE GetNode
  <2>1. node = None \/ NodeIPFromAddresses(node) = None
    BY <1>2 DEF GetNode, Found, TypeOK
  <2>2. ~Usable(node)
    BY <2>1, FindsIP DEF TypeOK, Usable
  <2>3. "node" \notin Sources
    BY <2>2 DEF Sources
  <2> QED BY <1>2, <2>3 DEF GetNode, TypeOK
<1>3. CASE InMachine \/ InInfra
  BY <1>3 DEF InMachine, InInfra, Found, TypeOK
<1>4. CASE Begin \/ NotInRequest \/ GetFails \/ Change \/ UNCHANGED vars
  BY <1>4 DEF Begin, NotInRequest, Goto, GetFails, Change, vars, TypeOK
<1> QED BY <1>1, <1>2, <1>3, <1>4 DEF Next, Step

LEMMA AlwaysAInv == Spec => []AInv
<1> QED BY AInit, ANext, PTL DEF Spec

\* What lookupNodeIP keeps between its steps and returns has its type, for any
\* lists of addresses.
THEOREM LookupTypeCorrect == Spec => []TypeOK
<1>1. AInv => TypeOK
  BY DEF AInv
<1> QED BY <1>1, AlwaysAInv, PTL

\* lookupNodeIP misses no object that had an address all the time, although it
\* reads the Machine and the Node one after the other.
THEOREM SteadyFound == Spec => SteadySourceFound
<1>1. AInv /\ [Next]_vars =>
        [(lookup.pc # "done" /\ lookup'.pc = "done" /\ lookup'.ip = None) =>
           steady = {}]_vars
  BY EmptyHanded
<1> QED BY <1>1, AlwaysAInv, PTL DEF Spec, SteadySourceFound

-----------------------------------------------------------------------------
(***************************************************************************)
(* The documented order, over all sources.                                 *)
(***************************************************************************)
\* What findIP takes from a list: the first address of the preferred type.
LEMMA FindIPExact ==
  ASSUME NEW addrs \in Lists \cup {<<>>}
  PROVE  \/ FindIP(addrs) = None /\ \A t \in IPTypes : OfType(addrs, t) = {}
         \/ /\ FindIP(addrs) # None
            /\ \E t \in IPTypes : \E i \in OfType(addrs, t) :
                 /\ FindIP(addrs) = addrs[i].address
                 /\ \A j \in OfType(addrs, t) : i <= j
                 /\ t = "ExternalIP" => OfType(addrs, "InternalIP") = {}
<1>1. CASE addrs = <<>>
  BY <1>1, EmptyHasNoIP DEF OfType
<1>2. CASE addrs \in Lists
  <2>1. ASSUME NEW t \in IPTypes, OfType(addrs, t) # {}
        PROVE  /\ First(addrs, t) # None
               /\ \E i \in OfType(addrs, t) :
                    /\ First(addrs, t) = addrs[i].address
                    /\ \A j \in OfType(addrs, t) : i <= j
    <3>1. addrs \in Seq(Address)
      BY <1>2
    <3>2. OfType(addrs, t) \in SUBSET Nat
      BY <3>1 DEF OfType
    <3>3. \E i \in OfType(addrs, t) : \A j \in OfType(addrs, t) : i <= j
      BY <2>1, <3>2, FirstPosition
    <3> DEFINE i == CHOOSE i \in OfType(addrs, t) : \A j \in OfType(addrs, t) : i <= j
    <3>4. i \in OfType(addrs, t) /\ \A j \in OfType(addrs, t) : i <= j
      BY <3>3
    <3>5. First(addrs, t) = addrs[i].address
      BY DEF First
    <3>6. First(addrs, t) # None
      BY <1>2, <2>1, FirstIsIP DEF IPTypes, AddressTypes
    <3> HIDE DEF i
    <3> QED
      BY <3>4, <3>5, <3>6
  <2>2. CASE OfType(addrs, "InternalIP") # {}
    <3>1. FindIP(addrs) = First(addrs, "InternalIP")
      BY <2>2 DEF FindIP
    <3> QED
      BY <2>1, <2>2, <3>1 DEF IPTypes
  <2>3. CASE OfType(addrs, "InternalIP") = {} /\ OfType(addrs, "ExternalIP") # {}
    <3>1. FindIP(addrs) = First(addrs, "ExternalIP")
      BY <2>3 DEF FindIP
    <3> QED
      BY <2>1, <2>3, <3>1 DEF IPTypes
  <2>4. CASE OfType(addrs, "InternalIP") = {} /\ OfType(addrs, "ExternalIP") = {}
    BY <2>4 DEF FindIP, IPTypes
  <2> QED
    BY <2>2, <2>3, <2>4
<1> QED
  BY <1>1, <1>2

\* What a lookup finds in a source.
FoundIn(s) == FindIP(Consulted(s))

LEMMA Sourced ==
  ASSUME TypeOK
  PROVE  /\ \A s \in 1 .. 4 : Consulted(s) \in Lists \cup {<<>>}
         /\ FoundIn(1) = FindIP(lookup.machine)
         /\ FoundIn(2) = InfraIP(lookup.infra)
         /\ FoundIn(3) = FindIP(machine.addresses)
         /\ FoundIn(4) = IF machine.nodeRef /\ node # None
                         THEN NodeIPFromAddresses(node) ELSE None
<1>1. /\ Consulted(1) = lookup.machine
      /\ Consulted(2) = IF lookup.infra = None THEN <<>> ELSE lookup.infra
      /\ Consulted(3) = machine.addresses
      /\ Consulted(4) = IF machine.nodeRef /\ node # None THEN node ELSE <<>>
  BY DEF Consulted
<1>2. node # None => NodeIPFromAddresses(node) = FindIP(node)
  BY FindsIP DEF TypeOK
<1>3. \A s \in 1 .. 4 : s = 1 \/ s = 2 \/ s = 3 \/ s = 4
  OBVIOUS
<1>4. \A s \in 1 .. 4 : Consulted(s) \in Lists \cup {<<>>}
  BY <1>1, <1>3 DEF TypeOK
<1> QED
  BY <1>1, <1>2, <1>4, EmptyHasNoIP DEF FoundIn, InfraIP

\* The lookup has its address from the first source that has one.
FirstFound ==
  \/ lookup.ip = None /\ \A s \in 1 .. 4 : FoundIn(s) = None
  \/ \E s \in 1 .. 4 : /\ FoundIn(s) # None /\ lookup.ip = FoundIn(s)
                       /\ \A earlier \in 1 .. (s - 1) : FoundIn(earlier) = None

(***************************************************************************)
(* The inductive invariant: a lookup has gone on because the sources it    *)
(* has been at had no address.                                             *)
(***************************************************************************)
OrderInv ==
  /\ TypeOK
  /\ lookup.pc \in {"machine", "node"} => FoundIn(1) = None /\ FoundIn(2) = None
  /\ (lookup.pc = "node" /\ still) => FoundIn(3) = None /\ machine.nodeRef
  /\ (lookup.pc = "done" /\ still) => FirstFound

LEMMA OrderNext == OrderInv /\ [Next]_vars => OrderInv'
<1> SUFFICES ASSUME OrderInv, [Next]_vars PROVE OrderInv'
  OBVIOUS
<1>1. TypeOK /\ TypeOK'
  BY TypeNext DEF OrderInv
<1>2. /\ (lookup'.machine = lookup.machine /\ lookup'.infra = lookup.infra) =>
           FoundIn(1)' = FoundIn(1) /\ FoundIn(2)' = FoundIn(2)
      /\ UNCHANGED api => FoundIn(3)' = FoundIn(3) /\ FoundIn(4)' = FoundIn(4)
  BY DEF FoundIn, Consulted, api
<1>3. \A s \in 1 .. 4 : s = 1 \/ s = 2 \/ s = 3 \/ s = 4
  OBVIOUS
<1>4. CASE UNCHANGED vars
  <2>1. UNCHANGED <<lookup, machine, infra, node, still>>
    BY <1>4 DEF vars, api
  <2> QED
    BY <1>1, <2>1 DEF OrderInv, FirstFound, FoundIn, Consulted
<1>5. CASE Begin \/ GetFails
  <2>1. lookup'.pc \in {"request", "failed"}
    BY <1>1, <1>5 DEF Begin, GetFails, Goto, TypeOK
  <2> QED
    BY <1>1, <2>1 DEF OrderInv
<1>6. CASE Change
  BY <1>1, <1>2, <1>6 DEF OrderInv, Change
\* Steps of the lookup alone.
<1>7. ASSUME Step
      PROVE  /\ UNCHANGED api /\ still' = still
             /\ lookup'.machine = lookup.machine /\ lookup'.infra = lookup.infra
             /\ \A s \in 1 .. 4 : FoundIn(s)' = FoundIn(s)
  <2>1. UNCHANGED api /\ still' = still
    BY <1>7 DEF Step, InMachine, InInfra, NotInRequest, GetMachine, GetNode
  <2>2. lookup'.machine = lookup.machine /\ lookup'.infra = lookup.infra
    <3>1. (\E pc \in {"machine", "node"} : Goto(pc)) \/ (\E ip : Found(ip))
      BY <1>7 DEF Step, InMachine, InInfra, NotInRequest, GetMachine, GetNode
    <3> QED
      BY <1>1, <3>1 DEF Found, Goto, TypeOK
  <2> QED
    BY <1>2, <1>3, <2>1, <2>2
<1>8. CASE InMachine
  <2>1. lookup'.pc = "done" /\ lookup'.ip = FoundIn(1) /\ FoundIn(1) # None
    BY <1>1, <1>8, Sourced DEF InMachine, Found, TypeOK
  <2>2. FirstFound'
    BY <1>7, <1>8, <2>1 DEF Step, FirstFound
  <2> QED
    BY <1>1, <2>1, <2>2 DEF OrderInv
<1>9. CASE InInfra
  <2>1. /\ lookup'.pc = "done" /\ lookup'.ip = FoundIn(2)
        /\ FoundIn(1) = None /\ FoundIn(2) # None
    BY <1>1, <1>9, Sourced DEF InInfra, Found, TypeOK
  <2>2. FirstFound'
    BY <1>7, <1>9, <2>1 DEF Step, FirstFound
  <2> QED
    BY <1>1, <2>1, <2>2 DEF OrderInv
<1>10. CASE NotInRequest
  <2>1. lookup'.pc = "machine" /\ FoundIn(1) = None /\ FoundIn(2) = None
    BY <1>1, <1>10, Sourced DEF NotInRequest, Goto, TypeOK
  <2> QED
    BY <1>1, <1>7, <1>10, <2>1 DEF OrderInv, Step
<1>11. CASE GetMachine
  <2>0. FoundIn(1) = None /\ FoundIn(2) = None
    BY <1>11 DEF GetMachine, OrderInv
  <2>1. CASE FoundIn(3) = None /\ machine.nodeRef
    <3>1. lookup'.pc = "node" /\ machine'.nodeRef
      BY <1>1, <1>7, <1>11, <2>1, Sourced DEF GetMachine, Goto, TypeOK, Step, api
    <3> QED
      BY <1>1, <1>7, <1>11, <2>0, <2>1, <3>1 DEF OrderInv, Step
  <2>2. CASE ~(FoundIn(3) = None /\ machine.nodeRef)
    <3>1. lookup'.pc = "done" /\ lookup'.ip = FoundIn(3)
      BY <1>1, <1>11, <2>2, Sourced DEF GetMachine, Found, TypeOK
    <3>2. FirstFound'
      <4>1. CASE FoundIn(3) # None
        BY <1>7, <1>11, <2>0, <3>1, <4>1 DEF Step, FirstFound
      <4>2. CASE FoundIn(3) = None
        <5>1. FoundIn(4) = None
          BY <1>1, <2>2, <4>2, Sourced
        <5> QED
          BY <1>3, <1>7, <1>11, <2>0, <3>1, <4>2, <5>1 DEF Step, FirstFound
      <4> QED
        BY <4>1, <4>2
    <3> QED
      BY <1>1, <3>1, <3>2 DEF OrderInv
  <2> QED
    BY <2>1, <2>2
<1>12. CASE GetNode
  <2>0. /\ FoundIn(1) = None /\ FoundIn(2) = None
        /\ still => FoundIn(3) = None /\ machine.nodeRef
    BY <1>12 DEF GetNode, OrderInv
  <2>1. /\ lookup'.pc = "done"
        /\ lookup'.ip = IF node = None THEN None ELSE NodeIPFromAddresses(node)
    BY <1>1, <1>12 DEF GetNode, Found, TypeOK
  <2>2. ASSUME still PROVE FirstFound'
    <3>1. lookup'.ip = FoundIn(4)
      BY <1>1, <2>0, <2>1, <2>2, Sourced
    <3>2. CASE FoundIn(4) # None
      BY <1>3, <1>7, <1>12, <2>0, <2>2, <3>1, <3>2 DEF Step, FirstFound
    <3>3. CASE FoundIn(4) = None
      BY <1>3, <1>7, <1>12, <2>0, <2>2, <3>1, <3>3 DEF Step, FirstFound
    <3> QED
      BY <3>2, <3>3
  <2> QED
    BY <1>1, <1>7, <1>12, <2>1, <2>2 DEF OrderInv, Step
<1> QED
  BY <1>4, <1>5, <1>6, <1>8, <1>9, <1>10, <1>11, <1>12 DEF Next, Step

\* An address from the first source that has one comes first of all.
LEMMA FirstFoundIsFirst ==
  ASSUME TypeOK, FirstFound
  PROVE  IF \A s \in 1 .. 4, t \in IPTypes : Offered(s, t) = {}
         THEN lookup.ip = None
         ELSE \E s \in 1 .. 4, t \in IPTypes : \E i \in Offered(s, t) :
                ComesFirst(s, t, i) /\ lookup.ip = Consulted(s)[i].address
<1>1. \A s \in 1 .. 4, t \in IPTypes : Offered(s, t) = OfType(Consulted(s), t)
  BY DEF Offered, OfType
<1>2. ASSUME NEW s \in 1 .. 4
      PROVE  \/ FoundIn(s) = None /\ \A t \in IPTypes : Offered(s, t) = {}
             \/ /\ FoundIn(s) # None
                /\ \E t \in IPTypes : \E i \in Offered(s, t) :
                     /\ FoundIn(s) = Consulted(s)[i].address
                     /\ \A j \in Offered(s, t) : i <= j
                     /\ t = "ExternalIP" => Offered(s, "InternalIP") = {}
  <2>1. Consulted(s) \in Lists \cup {<<>>}
    BY Sourced
  <2>2. \A t : Offered(s, t) = OfType(Consulted(s), t)
    BY DEF Offered, OfType
  <2> DEFINE addrs == Consulted(s)
  <2>3. \/ FindIP(addrs) = None /\ \A t \in IPTypes : OfType(addrs, t) = {}
        \/ /\ FindIP(addrs) # None
           /\ \E t \in IPTypes : \E i \in OfType(addrs, t) :
                /\ FindIP(addrs) = addrs[i].address
                /\ \A j \in OfType(addrs, t) : i <= j
                /\ t = "ExternalIP" => OfType(addrs, "InternalIP") = {}
    <3> HIDE DEF addrs
    <3> QED
      BY <2>1, FindIPExact DEF addrs
  <2> QED
    BY <2>2, <2>3 DEF FoundIn
<1>3. CASE lookup.ip = None /\ \A s \in 1 .. 4 : FoundIn(s) = None
  BY <1>2, <1>3
<1>4. ASSUME NEW s \in 1 .. 4, FoundIn(s) # None, lookup.ip = FoundIn(s),
             \A earlier \in 1 .. (s - 1) : FoundIn(earlier) = None
      PROVE  \E t \in IPTypes : \E i \in Offered(s, t) :
               ComesFirst(s, t, i) /\ lookup.ip = Consulted(s)[i].address
  <2>1. \E t \in IPTypes : \E i \in Offered(s, t) :
          /\ FoundIn(s) = Consulted(s)[i].address
          /\ \A j \in Offered(s, t) : i <= j
          /\ t = "ExternalIP" => Offered(s, "InternalIP") = {}
    BY <1>2, <1>4
  <2>2. \A earlier \in 1 .. (s - 1), u \in IPTypes : Offered(earlier, u) = {}
    BY <1>2, <1>4
  <2> QED
    BY <1>4, <2>1, <2>2 DEF ComesFirst
<1> QED
  BY <1>3, <1>4 DEF FirstFound

\* lookupNodeIP returns the address that its documented order puts first, over
\* all sources and all lists of addresses, unless an object changes meanwhile.
THEOREM InDocumentedOrder == Spec => []OrderKept
<1>1. Init => OrderInv
  <2> SUFFICES ASSUME Init PROVE OrderInv
    OBVIOUS
  <2>1. TypeOK
    BY DEF Init, TypeOK, Pcs
  <2> QED
    BY <2>1 DEF Init, OrderInv
<1>2. OrderInv => OrderKept
  BY FirstFoundIsFirst DEF OrderInv, OrderKept
<1> QED BY <1>1, <1>2, OrderNext, PTL DEF Spec
=============================================================================
