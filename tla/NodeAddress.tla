---------------------------- MODULE NodeAddress ------------------------------
(***************************************************************************)
(* lookupNodeIP: how UpdateMachine finds the address of a Machine's node.  *)
(* It looks at the objects of the request, which are as old as the request *)
(* and may lack a status, and then gets the Machine and its Node from the  *)
(* Kubernetes API, one after the other, while others change them.  Without *)
(* an address UpdateMachine fails, and CAPI calls it again.                *)
(***************************************************************************)
EXTENDS Naturals, Sequences

CONSTANTS
  IPs,          \* addresses
  Lists,        \* lists of addresses that an object may have in its status
  None          \* no address, and no object

AddressTypes == {"InternalIP", "ExternalIP", "Hostname"}
Address      == [type : AddressTypes, address : IPs]

ASSUME AddressAssumption ==
  /\ Lists \subseteq Seq(Address)
  /\ None \notin IPs /\ None \notin Lists

VARIABLES
  machine,   \* the live Machine: its addresses, and whether it has a NodeRef
  infra,     \* addresses of the live infrastructure object, None if unreadable
  node,      \* addresses of the Node that the NodeRef names, None if none
  lookup,    \* the lookup of the call in progress
  steady,    \* (history) objects with an address since the lookup began
  still      \* (history) nothing has changed since it began

api  == <<machine, infra, node>>
vars == <<api, lookup, steady, still>>

Pcs == {"idle", "request", "machine", "node", "done", "failed"}

TypeOK ==
  /\ machine \in [addresses : Lists, nodeRef : BOOLEAN]
  /\ infra \in Lists \cup {None}
  /\ node \in Lists \cup {None}
  /\ lookup \in [pc : Pcs, machine : Lists \cup {<<>>}, infra : Lists \cup {None},
                 ip : IPs \cup {None}]
  /\ steady \subseteq {"machine", "node"}
  /\ still \in BOOLEAN

-----------------------------------------------------------------------------
\* The positions of the addresses of a type.
OfType(addrs, t) == {i \in DOMAIN addrs : addrs[i].type = t}

\* A bug: the wrong string of the entry is returned.
FirstEntry(addrs, t) ==
  addrs[CHOOSE i \in OfType(addrs, t) : \A j \in OfType(addrs, t) : i <= j].type

\* The first address of a type that the list has.
First(addrs, t) ==
  addrs[CHOOSE i \in OfType(addrs, t) : \A j \in OfType(addrs, t) : i <= j].address

\* A bug: the first address of either type.
FirstIP(addrs) ==
  LET ips == OfType(addrs, "InternalIP") \cup OfType(addrs, "ExternalIP")
  IN  IF ips = {} THEN None
      ELSE addrs[CHOOSE i \in ips : \A j \in ips : i <= j].address

\* findIP: the first InternalIP, or else the first ExternalIP.
FindIP(addrs) ==
  CASE OfType(addrs, "InternalIP") # {} -> First(addrs, "InternalIP")
    [] OfType(addrs, "InternalIP") = {} /\ OfType(addrs, "ExternalIP") # {} ->
         First(addrs, "ExternalIP")
    [] OTHER -> None

\* nodeIPFromAddresses, the same for the addresses of a Node.
NodeIPFromAddresses(addrs) ==
  CASE OfType(addrs, "InternalIP") # {} -> First(addrs, "InternalIP")
    [] OfType(addrs, "InternalIP") = {} /\ OfType(addrs, "ExternalIP") # {} ->
         First(addrs, "ExternalIP")
    [] OTHER -> None

InfraIP(addrs) == IF addrs = None THEN None ELSE FindIP(addrs)

Usable(addrs) ==
  addrs # None /\ OfType(addrs, "InternalIP") \cup OfType(addrs, "ExternalIP") # {}

\* Live objects that a lookup could take an address from.
Sources ==
  (IF Usable(machine.addresses) THEN {"machine"} ELSE {})
  \cup (IF machine.nodeRef /\ Usable(node) THEN {"node"} ELSE {})

Init ==
  /\ machine \in [addresses : Lists, nodeRef : BOOLEAN]
  /\ infra \in Lists \cup {None}
  /\ node \in Lists \cup {None}
  /\ lookup = [pc |-> "idle", machine |-> <<>>, infra |-> None, ip |-> None]
  /\ steady = {}
  /\ still = TRUE

-----------------------------------------------------------------------------
\* A call arrives.  Its objects were read by CAPI, with their status or without.
Begin ==
  /\ lookup.pc \in {"idle", "done", "failed"}
  /\ \E m \in {<<>>, machine.addresses}, i \in {None, infra} :
       lookup' = [pc |-> "request", machine |-> m, infra |-> i, ip |-> None]
  /\ steady' = Sources
  /\ still' = TRUE
  /\ UNCHANGED api

Found(ip) == lookup' = [lookup EXCEPT !.pc = "done", !.ip = ip]
Goto(pc)  == lookup' = [lookup EXCEPT !.pc = pc]

InMachine ==
  /\ lookup.pc = "request"
  /\ FindIP(lookup.machine) # None
  /\ Found(FindIP(lookup.machine))
  /\ UNCHANGED <<api, steady, still>>

InInfra ==
  /\ lookup.pc = "request"
  /\ FindIP(lookup.machine) = None /\ InfraIP(lookup.infra) # None
  /\ Found(InfraIP(lookup.infra))
  /\ UNCHANGED <<api, steady, still>>

NotInRequest ==
  /\ lookup.pc = "request"
  /\ FindIP(lookup.machine) = None /\ InfraIP(lookup.infra) = None
  /\ Goto("machine")
  /\ UNCHANGED <<api, steady, still>>

\* A bug: a Machine without an address of its own is given up.
GetMachineOnly ==
  /\ lookup.pc = "machine"
  /\ Found(FindIP(machine.addresses))
  /\ UNCHANGED <<api, steady, still>>

\* Get of the Machine; its Node is next if it has no address and a NodeRef.
GetMachine ==
  /\ lookup.pc = "machine"
  /\ IF FindIP(machine.addresses) = None /\ machine.nodeRef
     THEN Goto("node") ELSE Found(FindIP(machine.addresses))
  /\ UNCHANGED <<api, steady, still>>

GetNode ==
  /\ lookup.pc = "node"
  /\ Found(IF node = None THEN None ELSE NodeIPFromAddresses(node))
  /\ UNCHANGED <<api, steady, still>>

\* An error of either Get ends the lookup, as an address of none does; "failed"
\* tells the two apart for the properties.
GetFails ==
  /\ lookup.pc \in {"machine", "node"}
  /\ Goto("failed")
  /\ UNCHANGED <<api, steady, still>>

\* The controllers that own the objects change them.
Change ==
  /\ \/ /\ machine' \in [addresses : Lists, nodeRef : BOOLEAN]
        /\ UNCHANGED <<infra, node>>
     \/ infra' \in Lists \cup {None} /\ UNCHANGED <<machine, node>>
     \/ node' \in Lists \cup {None} /\ UNCHANGED <<machine, infra>>
  /\ api' # api
  /\ steady' = steady \cap Sources'
  /\ still' = FALSE
  /\ UNCHANGED lookup

Step == InMachine \/ InInfra \/ NotInRequest \/ GetMachine \/ GetNode
Next == Begin \/ Step \/ GetFails \/ Change
Spec == Init /\ [][Next]_vars

\* CAPI calls again, and a handler takes its next step.
FairSpec == Spec /\ WF_vars(Begin) /\ WF_vars(Step \/ GetFails)

-----------------------------------------------------------------------------
(***************************************************************************)
(* Properties.                                                             *)
(***************************************************************************)
\* The sources in their documented order, as lists of addresses: the Machine and
\* the infrastructure object of the request, the live Machine, and its Node.
Consulted(s) ==
  CASE s = 1 -> lookup.machine
    [] s = 2 -> IF lookup.infra = None THEN <<>> ELSE lookup.infra
    [] s = 3 -> machine.addresses
    [] s = 4 -> IF machine.nodeRef /\ node # None THEN node ELSE <<>>

IPTypes == {"InternalIP", "ExternalIP"}

Offered(s, t) == {i \in DOMAIN Consulted(s) : Consulted(s)[i].type = t}

\* No other address comes before the one at position i: an earlier source goes
\* first, and then the VLAN address before a public one.
ComesFirst(s, t, i) ==
  /\ i \in Offered(s, t) /\ \A j \in Offered(s, t) : i <= j
  /\ t = "ExternalIP" => Offered(s, "InternalIP") = {}
  /\ \A earlier \in 1 .. (s - 1), u \in IPTypes : Offered(earlier, u) = {}

\* lookupNodeIP keeps to its documented order, over all four sources, when
\* nothing interferes with it.
OrderKept ==
  (lookup.pc = "done" /\ still) =>
    IF \A s \in 1 .. 4, t \in IPTypes : Offered(s, t) = {}
    THEN lookup.ip = None
    ELSE \E s \in 1 .. 4, t \in IPTypes : \E i \in Offered(s, t) :
           ComesFirst(s, t, i) /\ lookup.ip = Consulted(s)[i].address

\* A lookup does not come back empty-handed if the live Machine, or its Node,
\* had an address from its beginning to its end, whatever else changed between
\* the two Gets.
SteadySourceFound ==
  [][(lookup.pc # "done" /\ lookup'.pc = "done" /\ lookup'.ip = None) =>
       steady = {}]_vars

\* If a source has an address from some time on, and Gets have stopped failing,
\* lookups go on finding one.
AddressFound ==
  \A s \in {"machine", "node"} :
    (<>[](s \in Sources) /\ <>[](lookup.pc # "failed"))
      => []<>(lookup.pc = "done" /\ lookup.ip # None)
=============================================================================
