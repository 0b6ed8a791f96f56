---------------------------- MODULE MCNodeAddress ----------------------------
(***************************************************************************)
(* Instances of NodeAddress for TLC: lists without an IP, with one of each *)
(* type in either order, and with two of the same type.                    *)
(***************************************************************************)
EXTENDS NodeAddress

MCIPs == {"host", "vlan1", "vlan2", "public"}

Is(t, a) == [type |-> t, address |-> a]

MCLists ==
  {<<>>, <<Is("Hostname", "host")>>,
   <<Is("Hostname", "host"), Is("ExternalIP", "public")>>,
   <<Is("ExternalIP", "public"), Is("InternalIP", "vlan1")>>,
   <<Is("InternalIP", "vlan2"), Is("InternalIP", "vlan1")>>}
=============================================================================
