-------------------------- MODULE MCInformProvider --------------------------
EXTENDS InformProvider

(* Two SSIDs on one radio, and one of them on a radio whose band the agent *)
(* does not know.                                                          *)
MCNetwork ==
  <<[ifname |-> "phy0-ap0", ssid |-> "guest", band |-> "2g"],
    [ifname |-> "phy0-ap1", ssid |-> "corp",  band |-> "2g"],
    [ifname |-> "phy9-ap0", ssid |-> "guest", band |-> None]>>

MCBytes == [m \in Macs |-> IF m = "s1" THEN 3 ELSE 5]

Lease(m, a, e) == [mac |-> m, ip |-> a, expires |-> e]

(* Leases of stations that may have left: two that expire together, an     *)
(* older one after them, and a line that is no lease.                      *)
MCLeases ==
  {<<Comment, Lease("s1", "a1", 2), Lease("s1", "a2", 2), Lease("s1", "a3", 1),
     Lease("s2", "a4", 1)>>,
   <<Lease("s1", "a1", 1), BadLine>>}

Session(m, a, p, d) == [mac |-> m, ip |-> a, portal |-> p, down |-> d]

MCSessions ==
  {<<Session("s1", "a5", "unauthenticated", 7),
     Session("s2", None, "blocked", 0)>>}
=============================================================================
