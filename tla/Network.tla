------------------------------ MODULE Network ------------------------------
(***************************************************************************)
(* The network's start and the clock: the dhcp thread starts the SNTP      *)
(* client when it sees an address, and in no other case.  Both clients     *)
(* then run in the TCP/IP thread and share nothing but its timeouts.       *)
(***************************************************************************)
EXTENDS Sntp, Dhcp

netStateVars == <<vars, dhcpVars>>

NetInit == Init /\ DhcpInit

DhcpAlone == (Client \/ Thread) /\ UNCHANGED vars

(* "dhcp " + mIpAddress, sntpSetServerName and sntpInit.  Mutant: no       *)
(* sntpInit.                                                               *)
AddressAssigned_NoClock == Assign /\ UNCHANGED vars
AddressAssigned == Assign /\ SntpInit

SntpAlone == Running /\ UNCHANGED dhcpVars

NetNext == DhcpAlone \/ AddressAssigned \/ SntpAlone
NetSpec == NetInit /\ [][NetNext]_netStateVars

(* The dhcp thread runs, though of low priority, and armed timeouts expire,*)
(* as no packets come for ever; DNS answers or gives up.  The servers have *)
(* no duty.                                                                *)
NetFairness ==
  /\ WF_netStateVars(Thread /\ UNCHANGED vars)
  /\ WF_netStateVars(AddressAssigned)
  /\ WF_netStateVars(DhcpTimeout /\ UNCHANGED vars)
  /\ WF_netStateVars(Timeout /\ UNCHANGED dhcpVars)
  /\ WF_netStateVars(DnsFound /\ UNCHANGED dhcpVars)
FairNetSpec == NetSpec /\ NetFairness
-----------------------------------------------------------------------------
(* A board that was given an address asks for the time, and asks again and *)
(* again, whatever is lost, late, refused or of no use, and whatever       *)
(* becomes of its address.                                                 *)
KeepsTrying ==
  <>(dhcpState = "supplied") => []<><<RequestTimeout>>_netStateVars
=============================================================================
