-------------------------------- MODULE Dhcp --------------------------------
(***************************************************************************)
(* How the board gets its address: the dhcp thread of usbMsc/main.cpp,     *)
(* which starts LwIP's DHCP client, polls it four times a second and stops *)
(* it after five tries, and that client (LwIP's dhcp.c).                   *)
(*                                                                         *)
(* The client runs in the TCP/IP thread, of high priority; the dhcp thread *)
(* is below normal.  So a handler of the client is one step, and any       *)
(* number of them may come between two statements of the dhcp thread,      *)
(* dhcp_start included.                                                    *)
(*                                                                         *)
(* A server's answers may be lost, late or repeated: they carry the        *)
(* transaction id of the DISCOVER, which a REQUEST and all its             *)
(* repetitions share, so that any kind of answer may come in any state.    *)
(* Leases end, and last three minutes at least.                            *)
(***************************************************************************)
EXTENDS Naturals

CONSTANTS
  Leases,       \* the addresses a server may assign
  MaxTries      \* bound: more tries are not counted (the code counts to 255)

NoLease == "0.0.0.0"
ASSUME DhcpAssumption ==
  NoLease \notin Leases /\ MaxTries \in Nat /\ MaxTries > 5

VARIABLES
  state,        \* dhcp->state
  tries,        \* dhcp->tries
  request_timeout,  \* it is armed
  lease,        \* the timers of the lease, t0, t1 and t2, that are armed
  ip_addr,      \* netif->ip_addr
  dhcpState,    \* where the dhcp thread is
  mIpAddress,   \* the address it has shown
  polled,       \* it has looked at the client since the last of the client's
                \* timers was set
  noId,         \* history: an OFFER without a server id was taken
  naked         \* history: a NAK took the address, whose lease's timers run on

clientVars == <<state, tries, request_timeout, lease, ip_addr>>
threadVars == <<dhcpState, mIpAddress>>
history == <<noId, naked>>
dhcpVars == <<clientVars, threadVars, polled, history>>

States == {"OFF", "SELECTING", "REQUESTING", "CHECKING", "BACKING_OFF",
           "BOUND", "RENEWING", "REBINDING"}
Supplied == {"BOUND", "RENEWING", "REBINDING"}     \* dhcp_supplied_address

DhcpInit ==
  /\ state = "OFF" /\ tries = 0 /\ request_timeout = FALSE /\ lease = {}
  /\ ip_addr = NoLease /\ dhcpState = "START" /\ mIpAddress = NoLease
  /\ polled = FALSE /\ noId = FALSE /\ naked = FALSE

-----------------------------------------------------------------------------
(* dhcp_set_state forgets the tries when the state changes.  Mutant: always. *)
TriesIn_Forgets(s) == 0
TriesIn(s) == IF s = state THEN tries ELSE 0

Counted(n) == IF n = MaxTries THEN n ELSE n + 1

(* What a message of the client does after n tries in state s: it counts   *)
(* one more and sets the request timeout, also when there is no memory to  *)
(* send it.                                                                *)
Sends(s, n) ==
  /\ state' = s /\ tries' = Counted(n) /\ request_timeout' = TRUE
  /\ polled' = FALSE

(* A message that leaves the lease, the address and the thread alone.      *)
Asks(s, n) == Sends(s, n) /\ UNCHANGED <<lease, ip_addr, threadVars, history>>

(* dhcp_release stops all timers of the lease.  Mutant: that of its end.   *)
AfterRelease_EndOnly == lease \ {"t0"}
AfterRelease == {}

(* dhcp_bind                                                               *)
Bind ==
  /\ state' = "BOUND" /\ tries' = 0 /\ request_timeout' = FALSE
  /\ lease' = {"t0", "t1", "t2"} /\ ip_addr' \in Leases /\ polled' = FALSE
  /\ naked' = FALSE /\ UNCHANGED <<threadVars, noId>>

(* netif_set_addr in dhcp_handle_nak.  Mutant: the address stays.          *)
AddrAfterNak_Kept == ip_addr
AddrAfterNak == NoLease

-----------------------------------------------------------------------------
(* The answers of a server: dhcp_recv.                                     *)
Offer ==
  /\ state = "SELECTING" /\ Asks("REQUESTING", 0)

(* The timeout is cleared before the offer is looked at.                   *)
OfferWithoutId ==
  /\ state = "SELECTING" /\ request_timeout' = FALSE /\ noId' = TRUE
  /\ UNCHANGED <<state, tries, lease, ip_addr, threadVars, polled, naked>>

Ack ==
  \/ state = "REQUESTING" /\ Asks("CHECKING", 0)
  \/ state \in {"RENEWING", "REBINDING"} /\ Bind

Nak ==
  /\ state \in {"REQUESTING", "RENEWING", "REBINDING"}
  /\ Sends("SELECTING", 0) /\ ip_addr' = AddrAfterNak
  /\ naked' = (naked \/ ip_addr # NoLease)
  /\ UNCHANGED <<lease, threadVars, noId>>

(* dhcp_arp_reply: another host has the address, which is declined.        *)
ArpReply ==
  /\ state = "CHECKING" /\ Asks("BACKING_OFF", 0)

-----------------------------------------------------------------------------
(* A timeout that is seconds long leaves the thread the time for a poll.   *)
(* That of the first ARP check ends with the next tick.                    *)
Expires ==
  /\ request_timeout
  /\ \/ polled
     \/ dhcpState \in {"ADDRESS_ASSIGNED", "TIMEOUT"}
     \/ state = "CHECKING" /\ tries <= 1

(* dhcp_timeout.  Mutant: it does not know of the back-off.                *)
Restarts_NotBackOff == {"SELECTING"}
Restarts == {"BACKING_OFF", "SELECTING"}

DhcpTimeout ==
  /\ Expires
  /\ \/ state \in Restarts /\ Asks("SELECTING", TriesIn("SELECTING"))
     \/ /\ state = "REQUESTING" /\ tries <= 5
        /\ Asks("REQUESTING", TriesIn("REQUESTING"))
     \/ /\ state = "REQUESTING" /\ tries > 5       \* releases what it has not
        /\ Sends("SELECTING", 0) /\ lease' = AfterRelease /\ naked' = FALSE
        /\ UNCHANGED <<ip_addr, threadVars, noId>>
     \/ /\ state = "CHECKING" /\ tries <= 1
        /\ Asks("CHECKING", TriesIn("CHECKING"))
     \/ state = "CHECKING" /\ tries > 1 /\ Bind
     \/ /\ state \notin Restarts \cup {"REQUESTING", "CHECKING"}
        /\ request_timeout' = FALSE
        /\ UNCHANGED <<state, tries, lease, ip_addr, threadVars, polled,
                       history>>

(* dhcp_coarse_tmr, once a minute: one of the lease's timers expires, t0   *)
(* before t2 before t1, and t1 and t2 may be set again.  No lease ends     *)
(* before the thread has seen it.                                          *)
LeaseTimer == dhcpState = "ADDRESS_ASSIGNED" /\ state # "OFF"

LeaseEnds ==
  /\ LeaseTimer /\ "t0" \in lease
  /\ Sends("SELECTING", 0) /\ lease' = AfterRelease
  /\ ip_addr' = IF state \in Supplied THEN NoLease ELSE ip_addr
  /\ naked' = FALSE /\ UNCHANGED <<threadVars, noId>>

Prolongs(t, from, to) ==
  /\ LeaseTimer /\ t \in lease
  /\ lease' \in {lease, lease \ {t}}
  /\ IF state \in from
     THEN Sends(to, TriesIn(to))
     ELSE lease' # lease /\ UNCHANGED <<state, tries, request_timeout, polled>>
  /\ UNCHANGED <<ip_addr, threadVars, history>>

Renew == Prolongs("t1", {"REQUESTING", "BOUND", "RENEWING"}, "RENEWING")
Rebind == Prolongs("t2", {"REQUESTING"} \cup Supplied, "REBINDING")

Receive == Offer \/ OfferWithoutId \/ Ack \/ Nak \/ ArpReply
Client == Receive \/ DhcpTimeout \/ LeaseEnds \/ Renew \/ Rebind

-----------------------------------------------------------------------------
(* The dhcp thread.  dhcp_start has sent the DISCOVER when it counts the   *)
(* try and sets the timeout: it may have been answered meanwhile.  Without *)
(* memory for it dhcp_start stops the client, and the thread, which does   *)
(* not look at its result, polls on.                                       *)
Start ==
  /\ dhcpState = "START" /\ dhcpState' = "started"
  /\ ip_addr' = NoLease /\ state' = "SELECTING" /\ tries' = 0
  /\ request_timeout' = FALSE /\ lease' = {}
  /\ UNCHANGED <<mIpAddress, polled, history>>

Started ==
  /\ dhcpState = "started" /\ dhcpState' = "WAIT_ADDRESS" /\ polled' = FALSE
  /\ \/ tries' = Counted(tries) /\ request_timeout' = TRUE /\ UNCHANGED state
     \/ /\ state = "SELECTING" /\ state' = "OFF"
        /\ tries' = 0 /\ request_timeout' = FALSE
  /\ UNCHANGED <<lease, ip_addr, mIpAddress, history>>

Poll ==
  /\ dhcpState = "WAIT_ADDRESS"
  /\ dhcpState' = IF state \in Supplied THEN "supplied" ELSE "unsupplied"
  /\ polled' = TRUE
  /\ UNCHANGED <<clientVars, mIpAddress, history>>

Assign ==
  /\ dhcpState = "supplied" /\ dhcpState' = "ADDRESS_ASSIGNED"
  /\ mIpAddress' = ip_addr
  /\ UNCHANGED <<clientVars, polled, history>>

GivesUp == tries > 4

CheckTries ==
  /\ dhcpState = "unsupplied"
  /\ dhcpState' = IF GivesUp THEN "stop" ELSE "WAIT_ADDRESS"
  /\ UNCHANGED <<clientVars, mIpAddress, polled, history>>

(* dhcp_stop                                                               *)
Stop ==
  /\ dhcpState = "stop" /\ dhcpState' = "TIMEOUT"
  /\ state' = "OFF" /\ tries' = 0 /\ request_timeout' = FALSE
  /\ UNCHANGED <<lease, ip_addr, mIpAddress, polled, history>>

Thread == Start \/ Started \/ Poll \/ CheckTries \/ Stop
DhcpNext == Client \/ Thread \/ Assign
DhcpSpec == DhcpInit /\ [][DhcpNext]_dhcpVars
-----------------------------------------------------------------------------
DhcpTypeOK ==
  /\ state \in States /\ tries \in 0..MaxTries
  /\ lease \subseteq {"t0", "t1", "t2"}
  /\ ip_addr \in Leases \cup {NoLease} /\ mIpAddress \in Leases \cup {NoLease}
  /\ dhcpState \in {"START", "started", "WAIT_ADDRESS", "supplied",
                    "unsupplied", "stop", "ADDRESS_ASSIGNED", "TIMEOUT"}

(* An address is used only under a lease whose end is timed: not after a   *)
(* NAK, not after the end of the lease, and not after the thread gave up,  *)
(* though the client may get an answer between its look at the tries and   *)
(* dhcp_stop.  What the thread has shown was an address.                   *)
AddrIsLeased ==
  /\ ip_addr # NoLease => state \in Supplied /\ "t0" \in lease
  /\ dhcpState = "ADDRESS_ASSIGNED" => mIpAddress # NoLease

(* "This timer checks whether an outstanding DHCP request is timed out":   *)
(* a client that is on has a timer that makes it go on, unless an OFFER    *)
(* without a server id stopped it.                                         *)
NeverIdle ==
  dhcpState \notin {"START", "started"} /\ state # "OFF" /\ ~noId =>
    request_timeout \/ ("t0" \in lease /\ state \in Supplied)

(* When dhcp_supplied_address says so there is an address, except while    *)
(* the timers of a lease that a NAK ended run on: they take a client that  *)
(* asks for a new address straight to REBINDING or RENEWING.               *)
SuppliedHasAddr == state \in Supplied /\ ~naked => ip_addr # NoLease

(* The thread comes to an end, with an address or without, if offers are   *)
(* not refused for ever by NAKs and ARP replies, and if there was memory   *)
(* for the client's first message.                                         *)
DhcpSettles ==
  <>[][~(Nak \/ ArpReply)]_dhcpVars =>
    <>(\/ noId \/ (dhcpState = "WAIT_ADDRESS" /\ state = "OFF")
       \/ dhcpState \in {"ADDRESS_ASSIGNED", "TIMEOUT"})
=============================================================================
