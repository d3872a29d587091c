-------------------------------- MODULE Sntp --------------------------------
(***************************************************************************)
(* The SNTP client of usbMsc/sntp.cpp: it asks a server for the time, and  *)
(* asks again after an hour, after 3 seconds without an answer, or after   *)
(* an answer it cannot use.  It has no thread of its own: what it does     *)
(* next is in the timeouts it armed and in the DNS query it waits for.     *)
(* Its functions run one at a time, in the TCP/IP thread.                  *)
(*                                                                         *)
(* Answers may be lost, duplicated and overtaken.  SNTP_MAX_SERVERS is 1,  *)
(* and its name is resolved for each request, to an address that may       *)
(* change.                                                                 *)
(***************************************************************************)
EXTENDS Naturals

CONSTANTS
  Addrs,        \* the addresses the name may be resolved to
  Kinds,        \* the packets a server may answer with
  MaxTimeouts,  \* bound: more timeouts of a handler are not counted
  MaxDns        \* DNS_TABLE_SIZE

(* "answer" is a correct one; "kod" a kiss-of-death; "short" has another   *)
(* length; "other" is of another mode.                                     *)
ASSUME SntpAssumption ==
  /\ Kinds \subseteq {"answer", "kod", "short", "other"}
  /\ "none" \notin Addrs
  /\ {MaxTimeouts, MaxDns} \subseteq Nat \ {0}

VARIABLES
  sntp_pcb,                  \* sntpInit has been called
  timeouts,                  \* how often each handler is armed
  dns,                       \* DNS queries in progress
  sntp_last_server_address,
  replies,                   \* packets on their way to the client
  asked,                     \* that request can still be answered
  late                       \* history: an answer was still on its way when
                             \* its receive timeout expired

netVars == <<replies, asked, late>>
vars == <<sntp_pcb, timeouts, dns, sntp_last_server_address, netVars>>

NoAddr == "none"
Handlers == {"sntp_request", "sntp_try_next_server"}
Replies == [kind : Kinds, from : Addrs]

Init ==
  /\ sntp_pcb = FALSE
  /\ timeouts = [h \in Handlers |-> 0] /\ dns = 0
  /\ sntp_last_server_address = NoAddr
  /\ replies = {} /\ asked = FALSE /\ late = FALSE

-----------------------------------------------------------------------------
(* sys_timeout arms a handler once more.                                   *)
sys_timeout(t, h) ==
  IF t[h] = MaxTimeouts THEN t ELSE [t EXCEPT ![h] = @ + 1]

(* sys_untimeout removes one, if there is one.                             *)
Removed(t, h) == IF t[h] = 0 THEN t ELSE [t EXCEPT ![h] = @ - 1]

(* sntp_try_next_server has no other server to try, and retries; sntp_retry *)
(* arms sntp_request.  Mutant: it gives up.                                 *)
TryNextServer_GivesUp(t) == t
TryNextServer(t) == sys_timeout(t, "sntp_request")

(* The timeout of sntp_send_request.                                       *)
ReceiveTimeout(t) == sys_timeout(t, "sntp_try_next_server")

SendRequest(t) ==
  \/ /\ sntp_last_server_address' \in Addrs
     /\ timeouts' = ReceiveTimeout(t)
     /\ asked' = TRUE /\ UNCHANGED replies
  \/ /\ timeouts' = sys_timeout(t, "sntp_request")   \* no memory
     /\ UNCHANGED <<replies, asked, sntp_last_server_address>>

(* sntp_request: the name is being resolved, is resolved, or cannot be.    *)
Request(t) ==
  \/ /\ dns < MaxDns /\ dns' = dns + 1 /\ timeouts' = t
     /\ UNCHANGED <<replies, asked, sntp_last_server_address>>
  \/ SendRequest(t) /\ UNCHANGED dns
  \/ /\ timeouts' = sys_timeout(t, "sntp_try_next_server")
     /\ UNCHANGED <<replies, asked, dns, sntp_last_server_address>>


SntpInit ==
  /\ ~sntp_pcb /\ sntp_pcb' = TRUE
  /\ Request(timeouts) /\ UNCHANGED late

(* A packet that is still on its way when a timeout expires is late.       *)
Overtake == late' = (late \/ asked \/ replies # {})

RequestTimeout ==
  /\ timeouts["sntp_request"] > 0
  /\ Request(Removed(timeouts, "sntp_request"))
  /\ Overtake /\ UNCHANGED sntp_pcb

TryNextServerTimeout ==
  /\ timeouts["sntp_try_next_server"] > 0
  /\ timeouts' = TryNextServer(Removed(timeouts, "sntp_try_next_server"))
  /\ Overtake
  /\ UNCHANGED <<sntp_pcb, dns, sntp_last_server_address, replies, asked>>

(* sntp_dns_found                                                          *)
DnsFound ==
  /\ dns > 0 /\ dns' = dns - 1
  /\ \/ SendRequest(timeouts)
     \/ /\ timeouts' = TryNextServer(timeouts)
        /\ UNCHANGED <<replies, asked, sntp_last_server_address>>
  /\ UNCHANGED <<sntp_pcb, late>>

(* The server answers, perhaps more than once.                             *)
ServerReply ==
  /\ asked
  /\ \E k \in Kinds :
       replies' = replies \cup
         {[kind |-> k, from |-> sntp_last_server_address]}
  /\ UNCHANGED <<sntp_pcb, timeouts, dns, sntp_last_server_address, asked,
                 late>>

(* Nothing that was sent so far will arrive any more.                      *)
Lose ==
  /\ asked' = FALSE /\ replies' = {}
  /\ UNCHANGED <<sntp_pcb, timeouts, dns, sntp_last_server_address, late>>

(* "packet received: stop retry timeout".  Mutant: only the receive timeout *)
(* is stopped.                                                             *)
Untimeout_NextOnly == Removed(timeouts, "sntp_try_next_server")
Untimeout == Removed(Removed(timeouts, "sntp_try_next_server"), "sntp_request")

(* What a packet tells: err of sntp_recv.  Every request has the same      *)
(* timestamp, so that the originate timestamp never tells them apart.      *)
Verdict(r) ==
  IF r.from # sntp_last_server_address \/ r.kind = "other" THEN "wait"
  ELSE IF r.kind = "answer" THEN "ok"
  ELSE IF r.kind = "kod" THEN "kod" ELSE "retry"

(* sntp_recv                                                               *)
Recv(r) ==
  /\ \/ Verdict(r) = "wait" /\ timeouts' = Untimeout
     \/ /\ Verdict(r) \in {"ok", "retry"}
        /\ timeouts' = sys_timeout(Untimeout, "sntp_request")
     \/ Verdict(r) = "kod" /\ timeouts' = TryNextServer(Untimeout)
  /\ replies' \in {replies, replies \ {r}}
  /\ UNCHANGED <<sntp_pcb, dns, sntp_last_server_address, asked, late>>

Timeout == RequestTimeout \/ TryNextServerTimeout
Running == Timeout \/ DnsFound \/ ServerReply \/ Lose
           \/ \E r \in replies : Recv(r)
Next == SntpInit \/ Running

Spec == Init /\ [][Next]_vars

-----------------------------------------------------------------------------
SntpTypeOK ==
  /\ {sntp_pcb, asked, late} \subseteq BOOLEAN
  /\ timeouts \in [Handlers -> 0..MaxTimeouts] /\ dns \in 0..MaxDns
  /\ sntp_last_server_address \in Addrs \cup {NoAddr}
  /\ replies \subseteq Replies
  /\ replies # {} => sntp_last_server_address # NoAddr

(* "set up receive timeout: try next server or retry on timeout": a client *)
(* that was started always has a timeout armed or a name to be resolved,   *)
(* whatever it received.                                                   *)
NeverStuck ==
  sntp_pcb => dns > 0 \/ \E h \in Handlers : timeouts[h] > 0

(* While no packet is later than a timeout, there is one thing             *)
(* the client waits for and never two: losses, retries, duplicated answers *)
(* and unusable ones do not multiply its requests.                         *)
OneAtATime ==
  ~late =>
    dns + timeouts["sntp_request"] + timeouts["sntp_try_next_server"] <= 1
=============================================================================
