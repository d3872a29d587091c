--------------------------- MODULE NetworkProofs ---------------------------
(***************************************************************************)
(* Proofs about Network.  The SNTP client waits for one thing at a time,   *)
(* for any addresses and packets, and never for nothing, when its server   *)
(* has one address and answers in server mode.  The DHCP client and the    *)
(* dhcp thread keep addresses and leases together, for any leases and      *)
(* numbers of tries.  Started by the dhcp thread, the SNTP client does     *)
(* what it does by itself, so that what is proved of Sntp holds in the     *)
(* composition.                                                            *)
(***************************************************************************)
EXTENDS Network, TLAPS

-----------------------------------------------------------------------------
(* The SNTP client.                                                        *)
Timeouts == [Handlers -> 0..MaxTimeouts]
Armed(t) == t["sntp_request"] + t["sntp_try_next_server"]

(* A server that can answer has an address.                                *)
ServerKnown == asked \/ replies # {} => sntp_last_server_address \in Addrs

(* The client asks after it resolved the name, and resolves it again only  *)
(* when the next timeout expires.                                          *)
AskedAfterDns == ~late /\ (asked \/ replies # {}) => dns = 0

(* Before sntpInit nothing is under way.                                   *)
NothingBefore ==
  ~sntp_pcb => /\ dns = 0 /\ Armed(timeouts) = 0
               /\ ~asked /\ replies = {}

SntpInv ==
  SntpTypeOK /\ ServerKnown /\ AskedAfterDns /\ NothingBefore /\ OneAtATime

-----------------------------------------------------------------------------
(* Arming a handler, and removing one.                                     *)
LEMMA Arming ==
  ASSUME NEW t \in Timeouts, NEW h \in Handlers
  PROVE  /\ sys_timeout(t, h) \in Timeouts
         /\ sys_timeout(t, h)[h] > 0
         /\ Armed(sys_timeout(t, h)) <= Armed(t) + 1
<1>1. MaxTimeouts \in Nat /\ MaxTimeouts > 0
  BY SntpAssumption
<1>2. CASE t[h] = MaxTimeouts
  BY <1>1, <1>2 DEF sys_timeout, Timeouts, Armed, Handlers
<1>3. CASE t[h] # MaxTimeouts
  <2>1. sys_timeout(t, h) = [t EXCEPT ![h] = t[h] + 1]
    BY <1>3 DEF sys_timeout
  <2>2. t[h] + 1 \in 0..MaxTimeouts
    BY <1>1, <1>3 DEF Timeouts
  <2> QED
    BY <1>1, <2>1, <2>2 DEF Timeouts, Armed, Handlers
<1> QED
  BY <1>2, <1>3

LEMMA Removing ==
  ASSUME NEW t \in Timeouts, NEW h \in Handlers
  PROVE  /\ Removed(t, h) \in Timeouts
         /\ Armed(Removed(t, h)) <= Armed(t)
         /\ t[h] > 0 => Armed(Removed(t, h)) = Armed(t) - 1
         /\ Armed(t) <= 1 => Removed(t, h)[h] = 0
<1>1. MaxTimeouts \in Nat /\ MaxTimeouts > 0
  BY SntpAssumption
<1>2. CASE t[h] = 0
  BY <1>1, <1>2 DEF Removed, Timeouts, Armed, Handlers
<1>3. CASE t[h] # 0
  <2>1. Removed(t, h) = [t EXCEPT ![h] = t[h] - 1]
    BY <1>3 DEF Removed
  <2>2. t[h] - 1 \in 0..MaxTimeouts
    BY <1>1, <1>3 DEF Timeouts
  <2> QED
    BY <1>1, <2>1, <2>2 DEF Timeouts, Armed, Handlers
<1> QED
  BY <1>2, <1>3

(* The number of armed timeouts.                                           *)
LEMMA ArmedType ==
  ASSUME NEW t \in Timeouts
  PROVE  Armed(t) \in Nat
BY SntpAssumption DEF Armed, Timeouts, Handlers

(* A packet stops every timeout, if at most one was armed.                 *)
LEMMA Untimed ==
  ASSUME timeouts \in Timeouts
  PROVE  /\ Untimeout \in Timeouts
         /\ Armed(timeouts) <= 1 => Armed(Untimeout) = 0
<1> DEFINE t1 == Removed(timeouts, "sntp_try_next_server")
           t2 == Removed(t1, "sntp_request")
<1>1. t1 \in Timeouts /\ Armed(t1) <= Armed(timeouts)
      /\ (Armed(timeouts) <= 1 => t1["sntp_try_next_server"] = 0)
  BY Removing DEF Handlers
<1>2. t2 \in Timeouts /\ (Armed(t1) <= 1 => t2["sntp_request"] = 0)
  BY <1>1, Removing DEF Handlers
<1>3. t2["sntp_try_next_server"] = t1["sntp_try_next_server"]
  BY <1>1 DEF Removed, Timeouts, Handlers
<1>4. Armed(timeouts) \in Nat /\ Armed(t1) \in Nat
  BY <1>1, ArmedType
<1>5. Armed(timeouts) <= 1 => Armed(t2) = 0
  <2> SUFFICES ASSUME Armed(timeouts) <= 1 PROVE Armed(t2) = 0
    OBVIOUS
  <2>1. Armed(t1) <= 1
    BY <1>1, <1>4
  <2>2. t2["sntp_request"] = 0 /\ t2["sntp_try_next_server"] = 0
    BY <1>1, <1>2, <1>3, <2>1
  <2> QED
    BY <2>2 DEF Armed
<1> QED
  BY <1>2, <1>5 DEF Untimeout

(* What sending a request does ...                                         *)
LEMMA Sending ==
  ASSUME NEW t \in Timeouts, SendRequest(t)
  PROVE  /\ timeouts' \in Timeouts
         /\ Armed(timeouts') <= Armed(t) + 1
         /\ \E h \in Handlers : timeouts'[h] > 0
         /\ replies' = replies
         /\ \/ sntp_last_server_address' \in Addrs
            \/ UNCHANGED <<asked, sntp_last_server_address>>
         /\ asked' \in {TRUE, asked}
<1>1. PICK h \in Handlers : timeouts' = sys_timeout(t, h)
  BY DEF SendRequest, ReceiveTimeout, Handlers
<1>2. timeouts' \in Timeouts /\ Armed(timeouts') <= Armed(t) + 1
      /\ timeouts'[h] > 0
  BY <1>1, Arming
<1> QED
  BY <1>2 DEF SendRequest

(* ... and sntp_request: one more thing to wait for.                       *)
LEMMA Requesting ==
  ASSUME NEW t \in Timeouts, dns \in 0..MaxDns, Request(t)
  PROVE  /\ timeouts' \in Timeouts /\ dns' \in 0..MaxDns
         /\ dns' + Armed(timeouts') <= dns + Armed(t) + 1
         /\ dns' > 0 \/ \E h \in Handlers : timeouts'[h] > 0
         /\ replies' = replies
         /\ \/ sntp_last_server_address' \in Addrs
            \/ UNCHANGED <<asked, sntp_last_server_address>>
         /\ asked' \in {TRUE, asked}
         /\ dns' = dns \/ asked' = asked
<1>0. MaxDns \in Nat /\ Armed(t) \in Nat
  BY SntpAssumption, ArmedType
<1>1. CASE dns < MaxDns /\ dns' = dns + 1 /\ timeouts' = t
           /\ UNCHANGED <<replies, asked, sntp_last_server_address>>
  <2>1. /\ dns' \in 0..MaxDns /\ dns' > 0
        /\ dns' + Armed(timeouts') <= dns + Armed(t) + 1
    BY <1>0, <1>1
  <2> QED
    BY <1>1, <2>1
<1>2. CASE SendRequest(t) /\ UNCHANGED dns
  <2>1. /\ timeouts' \in Timeouts
        /\ Armed(timeouts') <= Armed(t) + 1
        /\ \E h \in Handlers : timeouts'[h] > 0
        /\ replies' = replies
        /\ \/ sntp_last_server_address' \in Addrs
           \/ UNCHANGED <<asked, sntp_last_server_address>>
        /\ asked' \in {TRUE, asked}
    BY <1>2, Sending
  <2>2. dns' + Armed(timeouts') <= dns + Armed(t) + 1
    BY <1>0, <1>2, <2>1, ArmedType
  <2> QED
    BY <1>2, <2>1, <2>2
<1>3. CASE timeouts' = sys_timeout(t, "sntp_try_next_server")
           /\ UNCHANGED <<replies, asked, dns, sntp_last_server_address>>
  <2>1. /\ timeouts' \in Timeouts /\ Armed(timeouts') <= Armed(t) + 1
        /\ timeouts'["sntp_try_next_server"] > 0
    BY <1>3, Arming DEF Handlers
  <2>2. dns' + Armed(timeouts') <= dns + Armed(t) + 1
    BY <1>0, <1>3, <2>1, ArmedType
  <2>3. \E h \in Handlers : timeouts'[h] > 0
    BY <2>1 DEF Handlers
  <2> QED
    BY <1>3, <2>1, <2>2, <2>3
<1> QED
  BY <1>1, <1>2, <1>3 DEF Request

-----------------------------------------------------------------------------
(* SntpInv holds before the client is started.                             *)
LEMMA SntpInvInit ==
  ASSUME Init
  PROVE  SntpInv
<1>1. timeouts \in Timeouts /\ Armed(timeouts) = 0
      /\ timeouts["sntp_request"] = 0 /\ timeouts["sntp_try_next_server"] = 0
  BY SntpAssumption DEF Init, Timeouts, Armed, Handlers
<1>2. dns = 0 /\ dns \in 0..MaxDns
  BY SntpAssumption DEF Init
<1>3. SntpTypeOK
  BY <1>1, <1>2 DEF Init, SntpTypeOK, Timeouts
<1>4. OneAtATime
  BY <1>1, <1>2 DEF OneAtATime
<1>5. ServerKnown /\ AskedAfterDns /\ NothingBefore
  BY <1>1, <1>2, Zenon DEF Init, ServerKnown, AskedAfterDns, NothingBefore
<1> QED
  BY <1>3, <1>4, <1>5 DEF SntpInv

(* SntpInv is inductive: what each step does to the packets and to the     *)
(* number of things the client waits for.                                  *)
LEMMA SntpInvStep ==
  ASSUME SntpInv, [Next]_vars
  PROVE  SntpInv'
<1> DEFINE Waits == dns + Armed(timeouts)
<1>a. /\ timeouts \in Timeouts /\ dns \in 0..MaxDns /\ replies \subseteq Replies
      /\ {sntp_pcb, asked, late} \subseteq BOOLEAN
      /\ sntp_last_server_address \in Addrs \cup {NoAddr}
  BY DEF SntpInv, SntpTypeOK, Timeouts
<1>b. /\ dns \in Nat /\ Armed(timeouts) \in Nat
  BY <1>a, ArmedType, SntpAssumption
<1>c. ~late => Waits <= 1
  BY <1>a, SntpAssumption DEF SntpInv, OneAtATime, Armed, Timeouts, Handlers
<1>d. NoAddr \notin Addrs
  BY SntpAssumption DEF NoAddr
<1>e. ServerKnown /\ AskedAfterDns /\ NothingBefore
  BY DEF SntpInv
(* It is enough to show these facts of a step.                             *)
<1>0. ASSUME /\ timeouts' \in Timeouts /\ dns' \in 0..MaxDns
             /\ replies' \subseteq Replies
             /\ {sntp_pcb', asked', late'} \subseteq BOOLEAN
             /\ sntp_last_server_address' \in Addrs \cup {NoAddr}
             /\ ServerKnown' /\ AskedAfterDns' /\ NothingBefore'
             /\ ~late' => (dns + Armed(timeouts))' <= 1
      PROVE  SntpInv'
  <2>1. Armed(timeouts)' = timeouts'["sntp_request"]
                           + timeouts'["sntp_try_next_server"]
    BY DEF Armed
  <2>2. /\ dns' \in Nat /\ timeouts'["sntp_request"] \in Nat
        /\ timeouts'["sntp_try_next_server"] \in Nat
    BY <1>0, SntpAssumption DEF Timeouts, Handlers
  <2>3. OneAtATime'
    BY <1>0, <2>1, <2>2 DEF OneAtATime
  <2> QED
    BY <1>0, <1>d, <2>3 DEF SntpInv, SntpTypeOK, Timeouts, ServerKnown
<1>1. CASE SntpInit
  <2>1. /\ timeouts' \in Timeouts /\ dns' \in 0..MaxDns
        /\ dns' + Armed(timeouts') <= dns + Armed(timeouts) + 1
        /\ replies' = replies
        /\ \/ sntp_last_server_address' \in Addrs
           \/ UNCHANGED <<asked, sntp_last_server_address>>
        /\ asked' \in {TRUE, asked}
        /\ dns' = dns \/ asked' = asked
    BY <1>1, <1>a, Requesting DEF SntpInit
  <2>2. /\ ~sntp_pcb /\ sntp_pcb' = TRUE /\ late' = late
    BY <1>1 DEF SntpInit
  <2>3. dns = 0 /\ Armed(timeouts) = 0 /\ ~asked /\ replies = {}
    BY <1>e, <2>2 DEF NothingBefore
  <2>4. (dns + Armed(timeouts))' <= 1
    BY <2>1, <2>3
  <2>5. ServerKnown' /\ AskedAfterDns' /\ NothingBefore'
    BY <2>1, <2>2, <2>3 DEF ServerKnown, AskedAfterDns, NothingBefore
  <2> QED
    BY <1>0, <1>a, <2>1, <2>2, <2>4, <2>5
<1>2. CASE RequestTimeout
  <2> DEFINE t == Removed(timeouts, "sntp_request")
  <2>1. /\ t \in Timeouts /\ Armed(t) = Armed(timeouts) - 1
    BY <1>2, <1>a, Removing DEF RequestTimeout, Handlers
  <2>2. /\ timeouts' \in Timeouts /\ dns' \in 0..MaxDns
        /\ dns' + Armed(timeouts') <= dns + Armed(t) + 1
        /\ replies' = replies
        /\ \/ sntp_last_server_address' \in Addrs
           \/ UNCHANGED <<asked, sntp_last_server_address>>
        /\ asked' \in {TRUE, asked}
        /\ dns' = dns \/ asked' = asked
    BY <1>2, <1>a, <2>1, Requesting DEF RequestTimeout
  <2>3. /\ sntp_pcb' = sntp_pcb
        /\ late' = (late \/ asked \/ replies # {})
        /\ timeouts["sntp_request"] > 0
    BY <1>2 DEF RequestTimeout, Overtake
  <2>4. Armed(timeouts) > 0 /\ sntp_pcb
    BY <1>a, <1>e, <2>3, SntpAssumption
    DEF Armed, Timeouts, Handlers, NothingBefore
  <2>5. ~late' => (dns + Armed(timeouts))' <= 1
    BY <1>a, <1>b, <1>c, <2>1, <2>2, <2>3, ArmedType
  <2>6. ~late => dns = 0
    BY <1>b, <1>c, <2>4
  <2>7. ServerKnown' /\ NothingBefore'
    BY <1>e, <2>2, <2>3, <2>4 DEF ServerKnown, NothingBefore
  <2>8. AskedAfterDns'
    <3> SUFFICES ASSUME ~late', asked' \/ replies' # {} PROVE dns' = 0
      BY DEF AskedAfterDns
    <3>1. ~late /\ ~asked /\ replies' = {}
      BY <2>2, <2>3
    <3>2. asked' /\ asked' # asked
      BY <3>1, Zenon
    <3> QED
      BY <2>2, <2>6, <3>1, <3>2
  <2> QED
    BY <1>0, <1>a, <2>2, <2>3, <2>5, <2>7, <2>8
<1>3. CASE TryNextServerTimeout
  <2> DEFINE t == Removed(timeouts, "sntp_try_next_server")
  <2>1. /\ t \in Timeouts /\ Armed(t) = Armed(timeouts) - 1
    BY <1>3, <1>a, Removing DEF TryNextServerTimeout, Handlers
  <2>2. timeouts' \in Timeouts /\ Armed(timeouts') <= Armed(t) + 1
    BY <1>3, <2>1, Arming DEF TryNextServerTimeout, TryNextServer, Handlers
  <2>3. /\ late' = (late \/ asked \/ replies # {})
        /\ UNCHANGED <<sntp_pcb, dns, sntp_last_server_address, replies, asked>>
        /\ timeouts["sntp_try_next_server"] > 0
    BY <1>3 DEF TryNextServerTimeout, Overtake
  <2>4. Armed(timeouts) > 0 /\ sntp_pcb
    BY <1>a, <1>e, <2>3, SntpAssumption
    DEF Armed, Timeouts, Handlers, NothingBefore
  <2>5. ~late' => (dns + Armed(timeouts))' <= 1
    BY <1>a, <1>b, <1>c, <2>1, <2>2, <2>3, ArmedType
  <2>6. ServerKnown' /\ AskedAfterDns' /\ NothingBefore'
    BY <1>e, <2>3, <2>4 DEF ServerKnown, AskedAfterDns, NothingBefore
  <2> QED
    BY <1>0, <1>a, <2>2, <2>3, <2>5, <2>6
<1>4. CASE DnsFound
  <2>1. /\ dns > 0 /\ dns' = dns - 1 /\ UNCHANGED <<sntp_pcb, late>>
    BY <1>4 DEF DnsFound
  <2>2. /\ timeouts' \in Timeouts
        /\ Armed(timeouts') <= Armed(timeouts) + 1
        /\ replies' = replies
        /\ \/ sntp_last_server_address' \in Addrs
           \/ UNCHANGED <<asked, sntp_last_server_address>>
        /\ asked' \in {TRUE, asked}
    <3>1. CASE SendRequest(timeouts)
      BY <3>1, <1>a, Sending
    <3>2. CASE timeouts' = TryNextServer(timeouts)
               /\ UNCHANGED <<replies, asked, sntp_last_server_address>>
      BY <3>2, <1>a, Arming DEF TryNextServer, Handlers
    <3> QED
      BY <1>4, <3>1, <3>2 DEF DnsFound
  <2>3. dns' \in 0..MaxDns
    BY <1>a, <2>1, SntpAssumption
  <2>4. ~late' => (dns + Armed(timeouts))' <= 1 /\ dns' = 0
    BY <1>b, <1>c, <2>1, <2>2, ArmedType
  <2>5. sntp_pcb
    BY <1>e, <2>1 DEF NothingBefore
  <2>6. ServerKnown' /\ AskedAfterDns' /\ NothingBefore'
    BY <1>e, <2>1, <2>2, <2>4, <2>5
    DEF ServerKnown, AskedAfterDns, NothingBefore
  <2> QED
    BY <1>0, <1>a, <2>1, <2>2, <2>3, <2>4, <2>6
<1>5. CASE ServerReply
  <2>1. sntp_last_server_address \in Addrs /\ sntp_pcb /\ (~late => dns = 0)
    BY <1>5, <1>e DEF ServerReply, ServerKnown, NothingBefore, AskedAfterDns
  <2>2. replies' \subseteq Replies
    BY <1>5, <1>a, <2>1 DEF ServerReply, Replies
  <2>3. UNCHANGED <<sntp_pcb, timeouts, dns, sntp_last_server_address, asked,
                    late>>
    BY <1>5 DEF ServerReply
  <2>4. ServerKnown' /\ AskedAfterDns' /\ NothingBefore'
    BY <2>1, <2>3 DEF ServerKnown, AskedAfterDns, NothingBefore
  <2> QED
    BY <1>0, <1>a, <1>c, <2>2, <2>3, <2>4
<1>6. CASE Lose
  <2>1. asked' = FALSE /\ replies' = {}
        /\ UNCHANGED <<sntp_pcb, timeouts, dns, sntp_last_server_address, late>>
    BY <1>6 DEF Lose
  <2>2. ServerKnown' /\ AskedAfterDns' /\ NothingBefore'
    BY <1>e, <2>1 DEF ServerKnown, AskedAfterDns, NothingBefore
  <2> QED
    BY <1>0, <1>a, <1>c, <2>1, <2>2
<1>7. ASSUME NEW r \in replies, Recv(r) PROVE SntpInv'
  <2>1. Untimeout \in Timeouts /\ (Armed(timeouts) <= 1 => Armed(Untimeout) = 0)
    BY <1>a, Untimed
  <2>2. timeouts' \in Timeouts /\ Armed(timeouts') <= Armed(Untimeout) + 1
    <3>1. Armed(Untimeout) <= Armed(Untimeout) + 1
      BY <2>1, ArmedType
    <3>2. timeouts' = Untimeout
          \/ timeouts' = sys_timeout(Untimeout, "sntp_request")
      BY <1>7 DEF Recv, TryNextServer
    <3> QED
      BY <2>1, <3>1, <3>2, Arming DEF Handlers
  <2>3. /\ UNCHANGED <<sntp_pcb, dns, sntp_last_server_address, asked, late>>
        /\ replies' \in {replies, replies \ {r}}
    BY <1>7 DEF Recv
  <2>4. sntp_pcb /\ (~late => dns = 0)
    BY <1>7, <1>e DEF NothingBefore, AskedAfterDns
  <2>5. ~late' => (dns + Armed(timeouts))' <= 1
    BY <1>b, <1>c, <2>1, <2>2, <2>3, <2>4, ArmedType
  <2>6. ServerKnown' /\ AskedAfterDns' /\ NothingBefore'
    BY <1>7, <1>e, <2>3, <2>4 DEF ServerKnown, AskedAfterDns, NothingBefore
  <2>7. replies' \subseteq Replies
    BY <1>a, <2>3
  <2> QED
    BY <1>0, <1>a, <2>2, <2>3, <2>5, <2>6, <2>7
<1>8. CASE UNCHANGED vars
  BY <1>8 DEF vars, netVars, SntpInv, SntpTypeOK, ServerKnown, AskedAfterDns,
     NothingBefore, OneAtATime, Armed
<1> QED
  BY <1>1, <1>2, <1>3, <1>4, <1>5, <1>6, <1>7, <1>8 DEF Next, Running, Timeout

(* SntpInv holds in every reachable state.                                 *)
THEOREM Invariance == Spec => []SntpInv
<1>1. Init => SntpInv
  BY SntpInvInit
<1>2. SntpInv /\ [Next]_vars => SntpInv'
  BY SntpInvStep
<1> QED
  BY <1>1, <1>2, PTL DEF Spec

(* A handler is removed only when it is armed, and every packet comes from *)
(* a server that was asked.                                                *)
THEOREM SntpTypeCorrect == Spec => []SntpTypeOK
<1>1. SntpInv => SntpTypeOK
  BY DEF SntpInv
<1> QED
  BY <1>1, Invariance, PTL

(* While no packet is late, the client waits for one thing at a time.      *)
THEOREM WaitsForOne == Spec => []OneAtATime
<1>1. SntpInv => OneAtATime
  BY DEF SntpInv
<1> QED
  BY <1>1, Invariance, PTL

-----------------------------------------------------------------------------
(* The server has one address and answers in server mode.                  *)
OneServer == "other" \notin Kinds /\ \A a, b \in Addrs : a = b

(* Each step leaves the client something to wait for.                      *)
LEMMA NeverStuckStep ==
  ASSUME OneServer, SntpInv, NeverStuck, [Next]_vars
  PROVE  NeverStuck'
<1>a. timeouts \in Timeouts /\ dns \in 0..MaxDns /\ replies \subseteq Replies
  BY DEF SntpInv, SntpTypeOK, Timeouts
<1>1. CASE SntpInit
  BY <1>1, <1>a, Requesting DEF SntpInit, NeverStuck
<1>2. CASE RequestTimeout
  <2>1. Removed(timeouts, "sntp_request") \in Timeouts
    BY <1>a, Removing DEF Handlers
  <2> QED
    BY <1>2, <1>a, <2>1, Requesting DEF RequestTimeout, NeverStuck
<1>3. CASE TryNextServerTimeout
  <2>1. Removed(timeouts, "sntp_try_next_server") \in Timeouts
    BY <1>a, Removing DEF Handlers
  <2>2. timeouts'["sntp_request"] > 0
    BY <1>3, <2>1, Arming DEF TryNextServerTimeout, TryNextServer, Handlers
  <2> QED
    BY <2>2 DEF NeverStuck, Handlers
<1>4. CASE DnsFound
  <2>1. \E h \in Handlers : timeouts'[h] > 0
    <3>1. CASE SendRequest(timeouts)
      BY <3>1, <1>a, Sending
    <3>2. CASE timeouts' = TryNextServer(timeouts)
      <4>1. timeouts'["sntp_request"] > 0
        BY <3>2, <1>a, Arming DEF TryNextServer, Handlers
      <4> QED
        BY <4>1 DEF Handlers
    <3> QED
      BY <1>4, <3>1, <3>2 DEF DnsFound
  <2> QED
    BY <2>1 DEF NeverStuck
<1>5. ASSUME NEW r \in replies, Recv(r) PROVE NeverStuck'
  <2>1. r.from = sntp_last_server_address
    BY <1>5, <1>a DEF OneServer, SntpInv, ServerKnown, Replies
  <2>2. r.kind \in Kinds /\ r.kind # "other"
    BY <1>a DEF OneServer, Replies
  <2>3. Verdict(r) # "wait"
    BY <2>1, <2>2 DEF Verdict
  <2>4. timeouts' = sys_timeout(Untimeout, "sntp_request")
    BY <1>5, <2>3 DEF Recv, TryNextServer
  <2>5. timeouts'["sntp_request"] > 0
    BY <1>a, <2>4, Untimed, Arming DEF Handlers
  <2> QED
    BY <2>5 DEF NeverStuck, Handlers
<1>6. CASE ServerReply \/ Lose \/ UNCHANGED vars
  BY <1>6 DEF ServerReply, Lose, vars, NeverStuck
<1> QED
  BY <1>1, <1>2, <1>3, <1>4, <1>5, <1>6 DEF Next, Running, Timeout

(* With such a server, a client that was started never stops for good,     *)
(* whatever is lost, late or duplicated.                                   *)
THEOREM AlwaysArmed ==
  ASSUME OneServer
  PROVE  Spec => []NeverStuck
<1>1. Init => NeverStuck
  BY DEF Init, NeverStuck
<1>2. SntpInv /\ NeverStuck /\ [Next]_vars => NeverStuck'
  BY NeverStuckStep
<1> QED
  BY <1>1, <1>2, Invariance, PTL DEF Spec

-----------------------------------------------------------------------------
(* The types the DHCP proofs need, and the others.                         *)
DhcpTyped ==
  /\ state \in States /\ tries \in Nat
  /\ lease \subseteq {"t0", "t1", "t2"}

OtherTyped ==
  /\ tries <= MaxTries
  /\ ip_addr \in Leases \cup {NoLease} /\ mIpAddress \in Leases \cup {NoLease}
  /\ dhcpState \in {"START", "started", "WAIT_ADDRESS", "supplied",
                    "unsupplied", "stop", "ADDRESS_ASSIGNED", "TIMEOUT"}

(* Where the timers and the address of a lease are.                        *)
Timed ==
  /\ ip_addr # NoLease => state \in Supplied
  /\ lease # {} => "t0" \in lease
  /\ state \in Supplied => "t0" \in lease
  /\ lease # {} /\ ~naked => ip_addr # NoLease
  /\ state = "BOUND" => ip_addr # NoLease

(* How far the client gets before the thread looks: a lease is bound only  *)
(* after the thread has polled, so that the thread never stops a client    *)
(* that has an address.                                                    *)
InTime ==
  /\ dhcpState \in {"START", "started"} => ~polled /\ state # "BOUND"
  /\ state = "BOUND" => tries = 0
  /\ state = "CHECKING" => tries <= 3
  /\ state = "CHECKING" /\ dhcpState = "started" => tries <= 2
  /\ dhcpState # "ADDRESS_ASSIGNED" => state \notin {"RENEWING", "REBINDING"}
  /\ dhcpState = "supplied" => state = "BOUND"
  /\ dhcpState = "stop" =>
       state # "BOUND" /\ (state = "CHECKING" => ~polled)

Shown == dhcpState = "ADDRESS_ASSIGNED" => mIpAddress # NoLease

DhcpInv == DhcpTyped /\ OtherTyped /\ Timed /\ InTime /\ Shown /\ NeverIdle

(* The tries are natural numbers.                                          *)
LEMMA CountedNat ==
  ASSUME NEW n \in Nat
  PROVE  /\ Counted(n) \in Nat /\ Counted(n) <= n + 1
         /\ Counted(0) = 1
         /\ \A s \in States : TriesIn(s) \in {0, tries}
BY DhcpAssumption DEF Counted, TriesIn

(* The types are kept.                                                     *)
LEMMA DhcpTypedKept == DhcpTyped /\ [DhcpNext]_dhcpVars => DhcpTyped'
<1> SUFFICES ASSUME DhcpTyped, [DhcpNext]_dhcpVars PROVE DhcpTyped'
  OBVIOUS
<1> USE DEF DhcpTyped, Sends, Asks
<1>0. 0 \in Nat /\ Counted(0) \in Nat /\ Counted(tries) \in Nat
      /\ \A s \in States : Counted(TriesIn(s)) \in Nat
  BY CountedNat
<1>1. CASE Receive
  BY <1>0, <1>1 DEF Receive, Offer, OfferWithoutId, Ack, Nak, ArpReply, Bind,
     States
<1>2. CASE DhcpTimeout
  BY <1>0, <1>2 DEF DhcpTimeout, Bind, States, AfterRelease, Restarts
<1>3. CASE LeaseEnds
  BY <1>0, <1>3 DEF LeaseEnds, AfterRelease, States
<1>4. CASE Renew \/ Rebind
  BY <1>0, <1>4 DEF Renew, Rebind, Prolongs, States
<1>5. CASE Thread
  BY <1>0, <1>5 DEF Thread, Start, Started, Poll, CheckTries, Stop, clientVars,
     States
<1>6. CASE Assign \/ UNCHANGED dhcpVars
  BY <1>6 DEF Assign, dhcpVars, clientVars
<1> QED
  BY <1>1, <1>2, <1>3, <1>4, <1>5, <1>6 DEF DhcpNext, Client

(* The tries never exceed their bound, and the other types are kept.       *)
LEMMA TriesBounded ==
  ASSUME NEW n \in Nat, n <= MaxTries
  PROVE  /\ Counted(n) <= MaxTries /\ Counted(0) <= MaxTries
         /\ \A s \in States : TriesIn(s) \in {0, tries}
BY DhcpAssumption DEF Counted, TriesIn

LEMMA OtherTypedKept ==
  ASSUME DhcpTyped, OtherTyped, [DhcpNext]_dhcpVars
  PROVE  OtherTyped'
<1> USE DEF DhcpTyped, OtherTyped, Sends, Asks, threadVars, history
<1>0. /\ Counted(0) <= MaxTries /\ Counted(tries) <= MaxTries
      /\ \A s \in States : Counted(TriesIn(s)) <= MaxTries
      /\ 0 <= MaxTries
  BY TriesBounded, DhcpAssumption
<1>1. CASE Offer \/ OfferWithoutId \/ ArpReply
  BY <1>0, <1>1 DEF Offer, OfferWithoutId, ArpReply
<1>2. ASSUME Bind PROVE OtherTyped'
  BY <1>0, <1>2 DEF Bind
<1>3. CASE Ack
  BY <1>0, <1>2, <1>3 DEF Ack
<1>4. CASE Nak
  BY <1>0, <1>4 DEF Nak, AddrAfterNak
<1>5. CASE DhcpTimeout
  BY <1>0, <1>2, <1>5 DEF DhcpTimeout, Restarts, States
<1>6. CASE LeaseEnds
  BY <1>0, <1>6 DEF LeaseEnds
<1>7. CASE Renew \/ Rebind
  BY <1>0, <1>7 DEF Renew, Rebind, Prolongs, States
<1>8. CASE Start \/ Started
  BY <1>0, <1>8 DEF Start, Started
<1>9. CASE Poll \/ CheckTries
  BY <1>9 DEF Poll, CheckTries, clientVars
<1>10. CASE Stop \/ Assign \/ UNCHANGED dhcpVars
  BY <1>0, <1>10 DEF Stop, Assign, dhcpVars, clientVars
<1> QED
  BY <1>1, <1>3, <1>4, <1>5, <1>6, <1>7, <1>8, <1>9, <1>10
     DEF DhcpNext, Client, Receive, Thread

(* The lease's timers and the address are kept together.                   *)
LEMMA TimedKept ==
  ASSUME DhcpTyped, Timed, InTime, [DhcpNext]_dhcpVars
  PROVE  Timed'
<1> USE DEF DhcpTyped, Timed, Sends, Asks, Supplied, threadVars, history
<1>1. CASE Offer \/ OfferWithoutId \/ ArpReply \/ (state = "REQUESTING" /\ Ack)
  BY <1>1 DEF Offer, OfferWithoutId, ArpReply, Ack
<1>2. ASSUME Bind PROVE Timed'
  BY <1>2, DhcpAssumption DEF Bind
<1>3. CASE Nak
  BY <1>3 DEF Nak, AddrAfterNak
<1>4. CASE DhcpTimeout
  BY <1>2, <1>4 DEF DhcpTimeout, Restarts, AfterRelease
<1>5. CASE LeaseEnds
  BY <1>5 DEF LeaseEnds, AfterRelease
<1>6. CASE Renew
  BY <1>6 DEF Renew, Prolongs
<1>7. CASE Rebind
  BY <1>7 DEF Rebind, Prolongs
<1>8. CASE Start \/ Stop
  BY <1>8 DEF Start, Stop, InTime
<1>9. CASE Started \/ Poll \/ CheckTries \/ Assign \/ UNCHANGED dhcpVars
  BY <1>9 DEF Started, Poll, CheckTries, Assign, dhcpVars, clientVars
<1> QED
  BY <1>1, <1>2, <1>3, <1>4, <1>5, <1>6, <1>7, <1>8, <1>9
     DEF DhcpNext, Client, Receive, Ack, Thread

(* Nothing is bound before the thread has polled.                          *)
LEMMA InTimeKept ==
  ASSUME DhcpTyped, InTime, [DhcpNext]_dhcpVars
  PROVE  InTime'
<1> USE DEF DhcpTyped, InTime, Sends, Asks, Supplied, threadVars, history
<1>0. /\ Counted(0) = 1 /\ Counted(tries) \in Nat /\ Counted(tries) <= tries + 1
      /\ TriesIn("CHECKING") = tries \/ TriesIn("CHECKING") = 0
  BY CountedNat DEF States
<1>1. CASE Offer \/ OfferWithoutId \/ Nak \/ LeaseEnds
  <2>1. CASE Offer
    BY <2>1 DEF Offer
  <2>2. CASE OfferWithoutId
    BY <2>2 DEF OfferWithoutId
  <2>3. CASE Nak
    BY <2>3 DEF Nak
  <2>4. CASE LeaseEnds
    BY <2>4 DEF LeaseEnds, LeaseTimer
  <2> QED
    BY <1>1, <2>1, <2>2, <2>3, <2>4
<1>2. CASE ArpReply
  BY <1>2 DEF ArpReply
<1>3. CASE state = "REQUESTING" /\ Ack
  BY <1>0, <1>3 DEF Ack
<1>4. CASE state \in {"RENEWING", "REBINDING"} /\ Ack
  BY <1>4 DEF Ack, Bind
<1>5. CASE DhcpTimeout
  <2>1. CASE state = "CHECKING" /\ tries <= 1
    BY <1>0, <1>5, <2>1 DEF DhcpTimeout, Restarts
  <2>2. CASE state = "CHECKING" /\ tries > 1
    BY <1>5, <2>2 DEF DhcpTimeout, Restarts, Expires, Bind
  <2>3. CASE state # "CHECKING"
    BY <1>5, <2>3 DEF DhcpTimeout, Restarts
  <2> QED
    BY <2>1, <2>2, <2>3
<1>6. CASE Renew \/ Rebind
  BY <1>6 DEF Renew, Rebind, Prolongs, LeaseTimer
<1>7. CASE Start
  BY <1>7 DEF Start
<1>8. CASE Started
  BY <1>0, <1>8 DEF Started
<1>9. CASE Poll
  BY <1>9 DEF Poll, clientVars
<1>10. CASE CheckTries
  BY <1>10 DEF CheckTries, GivesUp, clientVars
<1>11. CASE Stop \/ Assign \/ UNCHANGED dhcpVars
  BY <1>11 DEF Stop, Assign, dhcpVars, clientVars
<1> QED
  BY <1>1, <1>2, <1>3, <1>4, <1>5, <1>6, <1>7, <1>8, <1>9, <1>10, <1>11
     DEF DhcpNext, Client, Receive, Ack, Thread

(* What has been shown was an address.                                     *)
LEMMA ShownKept ==
  ASSUME Timed, InTime, Shown, [DhcpNext]_dhcpVars
  PROVE  Shown'
<1> USE DEF Shown, threadVars
<1>1. CASE Client
  BY <1>1 DEF Client, Receive, Offer, OfferWithoutId, Ack, Nak, ArpReply,
     DhcpTimeout, LeaseEnds, Renew, Rebind, Prolongs, Asks, Bind
<1>2. CASE Assign
  BY <1>2 DEF Assign, Timed, InTime
<1>3. CASE Thread \/ UNCHANGED dhcpVars
  BY <1>3 DEF Thread, Start, Started, Poll, CheckTries, Stop, dhcpVars
<1> QED
  BY <1>1, <1>2, <1>3 DEF DhcpNext

(* A client that is on has a timer.                                        *)
LEMMA NeverIdleKept ==
  ASSUME DhcpTyped, Timed, NeverIdle, [DhcpNext]_dhcpVars
  PROVE  NeverIdle'
<1> USE DEF NeverIdle, Sends, Asks, Supplied, threadVars, history
<1>1. CASE Receive
  BY <1>1 DEF Receive, Offer, OfferWithoutId, Ack, Nak, ArpReply, Bind
<1>2. CASE DhcpTimeout
  BY <1>2 DEF DhcpTimeout, Restarts, Bind, Timed, DhcpTyped, States
<1>3. CASE LeaseEnds
  BY <1>3 DEF LeaseEnds
<1>4. CASE Renew \/ Rebind
  BY <1>4 DEF Renew, Rebind, Prolongs
<1>5. CASE Start \/ Started \/ Stop
  BY <1>5 DEF Start, Started, Stop
<1>6. CASE Poll \/ CheckTries \/ Assign \/ UNCHANGED dhcpVars
  BY <1>6 DEF Poll, CheckTries, Assign, dhcpVars, clientVars
<1> QED
  BY <1>1, <1>2, <1>3, <1>4, <1>5, <1>6 DEF DhcpNext, Client, Thread

-----------------------------------------------------------------------------
(* The steps of the composition are steps of each part, or leave it alone. *)
LEMMA NetStep == [NetNext]_netStateVars => [DhcpNext]_dhcpVars /\ [Next]_vars
BY DEF NetNext, DhcpAlone, AddressAssigned, SntpAlone, netStateVars, DhcpNext,
       Next

(* The DHCP invariant is inductive.                                        *)
LEMMA DhcpInvInit == NetInit => DhcpInv
BY DhcpAssumption
   DEF NetInit, DhcpInit, DhcpInv, DhcpTyped, OtherTyped, Timed, InTime, Shown,
       NeverIdle, States, Supplied

LEMMA DhcpInvStep == DhcpInv /\ [NetNext]_netStateVars => DhcpInv'
BY NetStep, DhcpTypedKept, OtherTypedKept, TimedKept, InTimeKept,
   ShownKept, NeverIdleKept
   DEF DhcpInv

(* Type correctness of the DHCP client and of the thread.                  *)
THEOREM DhcpTypeCorrect == NetSpec => []DhcpTypeOK
<1>1. DhcpInv => DhcpTypeOK
  BY DhcpAssumption DEF DhcpInv, DhcpTyped, OtherTyped, DhcpTypeOK
<1> QED
  BY <1>1, DhcpInvInit, DhcpInvStep, PTL DEF NetSpec

(* Nothing but an OFFER without a server id stops a client that is on.     *)
THEOREM ClientGoesOn == NetSpec => []NeverIdle
<1>1. DhcpInv => NeverIdle
  BY DEF DhcpInv
<1> QED
  BY <1>1, DhcpInvInit, DhcpInvStep, PTL DEF NetSpec

(* No address without a lease whose end is timed, after any answers and    *)
(* when the thread gives up.                                               *)
THEOREM LeasedAddr == NetSpec => []AddrIsLeased
<1>1. DhcpInv => AddrIsLeased
  BY DEF DhcpInv, Timed, Shown, AddrIsLeased
<1> QED
  BY <1>1, DhcpInvInit, DhcpInvStep, PTL DEF NetSpec

(* dhcp_supplied_address tells the truth unless a NAK left timers running. *)
THEOREM AddrIsSupplied == NetSpec => []SuppliedHasAddr
<1>1. DhcpInv => SuppliedHasAddr
  BY DEF DhcpInv, Timed, SuppliedHasAddr
<1> QED
  BY <1>1, DhcpInvInit, DhcpInvStep, PTL DEF NetSpec

(* The composition implements the SNTP client on its own: the dhcp thread  *)
(* does nothing to it that Sntp does not know of.                          *)
THEOREM SntpImplemented == NetSpec => Spec
<1>1. NetInit => Init
  BY DEF NetInit
<1>2. [NetNext]_netStateVars => [Next]_vars
  BY NetStep
<1> QED
  BY <1>1, <1>2, PTL DEF NetSpec, Spec

(* So it waits for one thing at a time also when the dhcp thread starts it *)
(* and the address changes meanwhile.                                      *)
THEOREM NetWaitsForOne == NetSpec => []OneAtATime
BY SntpImplemented, WaitsForOne, PTL

(* And it always has something that makes it go on, when the name has one  *)
(* address and the server answers in server mode.                          *)
THEOREM NetAlwaysArmed ==
  ASSUME OneServer
  PROVE  NetSpec => []NeverStuck
BY SntpImplemented, AlwaysArmed, PTL
=============================================================================
