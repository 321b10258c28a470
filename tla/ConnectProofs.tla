--------------------------- MODULE ConnectProofs ---------------------------
(***************************************************************************)
(* Proofs about Connect, for every set of profiles and any number of       *)
(* addresses, and about the Dial it is made of, for every set of resolved  *)
(* transports (chains of any length), every limit of the two handshakes    *)
(* and any number of bytes that follow an answer.                          *)
(*                                                                         *)
(* The inductive invariant of a dial says, for every place the dial can be *)
(* at, which addresses the stream goes through (Along), what it is made of *)
(* (Carried) and how much of the answer is still to be read (Counted).     *)
(***************************************************************************)
EXTENDS Connect, SequenceFacts


Addresses == {RouteOf(transport)[i] : i \in 1 .. Len(Hops) + 1}

\* Where the dial is, and with which hop it is talking.
Placed ==
  /\ transport \in Transports /\ pc \in Labels /\ hop \in Nat \ {0}
  /\ outcome \in {"dialing", "up", "failed"} /\ blocking \in BOOLEAN
  /\ pc = "done" <=> outcome # "dialing"
  /\ hop = 1 \/ hop <= Len(Hops)
  /\ pc = "first" => hop = 1
  /\ pc \notin {"first", "done"} => hop <= Len(Hops)

\* The stream goes through the route up to the hop, or one further.
Along ==
  /\ reached \in Seq(Addresses)
  /\ \A i \in 1 .. Len(reached) : reached[i] = RouteOf(transport)[i]
  /\ pc = "first" => Len(reached) = 0
  /\ pc \notin {"first", "next", "done"} => Len(reached) = hop
  /\ pc = "next" => Len(reached) = hop + 1

\* An SSH session is opened on a TCP stream only.
Carried ==
  /\ stream \in {"none", "tcp", "ssh"}
  /\ session \in Nat \cup {Absent}
  /\ SessionIsTheChannels
  /\ pc = "first" => stream = "none"
  /\ pc \in {"key", "login", "channel"} => stream = "tcp"

\* How much of an answer is left at every place that reads of it.
Counted ==
  /\ unread \in Nat /\ early \in Nat /\ header \in Nat /\ lost = 0
  /\ pc \in {"head", "bound", "domain", "name"} =>
       answer.atyp \in 1 .. 4 /\ answer.length \in Nat
  /\ pc = "head" => unread = SocksReplyLength(answer.atyp, answer.length)
  /\ pc = "bound" => \/ answer.atyp = 1 /\ unread = 6
                     \/ answer.atyp = 4 /\ unread = 18
  /\ pc = "domain" => unread = answer.length + 3
  /\ pc = "name" => unread = answer.length + 2
  /\ pc = "http" => /\ answer = Absent => header = 0
                    /\ answer # Absent =>
                         /\ answer.length \in Nat
                         /\ header < answer.length
                         /\ header + unread = answer.length
  /\ pc \notin {"head", "bound", "domain", "name", "http", "done"}
       \/ outcome = "up" => unread = 0

Inv == Placed /\ Along /\ Carried /\ Counted

-----------------------------------------------------------------------------
\* The hops of a transport are a sequence.
LEMMA HopsAreASequence ==
  ASSUME NEW t \in Transports
  PROVE  Len(t.hops) \in Nat /\ DOMAIN t.hops = 1 .. Len(t.hops)
  BY DialAssumption

\* Nothing of the dial has changed but its place.
LEMMA PlacedInit == DialInit => Placed
  BY DEF DialInit, Placed, Labels

LEMMA PlacedNext == Placed /\ DialNext => Placed'
  <1> SUFFICES ASSUME Placed, DialNext PROVE Placed'
    OBVIOUS
  <1> USE DEF Placed, Labels, Fail, Goto, Hops, Connected
  <1>0. Len(Hops) \in Nat
    BY HopsAreASequence
  <1>1. CASE ConnectFirst
    <2>1. CASE Hops = << >>
      BY <1>1, <2>1 DEF ConnectFirst
    <2>2. CASE Hops # << >>
      <3>1. Len(transport.hops) >= 1
        BY <2>2, DialAssumption
      <3> QED BY <1>1, <2>2, <3>1 DEF ConnectFirst
    <2> QED BY <2>1, <2>2
  <1>2. CASE BeginProxy
    BY <1>2 DEF BeginProxy
  <1>3. CASE BeginSsh
    BY <1>3 DEF BeginSsh
  <1>4. CASE NextHop
    BY <1>0, <1>4 DEF NextHop
  <1>5. CASE IoError
    BY <1>5 DEF IoError
  <1>6. ASSUME NEW version \in {4, 5}, NEW method \in {0, 2, 255},
               SocksMethod(version, method)
        PROVE  Placed'
    BY <1>6 DEF SocksMethod
  <1>7. ASSUME NEW subversion \in {1, 5}, NEW status \in {0, 1},
               SocksAuth(subversion, status)
        PROVE  Placed'
    BY <1>7 DEF SocksAuth
  <1>8. ASSUME NEW status \in {0, 5}, NEW atyp \in {1, 2, 3, 4},
               NEW length \in {0, MaxField}, SocksRequest(status, atyp, length)
        PROVE  Placed'
    BY <1>8 DEF SocksRequest
  <1>9. CASE SocksHead
    BY <1>9 DEF SocksHead
  <1>10. CASE SocksBound
    BY <1>10 DEF SocksBound
  <1>11. CASE SocksDomainLength
    BY <1>11 DEF SocksDomainLength
  <1>12. CASE SocksDomain
    BY <1>12 DEF SocksDomain
  <1>13. ASSUME NEW status \in {200, 407},
                NEW n \in {4, MaxHeader, MaxHeader + 1}, HttpAnswer(status, n)
         PROVE  Placed'
    BY <1>13 DEF HttpAnswer
  <1>14. CASE HttpReadByte
    BY <1>14 DEF HttpReadByte
  <1>15. CASE HttpStatus
    BY <1>15 DEF HttpStatus
  <1>16. ASSUME NEW key \in {<<"theirs">>, <<"another">>}, SshHostKey(key)
         PROVE  Placed'
    BY <1>16 DEF SshHostKey
  <1>17. ASSUME NEW ok \in BOOLEAN, SshLogin(ok)
         PROVE  Placed'
    BY <1>17 DEF SshLogin
  <1>18. CASE SshChannel
    BY <1>18 DEF SshChannel
  <1>19. ASSUME NEW nonblocking \in BOOLEAN, SetNonblocking(nonblocking)
         PROVE  Placed'
    BY <1>19 DEF SetNonblocking
  <1> QED
    BY <1>1, <1>2, <1>3, <1>4, <1>5, <1>6, <1>7, <1>8, <1>9, <1>10, <1>11,
       <1>12, <1>13, <1>14, <1>15, <1>16, <1>17, <1>18, <1>19 DEF DialNext

-----------------------------------------------------------------------------
\* Nothing of the line is left after an error.
LEMMA CarriedInit == DialInit => Carried
  BY DEF DialInit, Carried, SessionIsTheChannels

LEMMA CarriedNext == Placed /\ Carried /\ DialNext => Carried'
  <1> SUFFICES ASSUME Placed, Carried, DialNext PROVE Carried'
    OBVIOUS
  <1> USE DEF Placed, Carried, SessionIsTheChannels, Fail, Goto, Connected, line
  <1>1. CASE ConnectFirst
    BY <1>1 DEF ConnectFirst
  <1>2. CASE BeginProxy
    BY <1>2 DEF BeginProxy
  <1>3. CASE BeginSsh
    BY <1>3 DEF BeginSsh
  <1>4. CASE NextHop
    BY <1>4 DEF NextHop
  <1>5. CASE IoError
    BY <1>5 DEF IoError
  <1>6. ASSUME NEW version \in {4, 5}, NEW method \in {0, 2, 255},
               SocksMethod(version, method)
        PROVE  Carried'
    BY <1>6 DEF SocksMethod
  <1>7. ASSUME NEW subversion \in {1, 5}, NEW status \in {0, 1},
               SocksAuth(subversion, status)
        PROVE  Carried'
    BY <1>7 DEF SocksAuth
  <1>8. ASSUME NEW status \in {0, 5}, NEW atyp \in {1, 2, 3, 4},
               NEW length \in {0, MaxField}, SocksRequest(status, atyp, length)
        PROVE  Carried'
    BY <1>8 DEF SocksRequest
  <1>9. CASE SocksHead
    BY <1>9 DEF SocksHead
  <1>10. CASE SocksBound
    BY <1>10 DEF SocksBound
  <1>11. CASE SocksDomainLength
    BY <1>11 DEF SocksDomainLength
  <1>12. CASE SocksDomain
    BY <1>12 DEF SocksDomain
  <1>13. ASSUME NEW status \in {200, 407},
                NEW n \in {4, MaxHeader, MaxHeader + 1}, HttpAnswer(status, n)
         PROVE  Carried'
    BY <1>13 DEF HttpAnswer
  <1>14. CASE HttpReadByte
    BY <1>14 DEF HttpReadByte
  <1>15. CASE HttpStatus
    BY <1>15 DEF HttpStatus
  <1>16. ASSUME NEW key \in {<<"theirs">>, <<"another">>}, SshHostKey(key)
         PROVE  Carried'
    BY <1>16 DEF SshHostKey
  <1>17. ASSUME NEW ok \in BOOLEAN, SshLogin(ok)
         PROVE  Carried'
    BY <1>17 DEF SshLogin
  <1>18. CASE SshChannel
    BY DialAssumption, <1>18 DEF SshChannel
  <1>19. ASSUME NEW nonblocking \in BOOLEAN, SetNonblocking(nonblocking)
         PROVE  Carried'
    BY <1>19 DEF SetNonblocking
  <1> QED
    BY SMTT(30), <1>1, <1>2, <1>3, <1>4, <1>5, <1>6, <1>7, <1>8, <1>9,
       <1>10, <1>11, <1>12, <1>13, <1>14, <1>15, <1>16, <1>17, <1>18, <1>19
       DEF DialNext

-----------------------------------------------------------------------------
LEMMA CountedInit == DialInit => Counted
  BY DEF DialInit, Counted

LEMMA CountedNext == Placed /\ Counted /\ DialNext => Counted'
  <1> SUFFICES ASSUME Placed, Counted, DialNext PROVE Counted'
    OBVIOUS
  <1> USE DEF Placed, Counted, Fail, Goto, Connected, wire
  <1>1. CASE ConnectFirst
    BY <1>1 DEF ConnectFirst
  <1>2. CASE BeginProxy
    BY <1>2 DEF BeginProxy
  <1>3. CASE BeginSsh
    BY <1>3 DEF BeginSsh
  <1>4. CASE NextHop
    BY <1>4 DEF NextHop
  <1>5. CASE IoError
    BY <1>5 DEF IoError
  <1>6. ASSUME NEW version \in {4, 5}, NEW method \in {0, 2, 255},
               SocksMethod(version, method)
        PROVE  Counted'
    BY <1>6 DEF SocksMethod
  <1>7. ASSUME NEW subversion \in {1, 5}, NEW status \in {0, 1},
               SocksAuth(subversion, status)
        PROVE  Counted'
    BY <1>7 DEF SocksAuth
  <1>8. ASSUME NEW status \in {0, 5}, NEW atyp \in {1, 2, 3, 4},
               NEW length \in {0, MaxField}, SocksRequest(status, atyp, length)
        PROVE  Counted'
    <2>1. CASE Len(Onward[1]) > MaxField
      BY <1>8, <2>1 DEF SocksRequest
    <2>2. CASE ~(Len(Onward[1]) > MaxField)
      <3>1. early' \in Nat
        BY DialAssumption, <1>8, <2>2 DEF SocksRequest, EarlyBytes
      <3>2. /\ answer'.atyp = atyp /\ answer'.length = length
            /\ unread' = SocksReplyLength(atyp, length) /\ pc' = "head"
            /\ outcome' = outcome /\ header' = header /\ lost' = lost
            /\ pc = "request"
        BY <1>8, <2>2 DEF SocksRequest
      <3>3. length \in Nat /\ SocksReplyLength(atyp, length) \in Nat
        BY DialAssumption DEF SocksReplyLength
      <3> QED BY <3>1, <3>2, <3>3 DEF SocksReplyLength
    <2> QED BY <2>1, <2>2
  <1>9. CASE SocksHead
    <2>1. CASE answer.status # 0 \/ answer.atyp \notin {1, 3, 4}
      BY <1>9, <2>1 DEF SocksHead
    <2>2. CASE ~(answer.status # 0 \/ answer.atyp \notin {1, 3, 4})
      <3>1. /\ pc = "head" /\ ReadExact(4) /\ header' = header
            /\ pc' = IF answer.atyp = 3 THEN "domain" ELSE "bound"
            /\ outcome' = outcome
        BY <1>9, <2>2 DEF SocksHead
      <3>2. /\ answer.atyp \in {1, 3, 4} /\ answer.length \in Nat
            /\ unread = 4 + (IF answer.atyp = 1 THEN 4
                            ELSE IF answer.atyp = 3 THEN 1 + answer.length
                            ELSE 16) + 2
        BY <2>2, <3>1 DEF SocksReplyLength
      <3>3. /\ unread' = unread - 4 /\ early' = early /\ lost' = lost
            /\ answer' = answer
        BY SMTT(30), <3>1, <3>2 DEF ReadExact
      <3> QED BY SMTT(30), <3>1, <3>2, <3>3
    <2> QED BY <2>1, <2>2
  <1>10. CASE SocksBound
    BY <1>10 DEF SocksBound, ReadExact
  <1>11. CASE SocksDomainLength
    BY <1>11 DEF SocksDomainLength, ReadExact
  <1>12. CASE SocksDomain
    BY <1>12 DEF SocksDomain, ReadExact
  <1>13. ASSUME NEW status \in {200, 407},
                NEW n \in {4, MaxHeader, MaxHeader + 1}, HttpAnswer(status, n)
         PROVE  Counted'
    BY DialAssumption, <1>13 DEF HttpAnswer, EarlyBytes
  <1>14. CASE HttpReadByte
    BY SMTT(30), <1>14 DEF HttpReadByte, ReadExact
  <1>15. CASE HttpStatus
    BY <1>15 DEF HttpStatus
  <1>16. ASSUME NEW key \in {<<"theirs">>, <<"another">>}, SshHostKey(key)
         PROVE  Counted'
    BY <1>16 DEF SshHostKey
  <1>17. ASSUME NEW ok \in BOOLEAN, SshLogin(ok)
         PROVE  Counted'
    BY <1>17 DEF SshLogin
  <1>18. CASE SshChannel
    BY <1>18 DEF SshChannel
  <1>19. ASSUME NEW nonblocking \in BOOLEAN, SetNonblocking(nonblocking)
         PROVE  Counted'
    BY <1>19 DEF SetNonblocking
  <1> QED
    BY <1>1, <1>2, <1>3, <1>4, <1>5, <1>6, <1>7, <1>8, <1>9,
       <1>10, <1>11, <1>12, <1>13, <1>14, <1>15, <1>16, <1>17, <1>18, <1>19
       DEF DialNext

-----------------------------------------------------------------------------
(* The addresses the stream goes through. *)

\* The route of a transport: its hops, then its target.
LEMMA OnTheRoute ==
  ASSUME Placed
  PROVE  /\ Len(Hops) \in Nat
         /\ \A i \in 1 .. Len(Hops) : RouteOf(transport)[i] = Hops[i].addr
         /\ RouteOf(transport)[Len(Hops) + 1] = transport.target
         /\ \A i \in 1 .. Len(Hops) + 1 : RouteOf(transport)[i] \in Addresses
  BY HopsAreASequence DEF Placed, Hops, RouteOf, Addresses

LEMMA OnwardIsNext ==
  ASSUME Placed, hop <= Len(Hops)
  PROVE  /\ Onward = RouteOf(transport)[hop + 1]
         /\ Onward \in Addresses
  BY OnTheRoute DEF Placed, Onward

\* A handshake that succeeds takes the stream one address further.
LEMMA OneFurther ==
  ASSUME Placed, Along, Connected, pc \notin {"first", "next", "done"}
  PROVE  Along'
  <1>1. hop \in Nat /\ hop <= Len(Hops) /\ Len(reached) = hop
    BY DEF Placed, Along
  <1>2. Onward = RouteOf(transport)[hop + 1] /\ Onward \in Addresses
    BY <1>1, OnwardIsNext
  <1>3. transport' = transport /\ hop' = hop /\ pc' = "next"
        /\ reached' = Append(reached, Onward)
    BY DEF Connected, Goto
  <1>4. Addresses' = Addresses /\ RouteOf(transport') = RouteOf(transport)
    BY <1>3 DEF Addresses, Hops
  <1>5. reached' \in Seq(Addresses) /\ Len(reached') = hop + 1
    BY <1>1, <1>2, <1>3 DEF Along
  <1>6. \A i \in 1 .. Len(reached') : reached'[i] = RouteOf(transport)[i]
    BY <1>1, <1>2, <1>3, <1>5 DEF Along
  <1> QED BY <1>3, <1>4, <1>5, <1>6 DEF Along

LEMMA AddressesStay ==
  ASSUME transport' = transport
  PROVE  Addresses' = Addresses /\ RouteOf(transport') = RouteOf(transport)
  BY DEF Addresses, Hops

\* A step within a handshake, or an error.
LEMMA AlongStays ==
  ASSUME Along, transport' = transport, reached' = reached,
         \/ pc' = "done"
         \/ /\ hop' = hop
            /\ pc \notin {"first", "next", "done"}
            /\ pc' \notin {"first", "next", "done"}
  PROVE  Along'
  BY AddressesStay DEF Along

LEMMA AlongInit == DialInit => Along
  BY DEF DialInit, Along

LEMMA AlongNext == Placed /\ Along /\ DialNext => Along'
  <1> SUFFICES ASSUME Placed, Along, DialNext PROVE Along'
    OBVIOUS
  <1>1. CASE ConnectFirst
    <2>1. CASE Hops = << >>
      BY <1>1, <2>1, AlongStays DEF ConnectFirst, Fail
    <2>2. CASE Hops # << >>
      <3>1. Len(Hops) >= 1
        BY <2>2, DialAssumption DEF Placed, Hops
      <3>2. /\ hop = 1 /\ hop' = 1 /\ transport' = transport /\ pc' = "begin"
            /\ reached' = <<Hops[1].addr>>
        BY <1>1, <2>2 DEF ConnectFirst, Here, Placed, Goto
      <3>3. Hops[1].addr = RouteOf(transport)[1] /\ Hops[1].addr \in Addresses
        BY <3>1, OnTheRoute
      <3>4. /\ reached' \in Seq(Addresses) /\ Len(reached') = 1
            /\ reached'[1] = RouteOf(transport)[1]
        BY <3>2, <3>3
      <3> QED BY <3>2, <3>4, AddressesStay DEF Along
    <2> QED BY <2>1, <2>2
  <1>2. CASE BeginProxy
    BY <1>2, AlongStays DEF BeginProxy, Fail, Goto, Placed
  <1>3. CASE BeginSsh
    BY <1>3, AlongStays DEF BeginSsh, Fail, Goto, Placed
  <1>4. CASE NextHop
    <2>1. /\ transport' = transport /\ reached' = reached /\ pc = "next"
          /\ \/ hop' = hop + 1 /\ pc' = "begin"
             \/ pc' = "done"
      BY <1>4 DEF NextHop
    <2>2. Len(reached) = hop + 1
      BY <2>1 DEF Along
    <2> QED BY <2>1, <2>2, AddressesStay DEF Along
  <1>5. CASE IoError
    BY <1>5, AlongStays DEF IoError, Fail, Goto, Placed
  <1>6. ASSUME NEW version \in {4, 5}, NEW method \in {0, 2, 255},
               SocksMethod(version, method)
        PROVE  Along'
    BY <1>6, AlongStays DEF SocksMethod, Fail, Goto, Placed
  <1>7. ASSUME NEW subversion \in {1, 5}, NEW status \in {0, 1},
               SocksAuth(subversion, status)
        PROVE  Along'
    BY <1>7, AlongStays DEF SocksAuth, Fail, Goto, Placed
  <1>8. ASSUME NEW status \in {0, 5}, NEW atyp \in {1, 2, 3, 4},
               NEW length \in {0, MaxField}, SocksRequest(status, atyp, length)
        PROVE  Along'
    BY <1>8, AlongStays DEF SocksRequest, Fail, Goto, Placed
  <1>9. CASE SocksHead
    BY <1>9, AlongStays DEF SocksHead, Fail, Goto, Placed
  <1>10. CASE SocksBound
    BY <1>10, OneFurther DEF SocksBound
  <1>11. CASE SocksDomainLength
    BY <1>11, AlongStays DEF SocksDomainLength, Fail, Goto, Placed
  <1>12. CASE SocksDomain
    BY <1>12, OneFurther DEF SocksDomain
  <1>13. ASSUME NEW status \in {200, 407},
                NEW n \in {4, MaxHeader, MaxHeader + 1}, HttpAnswer(status, n)
         PROVE  Along'
    BY <1>13, AlongStays DEF HttpAnswer, Fail, Goto, Placed
  <1>14. CASE HttpReadByte
    BY <1>14, AlongStays DEF HttpReadByte, Fail, Goto, Placed
  <1>15. CASE HttpStatus
    BY <1>15, OneFurther, AlongStays DEF HttpStatus, Fail
  <1>16. ASSUME NEW key \in {<<"theirs">>, <<"another">>}, SshHostKey(key)
         PROVE  Along'
    BY <1>16, AlongStays DEF SshHostKey, Fail, Goto, Placed
  <1>17. ASSUME NEW ok \in BOOLEAN, SshLogin(ok)
         PROVE  Along'
    BY <1>17, AlongStays DEF SshLogin, Fail, Goto, Placed
  <1>18. CASE SshChannel
    BY <1>18, OneFurther, AlongStays DEF SshChannel, Fail
  <1>19. ASSUME NEW nonblocking \in BOOLEAN, SetNonblocking(nonblocking)
         PROVE  Along'
    BY <1>19, AddressesStay DEF SetNonblocking, Along
  <1> QED
    BY <1>1, <1>2, <1>3, <1>4, <1>5, <1>6, <1>7, <1>8, <1>9,
       <1>10, <1>11, <1>12, <1>13, <1>14, <1>15, <1>16, <1>17, <1>18, <1>19
       DEF DialNext

-----------------------------------------------------------------------------
LEMMA InvInit == DialInit => Inv
  BY PlacedInit, AlongInit, CarriedInit, CountedInit DEF Inv

LEMMA InvStutter == Inv /\ UNCHANGED dialVars => Inv'
  <1> SUFFICES ASSUME Inv, UNCHANGED dialVars PROVE Inv'
    OBVIOUS
  <1> USE DEF Inv, dialVars, line, wire
  <1>1. Placed'
    BY DEF Placed, Hops
  <1>2. Along'
    BY AddressesStay DEF Along
  <1>3. Carried'
    BY DEF Carried, SessionIsTheChannels
  <1>4. Counted'
    BY DEF Counted
  <1> QED BY <1>1, <1>2, <1>3, <1>4

\* The invariant holds for every dial.
LEMMA Invariance == DialSpec => []Inv
  <1>1. Inv /\ [DialNext]_dialVars => Inv'
    BY PlacedNext, AlongNext, CarriedNext, CountedNext, InvStutter DEF Inv
  <1> QED BY InvInit, <1>1, PTL DEF DialSpec

\* Every variable of a dial keeps its type; no count of bytes that are still
\* to be read goes below zero, and the hop is always one of the transport's
\* (dial_resolved_transport indexes the hops with it).
THEOREM TypeCorrect == DialSpec => []TypeOK
  <1>1. Inv => TypeOK
    <2> SUFFICES ASSUME Inv PROVE TypeOK
      OBVIOUS
    <2>1. Len(Hops) \in Nat /\ DOMAIN Hops = 1 .. Len(Hops)
      BY HopsAreASequence DEF Inv, Placed, Hops
    <2>2. under \subseteq Nat
      BY DialAssumption DEF Inv, Carried, SessionIsTheChannels
    <2> QED BY <2>1, <2>2 DEF TypeOK, Inv, Placed, Carried, Counted
  <1> QED BY <1>1, Invariance, PTL

\* The session that is kept is the one of the channel that is handed out, and
\* no other session is below it (final_session in dial_resolved_transport).
THEOREM SessionKept == DialSpec => []SessionIsTheChannels
  <1>1. Inv => SessionIsTheChannels
    BY DEF Inv, Carried
  <1> QED BY <1>1, Invariance, PTL

\* socks5_handshake_sync and http_connect_handshake_sync read an answer of any
\* length to its last byte and nothing of the connection behind it.
THEOREM BytesLeftAlone == DialSpec => []TunnelBytesIntact
  <1>1. Inv => TunnelBytesIntact
    BY DEF Inv, Counted, TunnelBytesIntact
  <1> QED BY <1>1, Invariance, PTL

-----------------------------------------------------------------------------
(* The refinement. *)

LEMMA RouteLength ==
  ASSUME Placed
  PROVE  /\ RouteOf(transport) =
              [i \in 1 .. Len(Hops) + 1 |-> RouteOf(transport)[i]]
         /\ Len(RouteOf(transport)) = Len(Hops) + 1
  <1>1. Len(Hops) \in Nat
    BY OnTheRoute
  <1>2. RouteOf(transport) = [i \in 1 .. Len(Hops) + 1 |->
           IF i <= Len(Hops) THEN Hops[i].addr ELSE transport.target]
    BY DEF RouteOf, Hops
  <1> QED BY <1>1, <1>2

\* An error abandons the connection.
LEMMA FailAbandons ==
  ASSUME Placed, Fail, pc # "done"
  PROVE  Abstract!Abandon
  BY DEF Placed, Fail, Abstract!Abandon

\* A handshake that succeeds extends it.
LEMMA ConnectedExtends ==
  ASSUME Placed, Along, Connected, pc \notin {"first", "next", "done"}
  PROVE  Abstract!Extend
  <1>1. /\ hop \in Nat /\ hop <= Len(Hops) /\ Len(reached) = hop
        /\ outcome = "dialing"
    BY DEF Placed, Along
  <1>2. Onward = RouteOf(transport)[Len(reached) + 1]
    BY <1>1, OnwardIsNext
  <1>3. Len(reached) < Len(RouteOf(transport))
    BY <1>1, RouteLength, OnTheRoute
  <1> QED BY <1>1, <1>2, <1>3, AddressesStay
          DEF Connected, Goto, Abstract!Extend

AbstractVars == <<RouteOf(transport), reached, outcome>>

\* A step within a handshake is not seen.
LEMMA HandshakeHidden ==
  ASSUME transport' = transport, reached' = reached, outcome' = outcome
  PROVE  UNCHANGED AbstractVars
  BY AddressesStay DEF AbstractVars

LEMMA StepsOfTheTunnel ==
  ASSUME Placed, Along, DialNext
  PROVE  Abstract!Next \/ UNCHANGED AbstractVars
  <1>1. CASE ConnectFirst
    <2>1. CASE Hops = << >>
      BY <1>1, <2>1, FailAbandons DEF ConnectFirst, Abstract!Next
    <2>2. CASE Hops # << >>
      <3>1. Len(Hops) >= 1
        BY <2>2, DialAssumption DEF Placed, Hops
      <3>2. /\ transport' = transport /\ outcome' = outcome
            /\ reached' = <<Hops[1].addr>> /\ pc = "first"
        BY <1>1, <2>2 DEF ConnectFirst, Here, Placed, Goto
      <3>3. Len(reached) = 0 /\ outcome = "dialing"
        BY <3>2 DEF Along, Placed
      <3>4. reached = << >>
        BY <3>3 DEF Along
      <3>5. Hops[1].addr = RouteOf(transport)[1]
        BY <3>1, OnTheRoute
      <3>6. reached' = Append(reached, RouteOf(transport)[Len(reached) + 1])
        BY <3>2, <3>3, <3>4, <3>5
      <3>7. Len(reached) < Len(RouteOf(transport))
        BY <3>1, <3>3, RouteLength, OnTheRoute
      <3> QED BY <3>2, <3>3, <3>6, <3>7, AddressesStay
              DEF Abstract!Next, Abstract!Extend
    <2> QED BY <2>1, <2>2
  <1>2. CASE BeginProxy
    BY <1>2, FailAbandons, HandshakeHidden DEF BeginProxy, Goto, Abstract!Next
  <1>3. CASE BeginSsh
    BY <1>3, FailAbandons, HandshakeHidden DEF BeginSsh, Goto, Abstract!Next
  <1>4. CASE NextHop
    <2>1. CASE hop < Len(Hops)
      BY <1>4, <2>1, HandshakeHidden DEF NextHop
    <2>2. CASE ~(hop < Len(Hops))
      <3>1. /\ transport' = transport /\ reached' = reached
            /\ outcome' = "up" /\ pc = "next"
        BY <1>4, <2>2 DEF NextHop
      <3>2. outcome = "dialing" /\ Len(reached) = Len(Hops) + 1
        BY <2>2, <3>1, OnTheRoute DEF Placed, Along
      <3>3. reached = [i \in 1 .. Len(Hops) + 1 |-> reached[i]]
        BY <3>2 DEF Along
      <3>4. \A i \in 1 .. Len(Hops) + 1 : reached[i] = RouteOf(transport)[i]
        BY <3>2 DEF Along
      <3>5. reached = RouteOf(transport)
        BY <3>3, <3>4, RouteLength
      <3> QED BY <3>1, <3>2, <3>5, AddressesStay
              DEF Abstract!Next, Abstract!Finish
    <2> QED BY <2>1, <2>2
  <1>5. CASE IoError
    BY <1>5, FailAbandons DEF IoError, Placed, Abstract!Next
  <1>6. ASSUME NEW version \in {4, 5}, NEW method \in {0, 2, 255},
               SocksMethod(version, method)
        PROVE  Abstract!Next \/ UNCHANGED AbstractVars
    BY <1>6, FailAbandons, HandshakeHidden DEF SocksMethod, Goto, Abstract!Next
  <1>7. ASSUME NEW subversion \in {1, 5}, NEW status \in {0, 1},
               SocksAuth(subversion, status)
        PROVE  Abstract!Next \/ UNCHANGED AbstractVars
    BY <1>7, FailAbandons, HandshakeHidden DEF SocksAuth, Goto, Abstract!Next
  <1>8. ASSUME NEW status \in {0, 5}, NEW atyp \in {1, 2, 3, 4},
               NEW length \in {0, MaxField}, SocksRequest(status, atyp, length)
        PROVE  Abstract!Next \/ UNCHANGED AbstractVars
    BY <1>8, FailAbandons, HandshakeHidden DEF SocksRequest, Goto, Abstract!Next
  <1>9. CASE SocksHead
    BY <1>9, FailAbandons, HandshakeHidden DEF SocksHead, Goto, Abstract!Next
  <1>10. CASE SocksBound
    BY <1>10, ConnectedExtends DEF SocksBound, Abstract!Next
  <1>11. CASE SocksDomainLength
    BY <1>11, FailAbandons, HandshakeHidden
       DEF SocksDomainLength, Goto, Abstract!Next
  <1>12. CASE SocksDomain
    BY <1>12, ConnectedExtends DEF SocksDomain, Abstract!Next
  <1>13. ASSUME NEW status \in {200, 407},
                NEW n \in {4, MaxHeader, MaxHeader + 1}, HttpAnswer(status, n)
         PROVE  Abstract!Next \/ UNCHANGED AbstractVars
    BY <1>13, HandshakeHidden DEF HttpAnswer
  <1>14. CASE HttpReadByte
    BY <1>14, FailAbandons, HandshakeHidden DEF HttpReadByte, Goto, Abstract!Next
  <1>15. CASE HttpStatus
    BY <1>15, FailAbandons, ConnectedExtends DEF HttpStatus, Abstract!Next
  <1>16. ASSUME NEW key \in {<<"theirs">>, <<"another">>}, SshHostKey(key)
         PROVE  Abstract!Next \/ UNCHANGED AbstractVars
    BY <1>16, FailAbandons, HandshakeHidden DEF SshHostKey, Goto, Abstract!Next
  <1>17. ASSUME NEW ok \in BOOLEAN, SshLogin(ok)
         PROVE  Abstract!Next \/ UNCHANGED AbstractVars
    BY <1>17, FailAbandons, HandshakeHidden DEF SshLogin, Goto, Abstract!Next
  <1>18. CASE SshChannel
    BY <1>18, FailAbandons, ConnectedExtends DEF SshChannel, Abstract!Next
  <1>19. ASSUME NEW nonblocking \in BOOLEAN, SetNonblocking(nonblocking)
         PROVE  Abstract!Next \/ UNCHANGED AbstractVars
    BY <1>19, HandshakeHidden DEF SetNonblocking
  <1> QED
    BY <1>1, <1>2, <1>3, <1>4, <1>5, <1>6, <1>7, <1>8, <1>9,
       <1>10, <1>11, <1>12, <1>13, <1>14, <1>15, <1>16, <1>17, <1>18, <1>19
       DEF DialNext

\* dial_resolved_transport, with its two handshakes and its sessions,
\* implements the tunnel: it takes the connection from one address of the
\* route to the next and hands it out only when it ends at the target.
THEOREM Refinement == DialSpec => ImplementsTunnel
  <1>1. DialInit => Abstract!Init
    BY DEF DialInit, Abstract!Init
  <1>2. Inv /\ [DialNext]_dialVars => [Abstract!Next]_AbstractVars
    <2>1. UNCHANGED dialVars => UNCHANGED AbstractVars
      BY HandshakeHidden DEF dialVars
    <2> QED BY <2>1, StepsOfTheTunnel DEF Inv
  <1> QED BY <1>1, <1>2, Invariance, PTL
          DEF DialSpec, ImplementsTunnel, Abstract!Spec, AbstractVars

-----------------------------------------------------------------------------
(* A profile on its way. *)


(* A profile is dialled as a transport is. *)

LEMMA DialsATransport == Spec => DialSpec
  <1>1. Init => DialInit
    BY DEF Init
  <1>2. [Next]_vars => [DialNext]_dialVars
    BY DEF Next, vars, DialProfile, ProbeProfile, ProbeOn
  <1> QED BY <1>1, <1>2, PTL DEF Spec, DialSpec

\* Whatever profile is dialled, the variables keep their types.
THEOREM TypesOfADial == Spec => []TypeOK
  BY DialsATransport, TypeCorrect, PTL

\* Whatever profile is dialled, the session that is kept is the one of the
\* channel, and a handshake reads nothing of the connection behind it.
THEOREM DialsKeepSessionAndBytes ==
  Spec => [](SessionIsTheChannels /\ TunnelBytesIntact)
  BY DialsATransport, SessionKept, BytesLeftAlone, PTL

\* Every profile's dial implements the tunnel along its transport's route.
THEOREM ProfilesAreTunnelled == Spec => ImplementsTunnel
  BY DialsATransport, Refinement, PTL

-----------------------------------------------------------------------------
(* The probe. *)

\* What is noted of a target: the stages, and the first of them that failed.
Noted(stages, first) ==
  diagnostics = [ target |-> diagnostics.target, stages |-> stages,
                  firstFailure |-> first ]

Resolved == Stage("resolve", "succeeded")

\* What a probe has noted at each of its places, and in which ways it ends.
Probed ==
  /\ probing \in {"idle", "resolve", "connect", "over"}
  /\ accepted \in BOOLEAN
  /\ probing # "over" => ~accepted
  /\ probing \in {"resolve", "connect"} => diagnostics.target.kind # "localFile"
  /\ probing = "resolve" => Noted(<< >>, Absent)
  /\ probing = "connect" => Noted(<<Resolved>>, Absent)
  /\ probing = "over" =>
       \/ /\ diagnostics.target.kind = "localFile" /\ ~accepted
          /\ Noted(<<Stage("localFile", "succeeded")>>, Absent)
       \/ /\ diagnostics.target.kind # "localFile" /\ ~accepted
          /\ \/ Noted(<<Stage("resolve", "failed")>>, 0)
             \/ Noted(<<Resolved, Stage("directTcp", "failed")>>, 1)
       \/ /\ accepted
          /\ \/ Noted(<<Resolved, Stage("directTcp", "succeeded")>>, Absent)
             \/ Noted(<<Resolved, Stage("directTcp", "succeeded"),
                        Stage("tls", "skipped")>>, Absent)

\* What a further stage does to what was noted.
LEMMA PushNotes ==
  ASSUME NEW d, NEW kind, NEW status,
         d = [target |-> d.target, stages |-> d.stages, firstFailure |-> Absent]
  PROVE  Push(d, kind, status) =
           [ target       |-> d.target,
             stages       |-> Append(d.stages, Stage(kind, status)),
             firstFailure |-> IF status = "failed" THEN Len(d.stages) ELSE Absent ]
  <1> DEFINE target == d.target
             first  == IF status = "failed" THEN Len(d.stages) ELSE Absent
             longer == Append(d.stages, Stage(kind, status))
             e == [target |-> target, stages |-> longer, firstFailure |-> Absent]
  <1>1. d.firstFailure = Absent
    OBVIOUS
  <1>2. Push(d, kind, status) =
          [d EXCEPT !.stages = longer, !.firstFailure = first]
    BY <1>1 DEF Push
  <1>3. d = [target |-> target, stages |-> d.stages, firstFailure |-> Absent]
    OBVIOUS
  <1> HIDE DEF first, longer, target
  <1>4. [d EXCEPT !.stages = longer, !.firstFailure = first] =
          [[d EXCEPT !.stages = longer] EXCEPT !.firstFailure = first]
    BY Z3
  <1>5. [d EXCEPT !.stages = longer] = e
    BY <1>3, Z3
  <1>6. [e EXCEPT !.firstFailure = first] =
          [target |-> target, stages |-> longer, firstFailure |-> first]
    BY Z3
  <1> QED BY <1>2, <1>4, <1>5, <1>6 DEF first, longer, target

LEMMA NotedPush ==
  ASSUME NEW stages, Noted(stages, Absent), NEW kind, NEW status
  PROVE  Push(diagnostics, kind, status) =
           [ target       |-> diagnostics.target,
             stages       |-> Append(stages, Stage(kind, status)),
             firstFailure |-> IF status = "failed" THEN Len(stages) ELSE Absent ]
  <1>1. diagnostics = [ target |-> diagnostics.target,
                        stages |-> diagnostics.stages, firstFailure |-> Absent ]
        /\ diagnostics.stages = stages
    BY DEF Noted
  <1> QED BY <1>1, PushNotes

LEMMA ProbedInit == ProbeInit => Probed
  BY DEF ProbeInit, Probed

LEMMA StartKeepsProbed ==
  ASSUME NEW target, StartProbe(target), Probed PROVE Probed'
  <1>1. NewDiagnostics(target) =
          [target |-> target, stages |-> << >>, firstFailure |-> Absent]
    BY DEF NewDiagnostics
  <1>2. CASE target.kind = "localFile"
    <2> DEFINE d == NewDiagnostics(target)
    <2>0. Push(d, "localFile", "succeeded") =
            [ target       |-> target,
              stages       |-> Append(<< >>, Stage("localFile", "succeeded")),
              firstFailure |-> Absent ]
      BY <1>1, PushNotes
    <2>1. diagnostics' = [ target |-> target,
                           stages |-> <<Stage("localFile", "succeeded")>>,
                           firstFailure |-> Absent ]
      BY <2>0, <1>2 DEF StartProbe
    <2> QED BY <1>2, <2>1 DEF StartProbe, Probed, Noted
  <1>3. CASE target.kind # "localFile"
    BY <1>1, <1>3 DEF StartProbe, Probed, Noted
  <1> QED BY <1>2, <1>3

LEMMA StepKeepsProbed == Probed /\ ProbeStep => Probed'
  <1> SUFFICES ASSUME Probed, ProbeStep PROVE Probed'
    OBVIOUS
  <1>1. ASSUME NEW n \in 0 .. MaxAddresses, ProbeResolve(n) PROVE Probed'
    <2>1. /\ Noted(<< >>, Absent) /\ ~accepted
          /\ diagnostics.target.kind # "localFile"
      BY <1>1 DEF ProbeResolve, Probed
    <2>2. CASE n = 0
      <3>0. Push(diagnostics, "resolve", "failed") =
             [ target       |-> diagnostics.target,
               stages       |-> Append(<< >>, Stage("resolve", "failed")),
               firstFailure |-> Len(<< >>) ]
        BY <2>1, NotedPush
      <3>1. diagnostics' = [ target |-> diagnostics.target,
                             stages |-> <<Stage("resolve", "failed")>>,
                             firstFailure |-> 0 ]
        BY <1>1, <2>2, <3>0 DEF ProbeResolve
      <3> QED BY <1>1, <2>1, <2>2, <3>1 DEF ProbeResolve, Probed, Noted
    <2>3. CASE n # 0
      <3>0. Push(diagnostics, "resolve", "succeeded") =
             [ target       |-> diagnostics.target,
               stages       |-> Append(<< >>, Stage("resolve", "succeeded")),
               firstFailure |-> Absent ]
        BY <2>1, NotedPush
      <3>1. diagnostics' = [ target |-> diagnostics.target,
                             stages |-> <<Resolved>>,
                             firstFailure |-> Absent ]
        BY <1>1, <2>3, <3>0 DEF ProbeResolve, Resolved
      <3> QED BY <1>1, <2>1, <2>3, <3>1 DEF ProbeResolve, Probed, Noted
    <2> QED BY <2>2, <2>3
  <1>2. CASE ProbeAccepted
    <2> DEFINE d == Push(diagnostics, "directTcp", "succeeded")
    <2>1. Noted(<<Resolved>>, Absent)
      BY <1>2 DEF ProbeAccepted, Probed
    <2>2. Push(diagnostics, "directTcp", "succeeded") =
           [ target       |-> diagnostics.target,
             stages       |-> Append(<<Resolved>>, Stage("directTcp", "succeeded")),
             firstFailure |-> Absent ]
      BY <2>1, NotedPush
    <2>3. d = [ target |-> diagnostics.target,
                stages |-> <<Resolved, Stage("directTcp", "succeeded")>>,
                firstFailure |-> Absent ]
      BY <2>2
    <2>4. /\ d.target = diagnostics.target
          /\ d.stages = <<Resolved, Stage("directTcp", "succeeded")>>
      BY <2>3
    <2> HIDE DEF d
    <2>5. Push(d, "tls", "skipped") =
           [ target       |-> d.target,
             stages       |-> Append(d.stages, Stage("tls", "skipped")),
             firstFailure |-> Absent ]
      BY ZenonT(30), <2>3, <2>4, PushNotes
    <2>6. Push(d, "tls", "skipped") =
            [ target |-> diagnostics.target,
              stages |-> <<Resolved, Stage("directTcp", "succeeded"),
                           Stage("tls", "skipped")>>,
              firstFailure |-> Absent ]
      BY <2>5, <2>4
    <2>7. diagnostics' \in {d, Push(d, "tls", "skipped")}
      BY <1>2 DEF ProbeAccepted, d
    <2>8. accepted' = TRUE /\ probing' = "over"
      BY <1>2 DEF ProbeAccepted
    <2> QED BY <2>3, <2>6, <2>7, <2>8 DEF Probed, Noted, Resolved
  <1>3. CASE ProbeRefused
    BY <1>3 DEF ProbeRefused, Probed, Noted, Resolved
  <1>4. CASE ProbeGivesUp
    <2>1. /\ Noted(<<Resolved>>, Absent) /\ ~accepted
          /\ diagnostics.target.kind # "localFile"
      BY <1>4 DEF ProbeGivesUp, Probed
    <2>2. Push(diagnostics, "directTcp", "failed") =
           [ target       |-> diagnostics.target,
             stages       |-> Append(<<Resolved>>, Stage("directTcp", "failed")),
             firstFailure |-> Len(<<Resolved>>) ]
      BY <2>1, NotedPush
    <2>3. diagnostics' =
            [ target |-> diagnostics.target,
              stages |-> <<Resolved, Stage("directTcp", "failed")>>,
              firstFailure |-> 1 ]
      BY <1>4, <2>2 DEF ProbeGivesUp
    <2> QED BY <1>4, <2>1, <2>3 DEF ProbeGivesUp, Probed, Noted, Resolved
  <1> QED BY <1>1, <1>2, <1>3, <1>4 DEF ProbeStep

LEMMA ProbedIsTheTruth == Probed => ProbeTellsTheTruth
  <1> SUFFICES ASSUME Probed, probing = "over" PROVE ProbeTellsTheTruth
    BY DEF ProbeTellsTheTruth
  <1> DEFINE failed == {i \in DOMAIN diagnostics.stages :
                          diagnostics.stages[i].status = "failed"}
  <1>1. CASE /\ diagnostics.target.kind # "localFile" /\ ~accepted
             /\ Noted(<<Stage("resolve", "failed")>>, 0)
    <2>1. failed = {1} /\ diagnostics.firstFailure = 0
      BY <1>1 DEF Noted, Stage
    <2>2. Min(failed) = 1
      BY <2>1 DEF Min
    <2> QED BY <1>1, <2>1, <2>2, DialAssumption DEF ProbeTellsTheTruth, Succeeded
  <1>2. CASE /\ diagnostics.target.kind # "localFile" /\ ~accepted
             /\ Noted(<<Resolved, Stage("directTcp", "failed")>>, 1)
    <2>1. failed = {2} /\ diagnostics.firstFailure = 1
      BY <1>2 DEF Noted, Stage, Resolved
    <2>2. Min(failed) = 2
      BY <2>1 DEF Min
    <2> QED BY <1>2, <2>1, <2>2, DialAssumption DEF ProbeTellsTheTruth, Succeeded
  <1>3. CASE /\ diagnostics.target.kind = "localFile"
             /\ Noted(<<Stage("localFile", "succeeded")>>, Absent)
    <2>1. failed = {} /\ diagnostics.firstFailure = Absent
      BY <1>3 DEF Noted, Stage
    <2> QED BY <1>3, <2>1 DEF ProbeTellsTheTruth, Succeeded
  <1>4. CASE /\ accepted
             /\ Noted(<<Resolved, Stage("directTcp", "succeeded")>>, Absent)
    <2>1. failed = {} /\ diagnostics.firstFailure = Absent
      BY <1>4 DEF Noted, Stage, Resolved
    <2> QED BY <1>4, <2>1 DEF ProbeTellsTheTruth, Succeeded
  <1>5. CASE /\ accepted
             /\ Noted(<<Resolved, Stage("directTcp", "succeeded"),
                        Stage("tls", "skipped")>>, Absent)
    <2>1. failed = {} /\ diagnostics.firstFailure = Absent
      BY <1>5 DEF Noted, Stage, Resolved
    <2> QED BY <1>5, <2>1 DEF ProbeTellsTheTruth, Succeeded
  <1> QED BY <1>1, <1>2, <1>3, <1>4, <1>5 DEF Probed

\* A probe that is over says that the target can be reached exactly when an
\* address of it was reached, however many there were
\* (DirectTcpProbe::probe), and names the stage that failed.
THEOREM ProbesTellTheTruth == Spec => []ProbeTellsTheTruth
  <1>1. Init => Probed
    BY ProbedInit DEF Init
  <1>2. Probed /\ [Next]_vars => Probed'
    <2> SUFFICES ASSUME Probed, [Next]_vars PROVE Probed'
      OBVIOUS
    <2>1. UNCHANGED probeVars => Probed'
      BY DEF probeVars, Probed, Noted
    <2> QED BY <2>1, StartKeepsProbed, StepKeepsProbed
            DEF Next, vars, DialProfile, ProbeProfile, ProbeOn
  <1> QED BY <1>1, <1>2, ProbedIsTheTruth, PTL DEF Spec

-----------------------------------------------------------------------------
(* The steps of some kinds in a list of steps. *)

\* A filter of steps gives steps.
LEMMA OfKindsParts ==
  ASSUME NEW S, NEW s \in Seq(S), NEW kinds
  PROVE  [i \in DOMAIN s |-> If(s[i].kind \in kinds, <<s[i]>>)]
           \in Seq(Seq(S))
  <1>1. \A i \in DOMAIN s : If(s[i].kind \in kinds, <<s[i]>>) \in Seq(S)
    BY DEF If
  <1>2. DOMAIN s = 1 .. Len(s) /\ Len(s) \in Nat
    OBVIOUS
  <1> QED BY <1>1, <1>2

LEMMA OfKindsType ==
  ASSUME NEW S, NEW s \in Seq(S), NEW kinds
  PROVE  OfKinds(s, kinds) \in Seq(S)
  BY OfKindsParts, FlattenType DEF OfKinds

LEMMA OfKindsConcat ==
  ASSUME NEW S, NEW s \in Seq(S), NEW t \in Seq(S), NEW kinds
  PROVE  OfKinds(s \o t, kinds) = OfKinds(s, kinds) \o OfKinds(t, kinds)
  <1> DEFINE Parts(x) == [i \in DOMAIN x |-> If(x[i].kind \in kinds, <<x[i]>>)]
  <1>1. Parts(s) \in Seq(Seq(S)) /\ Parts(t) \in Seq(Seq(S))
    BY OfKindsParts
  <1>2. Parts(s \o t) = Parts(s) \o Parts(t)
    <2>1. PICK u \in Seq(S) : u = s \o t
      BY ConcatProperties
    <2>2. Parts(u) \in Seq(Seq(S))
      BY OfKindsParts
    <2>3. PICK a \in Seq(Seq(S)) : a = Parts(s)
      BY <1>1
    <2>4. PICK b \in Seq(Seq(S)) : b = Parts(t)
      BY <1>1
    <2>5. PICK c \in Seq(Seq(S)) : c = Parts(u)
      BY <2>2
    <2>6. /\ Len(a) = Len(s) /\ Len(b) = Len(t) /\ Len(c) = Len(u)
          /\ Len(u) = Len(s) + Len(t)
      BY <2>1, <2>3, <2>4, <2>5
    <2>7. \A i \in 1 .. Len(s) : c[i] = a[i]
      <3>1. \A i \in 1 .. Len(s) : u[i] = s[i] /\ i \in DOMAIN u /\ i \in DOMAIN s
        BY <2>1
      <3> QED BY <3>1, <2>3, <2>5
    <2>8. \A i \in 1 .. Len(t) : c[Len(s) + i] = b[i]
      <3>1. \A i \in 1 .. Len(t) : /\ u[Len(s) + i] = t[i]
                                   /\ Len(s) + i \in DOMAIN u /\ i \in DOMAIN t
        BY <2>1
      <3> QED BY <3>1, <2>4, <2>5
    <2>9. c = a \o b
      <3>1. Len(c) = Len(a) + Len(b)
        BY <2>6
      <3>2. \A i \in 1 .. Len(a) : c[i] = a[i]
        BY <2>6, <2>7
      <3>3. \A i \in 1 .. Len(b) : c[Len(a) + i] = b[i]
        BY <2>6, <2>8
      <3> QED BY <3>1, <3>2, <3>3, IsConcat
    <2> QED BY <2>1, <2>3, <2>4, <2>5, <2>9
  <1> HIDE DEF Parts
  <1>3. FlattenSeq(Parts(s) \o Parts(t)) = FlattenSeq(Parts(s)) \o FlattenSeq(Parts(t))
    BY <1>1, FlattenConcat
  <1> QED BY <1>2, <1>3 DEF OfKinds, Parts

LEMMA OfKindsNone ==
  ASSUME NEW kinds PROVE OfKinds(<< >>, kinds) = << >>
  <1>1. [i \in DOMAIN << >> |-> If(<< >>[i].kind \in kinds, << << >>[i]>>)] = << >>
    OBVIOUS
  <1> QED BY <1>1, FlattenNone DEF OfKinds

LEMMA OfKindsOne ==
  ASSUME NEW x, NEW kinds
  PROVE  OfKinds(<<x>>, kinds) = If(x.kind \in kinds, <<x>>)
  <1>1. PICK seqs : seqs = [i \in DOMAIN <<x>> |->
                              If(<<x>>[i].kind \in kinds, << <<x>>[i]>>)]
    OBVIOUS
  <1>2. PICK part : part = If(x.kind \in kinds, <<x>>)
    OBVIOUS
  <1>3. seqs = Append(<< >>, part)
    BY <1>1, <1>2
  <1>4. part \in Seq({x})
    <2>1. <<x>> \in Seq({x}) /\ << >> \in Seq({x})
      OBVIOUS
    <2>2. part = <<x>> \/ part = << >>
      BY <1>2 DEF If
    <2> QED BY <2>1, <2>2
  <1>5. << >> \in Seq(Seq({x}))
    OBVIOUS
  <1>6. FlattenSeq(seqs) = FlattenSeq(<< >>) \o part
    BY <1>3, <1>4, <1>5, FlattenAppend
  <1>7. << >> \o part = part
    BY <1>4, ConcatEmptySeq
  <1> QED BY <1>1, <1>2, <1>6, <1>7, FlattenNone DEF OfKinds

\* Filtering what is put together is putting together what is filtered.
LEMMA OfKindsFlatten ==
  ASSUME NEW S, NEW seqs \in Seq(Seq(S)), NEW kinds,
         NEW some \in Seq(Seq(S)), Len(some) = Len(seqs),
         \A i \in 1 .. Len(seqs) : some[i] = OfKinds(seqs[i], kinds)
  PROVE  OfKinds(FlattenSeq(seqs), kinds) = FlattenSeq(some)
  <1>1. PICK f : IsRunning(f, seqs, S) /\ FlattenSeq(seqs) = f[Len(seqs)]
    BY Running
  <1>2. PICK g : IsRunning(g, some, S) /\ FlattenSeq(some) = g[Len(some)]
    BY Running
  <1> DEFINE Same(n) == OfKinds(f[n], kinds) = g[n]
             T == {n \in Nat : n <= Len(seqs) => Same(n)}
  <1>3. 0 \in T
    <2>1. f[0] = << >> /\ g[0] = << >>
      BY <1>1, <1>2 DEF IsRunning
    <2>2. Same(0)
      BY <2>1, OfKindsNone
    <2> HIDE DEF Same
    <2> QED BY <2>2
  <1>4. ASSUME NEW n \in Nat, n \in T PROVE n + 1 \in T
    <2>1. SUFFICES ASSUME n + 1 <= Len(seqs) PROVE Same(n + 1)
      <3> HIDE DEF Same
      <3> QED OBVIOUS
    <2>2. /\ n + 1 \in 1 .. Len(seqs) /\ n + 1 \in 1 .. Len(some)
          /\ n \in 0 .. Len(seqs) /\ n <= Len(seqs) /\ (n + 1) - 1 = n
      BY <2>1
    <2>3. Same(n)
      <3> HIDE DEF Same
      <3> QED BY <1>4, <2>2
    <2>4. f[n + 1] = f[n] \o seqs[n + 1]
      BY <1>1, <2>2 DEF IsRunning
    <2>5. g[n + 1] = g[n] \o some[n + 1]
      BY <1>2, <2>2 DEF IsRunning
    <2>6. f[n] \in Seq(S)
      BY <1>1, <2>2 DEF IsRunning
    <2>7. seqs[n + 1] \in Seq(S)
      BY <2>2
    <2>8. OfKinds(f[n] \o seqs[n + 1], kinds) =
            OfKinds(f[n], kinds) \o OfKinds(seqs[n + 1], kinds)
      <3>1. PICK a \in Seq(S) : a = f[n]
        BY <2>6
      <3>2. PICK b \in Seq(S) : b = seqs[n + 1]
        BY <2>7
      <3>3. OfKinds(a \o b, kinds) = OfKinds(a, kinds) \o OfKinds(b, kinds)
        BY OfKindsConcat
      <3> QED BY <3>1, <3>2, <3>3
    <2> QED BY <2>2, <2>3, <2>4, <2>5, <2>8
  <1> HIDE DEF T
  <1>5. \A n \in Nat : n \in T
    BY <1>3, <1>4, Induction
  <1>6. Len(seqs) \in T
    BY <1>5
  <1> HIDE DEF Same
  <1>7. Same(Len(seqs))
    BY <1>6 DEF T
  <1> QED BY <1>1, <1>2, <1>7 DEF Same

\* Of the steps of some kinds, those of some of these kinds.
LEMMA OfKindsTwice ==
  ASSUME NEW S, NEW s \in Seq(S), NEW kinds, NEW all, kinds \subseteq all
  PROVE  OfKinds(OfKinds(s, all), kinds) = OfKinds(s, kinds)
  <1>1. PICK seqs \in Seq(Seq(S)) :
          seqs = [i \in DOMAIN s |-> If(s[i].kind \in all, <<s[i]>>)]
    BY OfKindsParts
  <1>2. PICK some \in Seq(Seq(S)) :
          some = [i \in DOMAIN s |-> If(s[i].kind \in kinds, <<s[i]>>)]
    BY OfKindsParts
  <1>3. Len(some) = Len(s) /\ Len(seqs) = Len(s)
    BY <1>1, <1>2
  <1>4. ASSUME NEW i \in 1 .. Len(seqs)
        PROVE  some[i] = OfKinds(seqs[i], kinds)
    <2>0. i \in DOMAIN s
      BY <1>3
    <2>1. /\ some[i] = If(s[i].kind \in kinds, <<s[i]>>)
          /\ seqs[i] = If(s[i].kind \in all, <<s[i]>>)
      BY <1>1, <1>2, <2>0
    <2>2. CASE s[i].kind \in all
      <3>1. seqs[i] = <<s[i]>>
        BY <2>1, <2>2 DEF If
      <3> QED BY <3>1, <2>1, OfKindsOne
    <2>3. CASE s[i].kind \notin all
      <3>1. seqs[i] = << >> /\ some[i] = << >>
        BY <2>1, <2>3 DEF If
      <3> QED BY <3>1, OfKindsNone
    <2> QED BY <2>2, <2>3
  <1>5. OfKinds(FlattenSeq(seqs), kinds) = FlattenSeq(some)
    BY <1>3, <1>4, OfKindsFlatten
  <1> QED BY <1>1, <1>2, <1>5 DEF OfKinds

\* The messages of one list are the endpoints of the other.
Alike(b, a) == /\ Len(b) = Len(a)
               /\ \A i \in 1 .. Len(a) : b[i].message = a[i].endpoint

\* Two lists that are alike, each with one element more.
LEMMA AppendAlike ==
  ASSUME NEW S, NEW a \in Seq(S), NEW x \in S,
         NEW R, NEW b \in Seq(R), NEW y \in R, y.message = x.endpoint,
         Alike(b, a)
  PROVE  Alike(Append(b, y), Append(a, x))
  <1>1. PICK p \in Seq(S) : p = Append(a, x)
    BY AppendProperties
  <1>2. PICK q \in Seq(R) : q = Append(b, y)
    BY AppendProperties
  <1>3. /\ Len(p) = Len(a) + 1 /\ p[Len(a) + 1] = x
        /\ \A i \in 1 .. Len(a) : p[i] = a[i]
    BY <1>1
  <1>4. /\ Len(q) = Len(b) + 1 /\ q[Len(b) + 1] = y
        /\ \A i \in 1 .. Len(b) : q[i] = b[i]
    BY <1>2
  <1>5. Len(b) = Len(a) /\ \A i \in 1 .. Len(a) : b[i].message = a[i].endpoint
    BY DEF Alike
  <1>6. \A i \in 1 .. Len(a) : q[i].message = p[i].endpoint
    BY <1>3, <1>4, <1>5
  <1>7. q[Len(a) + 1].message = p[Len(a) + 1].endpoint
    BY <1>3, <1>4, <1>5
  <1>8. Len(q) = Len(p) /\ \A i \in 1 .. Len(p) : q[i].message = p[i].endpoint
    BY <1>3, <1>4, <1>5, <1>6, <1>7
  <1> QED BY <1>1, <1>2, <1>8 DEF Alike

\* The same filter on two lists whose elements have the same kinds.
LEMMA OfKindsAlike ==
  ASSUME NEW S, NEW s \in Seq(S), NEW R, NEW r \in Seq(R), NEW kinds,
         Len(r) = Len(s),
         \A i \in 1 .. Len(s) : /\ r[i].kind = s[i].kind
                                /\ r[i].message = s[i].endpoint
  PROVE  /\ Len(OfKinds(r, kinds)) = Len(OfKinds(s, kinds))
         /\ \A i \in 1 .. Len(OfKinds(s, kinds)) :
              OfKinds(r, kinds)[i].message = OfKinds(s, kinds)[i].endpoint
  <1>1. PICK u \in Seq(Seq(S)) :
          u = [i \in DOMAIN s |-> If(s[i].kind \in kinds, <<s[i]>>)]
    BY OfKindsParts
  <1>2. PICK v \in Seq(Seq(R)) :
          v = [i \in DOMAIN r |-> If(r[i].kind \in kinds, <<r[i]>>)]
    BY OfKindsParts
  <1>3. PICK f : IsRunning(f, u, S) /\ FlattenSeq(u) = f[Len(u)]
    BY Running
  <1>4. PICK g : IsRunning(g, v, R) /\ FlattenSeq(v) = g[Len(v)]
    BY Running
  <1>5. Len(u) = Len(s) /\ Len(v) = Len(s) /\ Len(s) \in Nat
    BY <1>1, <1>2
  <1> DEFINE Same(n) == Alike(g[n], f[n])
             T == {n \in Nat : n <= Len(s) => Same(n)}
  <1>6. 0 \in T
    <2>1. f[0] = << >> /\ g[0] = << >>
      BY <1>3, <1>4 DEF IsRunning
    <2>2. Same(0)
      BY <2>1 DEF Alike
    <2> HIDE DEF Same
    <2> QED BY <2>2
  <1>7. ASSUME NEW n \in Nat, n \in T PROVE n + 1 \in T
    <2>1. SUFFICES ASSUME n + 1 <= Len(s) PROVE Same(n + 1)
      <3> HIDE DEF Same
      <3> QED OBVIOUS
    <2>2. /\ n + 1 \in 1 .. Len(u) /\ n + 1 \in 1 .. Len(v)
          /\ n + 1 \in 1 .. Len(s) /\ n + 1 \in 1 .. Len(r)
          /\ n \in 0 .. Len(u) /\ n \in 0 .. Len(v)
          /\ n <= Len(s) /\ (n + 1) - 1 = n
      BY <2>1, <1>5
    <2>3. Same(n)
      <3> HIDE DEF Same
      <3> QED BY <1>7, <2>2
    <2>4. f[n + 1] = f[n] \o u[n + 1]
      BY <1>3, <2>2 DEF IsRunning
    <2>5. g[n + 1] = g[n] \o v[n + 1]
      BY <1>4, <2>2 DEF IsRunning
    <2>6. PICK a \in Seq(S) : a = f[n]
      BY <1>3, <2>2 DEF IsRunning
    <2>7. PICK b \in Seq(R) : b = g[n]
      BY <1>4, <2>2 DEF IsRunning
    <2>8. /\ u[n + 1] = If(s[n + 1].kind \in kinds, <<s[n + 1]>>)
          /\ v[n + 1] = If(r[n + 1].kind \in kinds, <<r[n + 1]>>)
      BY <1>1, <1>2, <2>2
    <2>9. r[n + 1].kind = s[n + 1].kind /\ r[n + 1].message = s[n + 1].endpoint
      BY <2>2
    <2>10. CASE s[n + 1].kind \in kinds
      <3>1. PICK x \in S : x = s[n + 1]
        BY <2>2
      <3>2. PICK y \in R : y = r[n + 1]
        BY <2>2
      <3>3. u[n + 1] = <<x>> /\ v[n + 1] = <<y>>
        BY <2>8, <2>9, <2>10, <3>1, <3>2 DEF If
      <3>4. a \o <<x>> = Append(a, x) /\ b \o <<y>> = Append(b, y)
        OBVIOUS
      <3>5. f[n + 1] = Append(a, x) /\ g[n + 1] = Append(b, y)
        BY <2>4, <2>5, <2>6, <2>7, <3>3, <3>4
      <3>6. y.message = x.endpoint
        BY <2>9, <3>1, <3>2
      <3>7. Alike(b, a)
        BY <2>3, <2>6, <2>7
      <3>8. Alike(Append(b, y), Append(a, x))
        BY <3>6, <3>7, AppendAlike
      <3> QED BY <3>5, <3>8
    <2>11. CASE s[n + 1].kind \notin kinds
      <3>1. u[n + 1] = << >> /\ v[n + 1] = << >>
        BY <2>8, <2>9, <2>11 DEF If
      <3>2. f[n + 1] = f[n] /\ g[n + 1] = g[n]
        BY <2>4, <2>5, <2>6, <2>7, <3>1, ConcatEmptySeq
      <3> QED BY <3>2, <2>3
    <2> QED BY <2>10, <2>11
  <1> HIDE DEF T
  <1>8. \A n \in Nat : n \in T
    BY <1>6, <1>7, Induction
  <1>9. Len(s) \in T
    BY <1>8, <1>5
  <1> HIDE DEF Same
  <1>10. Same(Len(s))
    BY <1>9 DEF T
  <1>11. f[Len(s)] = OfKinds(s, kinds) /\ g[Len(s)] = OfKinds(r, kinds)
    BY <1>1, <1>2, <1>3, <1>4, <1>5 DEF OfKinds
  <1> QED BY <1>10, <1>11 DEF Same, Alike

-----------------------------------------------------------------------------
(* The servers a list of steps names. *)

Steps(endpoints) == [kind : TransportStepKind, endpoint : endpoints]

\* No server is in what is not a server.
LEMMA OnlyServers ==
  /\ OfKinds(TlsStep, ServerKinds) = << >>
  /\ \A c : OfKinds(If(c, TlsStep), ServerKinds) = << >>
  /\ \A c : OfKinds(If(c, <<Step("auth", Absent)>>), ServerKinds) = << >>
  /\ \A e : OfKinds(<<Step("resolve", e)>>, ServerKinds) = << >>
  /\ OfKinds(<<Step("auth", Absent)>>, ServerKinds) = << >>
  /\ \A e, k : k \in ServerKinds =>
       OfKinds(<<Step(k, e)>>, ServerKinds) = <<Step(k, e)>>
  <1>1. OfKinds(TlsStep, ServerKinds) = << >>
    BY OfKindsOne DEF TlsStep, Step, ServerKinds, If
  <1>2. ASSUME NEW c PROVE OfKinds(If(c, TlsStep), ServerKinds) = << >>
    <2>1. If(c, TlsStep) = TlsStep \/ If(c, TlsStep) = << >>
      BY DEF If
    <2> QED BY <1>1, <2>1, OfKindsNone
  <1>3. OfKinds(<<Step("auth", Absent)>>, ServerKinds) = << >>
    BY OfKindsOne DEF Step, ServerKinds, If
  <1>4. ASSUME NEW c
        PROVE  OfKinds(If(c, <<Step("auth", Absent)>>), ServerKinds) = << >>
    <2>1. \/ If(c, <<Step("auth", Absent)>>) = <<Step("auth", Absent)>>
          \/ If(c, <<Step("auth", Absent)>>) = << >>
      BY DEF If
    <2> QED BY <1>3, <2>1, OfKindsNone
  <1>5. ASSUME NEW e PROVE OfKinds(<<Step("resolve", e)>>, ServerKinds) = << >>
    BY OfKindsOne DEF Step, ServerKinds, If
  <1>6. ASSUME NEW e, NEW k, k \in ServerKinds
        PROVE  OfKinds(<<Step(k, e)>>, ServerKinds) = <<Step(k, e)>>
    BY <1>6, OfKindsOne DEF Step, If
  <1> QED BY <1>1, <1>2, <1>3, <1>4, <1>5, <1>6

LEMMA StepIsOne ==
  ASSUME NEW k \in TransportStepKind, NEW E, NEW e \in E
  PROVE  <<Step(k, e)>> \in Seq(Steps(E))
  <1>1. Step(k, e) \in Steps(E)
    BY DEF Step, Steps
  <1> QED BY <1>1

\* Nothing is listed but the last of three parts.
LEMMA LastIsShown ==
  ASSUME NEW S, NEW a \in Seq(S), NEW b \in Seq(S), NEW d \in Seq(S),
         NEW kinds, OfKinds(a, kinds) = << >>, OfKinds(b, kinds) = << >>
  PROVE  /\ (a \o b) \o d \in Seq(S)
         /\ OfKinds((a \o b) \o d, kinds) = OfKinds(d, kinds)
  <1>1. PICK ab \in Seq(S) : ab = a \o b
    BY ConcatProperties
  <1>2. OfKinds(ab, kinds) = OfKinds(a, kinds) \o OfKinds(b, kinds)
    BY <1>1, OfKindsConcat
  <1>3. << >> \o << >> = << >>
    OBVIOUS
  <1>4. OfKinds(ab \o d, kinds) = OfKinds(ab, kinds) \o OfKinds(d, kinds)
    BY SMTT(30), OfKindsConcat
  <1>5. << >> \o OfKinds(d, kinds) = OfKinds(d, kinds)
    BY OfKindsType, ConcatEmptySeq
  <1>6. ab \o d \in Seq(S)
    BY ConcatProperties
  <1> QED BY <1>1, <1>2, <1>3, <1>4, <1>5, <1>6

\* A proxy is listed as one server.
LEMMA ProxyIsOneServer ==
  ASSUME NEW c, NEW kind \in {"socks5Proxy", "httpConnectProxy"}
  PROVE  /\ ProxySteps(kind, c) \in Seq(Steps({Absent, Server(c)}))
         /\ OfKinds(ProxySteps(kind, c), ServerKinds) = <<Step(kind, Server(c))>>
  <1>1. PICK S : S = Steps({Absent, Server(c)})
    OBVIOUS
  <1>2. PICK a \in Seq(S) : a = <<Step("resolve", Server(c))>>
    BY <1>1, StepIsOne DEF TransportStepKind
  <1>3. PICK b \in Seq(S) : b = If(c.auth # Absent, <<Step("auth", Absent)>>)
    <2>1. <<Step("auth", Absent)>> \in Seq(S)
      BY <1>1, StepIsOne DEF TransportStepKind
    <2>2. << >> \in Seq(S)
      OBVIOUS
    <2> QED BY <2>1, <2>2 DEF If
  <1>4. PICK d \in Seq(S) : d = <<Step(kind, Server(c))>>
    BY <1>1, StepIsOne DEF TransportStepKind
  <1>5. ProxySteps(kind, c) = (a \o b) \o d
    BY <1>2, <1>3, <1>4 DEF ProxySteps
  <1>6. OfKinds(a, ServerKinds) = << >> /\ OfKinds(b, ServerKinds) = << >>
    BY <1>2, <1>3, OnlyServers
  <1>7. OfKinds(d, ServerKinds) = d
    BY <1>4, OnlyServers DEF ServerKinds
  <1>8. /\ (a \o b) \o d \in Seq(S)
        /\ OfKinds((a \o b) \o d, ServerKinds) = OfKinds(d, ServerKinds)
    BY <1>6, LastIsShown
  <1> QED BY <1>1, <1>4, <1>5, <1>7, <1>8

\* An SSH server is listed as one server.
SshSteps(c) == << Step("resolve", Server(c)), Step("auth", Absent),
                  Step("sshTunnel", Server(c)) >>

LEMMA SshIsOneServer ==
  ASSUME NEW c
  PROVE  /\ SshSteps(c) \in Seq(Steps({Absent, Server(c)}))
         /\ OfKinds(SshSteps(c), ServerKinds) = <<Step("sshTunnel", Server(c))>>
  <1>1. PICK S : S = Steps({Absent, Server(c)})
    OBVIOUS
  <1>2. PICK a \in Seq(S) : a = <<Step("resolve", Server(c))>>
    BY <1>1, StepIsOne DEF TransportStepKind
  <1>3. PICK b \in Seq(S) : b = <<Step("auth", Absent)>>
    BY <1>1, StepIsOne DEF TransportStepKind
  <1>4. PICK d \in Seq(S) : d = <<Step("sshTunnel", Server(c))>>
    BY <1>1, StepIsOne DEF TransportStepKind
  <1>5. SshSteps(c) = (a \o b) \o d
    BY <1>2, <1>3, <1>4 DEF SshSteps
  <1>6. OfKinds(a, ServerKinds) = << >> /\ OfKinds(b, ServerKinds) = << >>
    BY <1>2, <1>3, OnlyServers
  <1>7. OfKinds(d, ServerKinds) = d
    BY <1>4, OnlyServers DEF ServerKinds
  <1>8. /\ (a \o b) \o d \in Seq(S)
        /\ OfKinds((a \o b) \o d, ServerKinds) = OfKinds(d, ServerKinds)
    BY <1>6, LastIsShown
  <1> QED BY <1>1, <1>4, <1>5, <1>7, <1>8

HopKinds == {"ssh", "socks5", "httpConnect"}

LEMMA HopIsOneServer ==
  ASSUME NEW c, c.kind \in HopKinds
  PROVE  /\ HopSteps(c) \in Seq(Steps({Absent, Server(c)}))
         /\ \E k : OfKinds(HopSteps(c), ServerKinds) = <<Step(k, Server(c))>>
                   /\ k \in ServerKinds
  <1>1. CASE c.kind = "ssh"
    <2>1. HopSteps(c) = SshSteps(c)
      BY <1>1 DEF HopSteps, SshSteps
    <2> QED BY <2>1, SshIsOneServer DEF ServerKinds
  <1>2. CASE c.kind = "socks5"
    <2>1. HopSteps(c) = ProxySteps("socks5Proxy", c)
      BY <1>2 DEF HopSteps
    <2> QED BY <2>1, ProxyIsOneServer DEF ServerKinds
  <1>3. CASE c.kind = "httpConnect"
    <2>1. HopSteps(c) = ProxySteps("httpConnectProxy", c)
      BY <1>3 DEF HopSteps
    <2> QED BY <2>1, ProxyIsOneServer DEF ServerKinds
  <1> QED BY <1>1, <1>2, <1>3 DEF HopKinds

-----------------------------------------------------------------------------
(* The plan of a transport and the route of its dial. *)

\* What is shown of a plan is its servers.
LEMMA ShownAreServers ==
  ASSUME NEW plan, NEW S, plan.steps \in Seq(S)
  PROVE  ShownRoute(DiagnosticsTemplate(plan)) =
           [i \in 1 .. Len(OfKinds(plan.steps, ServerKinds)) |->
              OfKinds(plan.steps, ServerKinds)[i].endpoint]
  <1>1. PICK s \in Seq(S) : s = plan.steps
    OBVIOUS
  <1>2. PICK r : r = DiagnosticsTemplate(plan).stages
    OBVIOUS
  <1>3. r = [i \in DOMAIN s |-> [ kind |-> s[i].kind, status |-> "pending",
                                  message |-> s[i].endpoint ]]
    BY <1>1, <1>2 DEF DiagnosticsTemplate
  <1> DEFINE R == {r[i] : i \in DOMAIN s}
  <1>4. r \in Seq(R) /\ Len(r) = Len(s)
    BY <1>3
  <1>5. \A i \in 1 .. Len(s) : r[i].kind = s[i].kind /\ r[i].message = s[i].endpoint
    BY <1>3
  <1> HIDE DEF R
  <1>6. /\ Len(OfKinds(r, ServerKinds)) = Len(OfKinds(s, ServerKinds))
        /\ \A i \in 1 .. Len(OfKinds(s, ServerKinds)) :
             OfKinds(r, ServerKinds)[i].message = OfKinds(s, ServerKinds)[i].endpoint
    <2>1. PICK stages \in Seq(R) : stages = r
      BY <1>4
    <2>2. /\ Len(stages) = Len(s)
          /\ \A i \in 1 .. Len(s) : /\ stages[i].kind = s[i].kind
                                   /\ stages[i].message = s[i].endpoint
      BY <1>4, <1>5, <2>1
    <2>3. /\ Len(OfKinds(stages, ServerKinds)) = Len(OfKinds(s, ServerKinds))
          /\ \A i \in 1 .. Len(OfKinds(s, ServerKinds)) :
               OfKinds(stages, ServerKinds)[i].message =
                 OfKinds(s, ServerKinds)[i].endpoint
      BY SMTT(30), <2>2, OfKindsAlike
    <2> QED BY <2>1, <2>3
  <1>7. OfKinds(r, ServerKinds) \in Seq(R)
    BY <1>4, OfKindsType
  <1>8. DOMAIN OfKinds(r, ServerKinds) = 1 .. Len(OfKinds(s, ServerKinds))
    BY <1>6, <1>7
  <1> QED BY <1>1, <1>2, <1>6, <1>8 DEF ShownRoute

\* What the TLS mode of the profile changes is no server.
LEMMA SameServers ==
  ASSUME NEW p, PlanFromProfile(p) # Absent,
         PlanFromConfig(p.transport).target.kind # "localFile",
         NEW S, PlanFromConfig(p.transport).steps \in Seq(S)
  PROVE  /\ PlanFromConfig(p.transport) # Absent
         /\ PlanFromProfile(p).steps \in Seq(S \cup {Step("tls", Absent)})
         /\ OfKinds(PlanFromProfile(p).steps, ServerKinds) =
              OfKinds(PlanFromConfig(p.transport).steps, ServerKinds)
         /\ PlanFromProfile(p).target.endpoint =
              [PlanFromConfig(p.transport).target EXCEPT !.tls =
                 TransportTlsEnabled(p)].endpoint
  <1>1. PICK plan : plan = PlanFromConfig(p.transport)
    OBVIOUS
  <1>2. PICK tls : tls = TransportTlsEnabled(p)
    OBVIOUS
  <1>3. /\ plan # Absent
        /\ PlanFromProfile(p) =
             [ target |-> [plan.target EXCEPT !.tls = tls],
               steps  |-> OfKinds(plan.steps, TransportStepKind \ {"tls"})
                            \o If(tls, TlsStep) ]
    BY <1>1, <1>2 DEF PlanFromProfile
  <1> DEFINE T == S \cup {Step("tls", Absent)}
  <1>4. PICK s \in Seq(S) : s = plan.steps
    BY <1>1
  <1>5. s \in Seq(T)
    OBVIOUS
  <1>6. PICK most \in Seq(T) : most = OfKinds(s, TransportStepKind \ {"tls"})
    BY <1>5, OfKindsType
  <1>7. PICK last \in Seq(T) : last = If(tls, TlsStep)
    <2>1. Step("tls", Absent) \in T
      OBVIOUS
    <2> HIDE DEF T
    <2>2. TlsStep \in Seq(T) /\ << >> \in Seq(T)
      BY <2>1 DEF TlsStep
    <2> QED BY <2>2 DEF If
  <1> HIDE DEF T
  <1>8. OfKinds(most \o last, ServerKinds) =
          OfKinds(most, ServerKinds) \o OfKinds(last, ServerKinds)
    BY OfKindsConcat
  <1>9. OfKinds(last, ServerKinds) = << >>
    BY <1>7, OnlyServers
  <1>10. OfKinds(most, ServerKinds) = OfKinds(s, ServerKinds)
    <2>1. ServerKinds \subseteq TransportStepKind \ {"tls"}
      BY DEF ServerKinds, TransportStepKind
    <2> QED BY <2>1, <1>5, <1>6, OfKindsTwice
  <1>11. OfKinds(s, ServerKinds) \in Seq(T)
    BY <1>5, OfKindsType
  <1>12. OfKinds(s, ServerKinds) \o << >> = OfKinds(s, ServerKinds)
    BY <1>11, ConcatEmptySeq
  <1>13. most \o last \in Seq(T)
    BY ConcatProperties
  <1>14. PlanFromProfile(p).steps = most \o last
    BY <1>3, <1>4, <1>6, <1>7
  <1>15. PlanFromProfile(p).target = [plan.target EXCEPT !.tls = tls]
    BY <1>3
  <1> QED BY <1>1, <1>2, <1>3, <1>4, <1>8, <1>9, <1>10, <1>12, <1>13, <1>14, <1>15 DEF T

\* The servers of a plan, as their addresses.
Listed(plan) == [i \in 1 .. Len(OfKinds(plan.steps, ServerKinds)) |->
                   OfKinds(plan.steps, ServerKinds)[i].endpoint]

Follows(plan, t) ==
  /\ \E tls : plan.target = TcpTarget(Destination(t), tls)
  /\ \E S : plan.steps \in Seq(S)
  /\ Listed(plan) = RouteOf(ResolveTransport(t))

\* The target is the last server of a list.
LEMMA TargetIsShown ==
  ASSUME NEW S, NEW first \in Seq(S), NEW last \in Seq(S), NEW x \in S
  PROVE  /\ (first \o <<x>>) \o last \in Seq(S)
         /\ OfKinds((first \o <<x>>) \o last, ServerKinds) =
              (OfKinds(first, ServerKinds) \o OfKinds(<<x>>, ServerKinds))
                \o OfKinds(last, ServerKinds)
  <1>1. PICK d \in Seq(S) : d = <<x>>
    <2>1. <<x>> \in Seq(S)
      OBVIOUS
    <2> QED BY <2>1
  <1>2. PICK fd \in Seq(S) : fd = first \o d
    BY ConcatProperties
  <1>3. OfKinds(fd \o last, ServerKinds) =
          OfKinds(fd, ServerKinds) \o OfKinds(last, ServerKinds)
    BY SMTT(30), OfKindsConcat
  <1>4. OfKinds(fd, ServerKinds) =
          OfKinds(first, ServerKinds) \o OfKinds(d, ServerKinds)
    BY <1>2, OfKindsConcat
  <1>5. fd \o last \in Seq(S)
    BY ConcatProperties
  <1> QED BY <1>1, <1>2, <1>3, <1>4, <1>5

LEMMA TargetIsLast ==
  ASSUME NEW S, NEW first \in Seq(S), NEW last \in Seq(S), NEW x \in S,
         x.kind \in ServerKinds, OfKinds(last, ServerKinds) = << >>
  PROVE  /\ (first \o <<x>>) \o last \in Seq(S)
         /\ OfKinds((first \o <<x>>) \o last, ServerKinds) =
              Append(OfKinds(first, ServerKinds), x)
  <1>1. /\ (first \o <<x>>) \o last \in Seq(S)
        /\ OfKinds((first \o <<x>>) \o last, ServerKinds) =
             (OfKinds(first, ServerKinds) \o OfKinds(<<x>>, ServerKinds))
               \o OfKinds(last, ServerKinds)
    BY ZenonT(30), TargetIsShown
  <1>2. OfKinds(<<x>>, ServerKinds) = <<x>>
    BY OfKindsOne DEF If
  <1>3. PICK servers \in Seq(S) : servers = OfKinds(first, ServerKinds)
    BY OfKindsType
  <1>4. servers \o <<x>> = Append(servers, x) /\ Append(servers, x) \in Seq(S)
    OBVIOUS
  <1>5. Append(servers, x) \o << >> = Append(servers, x)
    BY <1>4, ConcatEmptySeq
  <1> QED BY <1>1, <1>2, <1>3, <1>4, <1>5

\* A plan that lists the hops and then the target.
LEMMA HopsAndTarget ==
  ASSUME NEW plan, NEW t, NEW tls, plan.target = TcpTarget(Destination(t), tls),
         NEW S, NEW first \in Seq(S), NEW last \in Seq(S),
         plan.steps = (first \o <<Step("directTcp", Destination(t))>>) \o last,
         Step("directTcp", Destination(t)) \in S,
         OfKinds(last, ServerKinds) = << >>,
         NEW n \in Nat, Len(OfKinds(first, ServerKinds)) = n,
         Len(ResolveTransport(t).hops) = n,
         \A i \in 1 .. n :
           OfKinds(first, ServerKinds)[i].endpoint = ResolveTransport(t).hops[i].addr
  PROVE  Follows(plan, t)
  <1>1. PICK x \in S : x = Step("directTcp", Destination(t))
    OBVIOUS
  <1>2. x.kind \in ServerKinds /\ x.endpoint = Destination(t)
    BY <1>1 DEF Step, ServerKinds
  <1>3. /\ plan.steps \in Seq(S)
        /\ OfKinds(plan.steps, ServerKinds) = Append(OfKinds(first, ServerKinds), x)
    BY <1>1, <1>2, TargetIsLast
  <1>4. PICK servers \in Seq(S) : servers = OfKinds(first, ServerKinds)
    BY OfKindsType
  <1>5. PICK all \in Seq(S) : all = Append(servers, x)
    BY AppendProperties
  <1>6. /\ Len(all) = n + 1 /\ all[n + 1] = x
        /\ \A i \in 1 .. n : all[i] = servers[i]
    BY <1>4, <1>5
  <1>7. all = OfKinds(plan.steps, ServerKinds)
    BY <1>3, <1>4, <1>5
  <1> HIDE <1>4
  <1>8. \A i \in 1 .. n : all[i].endpoint = ResolveTransport(t).hops[i].addr
    BY <1>4, <1>6
  <1>9. ResolveTransport(t).target = Destination(t)
    BY DEF ResolveTransport
  <1>10. RouteOf(ResolveTransport(t)) =
            [i \in 1 .. n + 1 |-> IF i <= n THEN ResolveTransport(t).hops[i].addr
                                  ELSE Destination(t)]
    BY <1>9 DEF RouteOf
  <1>11. ASSUME NEW i \in 1 .. n + 1
         PROVE  all[i].endpoint = IF i <= n THEN ResolveTransport(t).hops[i].addr
                                  ELSE Destination(t)
    <2>1. CASE i <= n
      <3>1. i \in 1 .. n
        BY <2>1
      <3> QED BY <3>1, <2>1, <1>8
    <2>2. CASE ~(i <= n)
      <3>1. i = n + 1
        BY <2>2
      <3> QED BY <3>1, <2>2, <1>2, <1>6
    <2> QED BY <2>1, <2>2
  <1>12. Listed(plan) = [i \in 1 .. n + 1 |-> all[i].endpoint]
    BY <1>6, <1>7 DEF Listed
  <1>13. Listed(plan) = RouteOf(ResolveTransport(t))
    BY <1>10, <1>11, <1>12
  <1> QED BY <1>3, <1>13 DEF Follows

LEMMA ThreeAndOne ==
  ASSUME NEW x, NEW y, NEW z, NEW d
  PROVE  <<x, y, z>> \o <<d>> = <<x, y, z, d>>
  <1>1. PICK S : S = {x, y, z, d}
    OBVIOUS
  <1>2. PICK a \in Seq(S) : a = <<x, y, z>>
    <2>1. <<x, y, z>> \in Seq(S)
      BY <1>1
    <2> QED BY <2>1
  <1>3. PICK b \in Seq(S) : b = <<d>>
    <2>1. <<d>> \in Seq(S)
      BY <1>1
    <2> QED BY <2>1
  <1>4. PICK c \in Seq(S) : c = <<x, y, z, d>>
    <2>1. <<x, y, z, d>> \in Seq(S)
      BY <1>1
    <2> QED BY <2>1
  <1>5. Len(c) = Len(a) + Len(b) /\ Len(a) = 3 /\ Len(b) = 1
    BY <1>2, <1>3, <1>4
  <1>6. \A i \in 1 .. Len(a) : c[i] = a[i]
    BY <1>2, <1>4
  <1>7. \A i \in 1 .. Len(b) : c[Len(a) + i] = b[i]
    BY <1>3, <1>4, <1>5
  <1>8. c = a \o b
    BY <1>5, <1>6, <1>7, IsConcat
  <1> QED BY <1>2, <1>3, <1>4, <1>8

LEMMA TunnelPlanFollows ==
  ASSUME NEW t, t.kind = "sshTunnel" PROVE Follows(PlanSshTunnel(t), t)
  <1>0. PICK S : S = Steps({Absent, Server(t), Destination(t)})
    OBVIOUS
  <1> DEFINE plan == PlanSshTunnel(t)
             d == Step("directTcp", Destination(t))
  <1>1. \A seq \in Seq(Steps({Absent, Server(t)})) : seq \in Seq(S)
    <2>1. Steps({Absent, Server(t)}) \subseteq S
      BY <1>0 DEF Steps
    <2> QED BY <2>1, SeqMonotonic
  <1>2. PICK first \in Seq(S) : first = SshSteps(t)
    BY <1>1, SshIsOneServer
  <1>3. PICK last \in Seq(S) : last = If(t.strictHostKey, <<Step("auth", Absent)>>)
    <2>1. <<Step("auth", Absent)>> \in Seq(S)
      BY <1>0, StepIsOne DEF TransportStepKind
    <2>2. << >> \in Seq(S)
      OBVIOUS
    <2> QED BY <2>1, <2>2 DEF If
  <1>4. d \in S
    BY <1>0 DEF Step, Steps, TransportStepKind
  <1>5. plan.target = TcpTarget(Destination(t), FALSE)
    BY DEF PlanSshTunnel
  <1>6. plan.steps = (first \o <<d>>) \o last
    <2>1. plan.steps = << Step("resolve", Server(t)), Step("auth", Absent),
                          Step("sshTunnel", Server(t)), d >> \o last
      BY <1>3 DEF PlanSshTunnel
    <2>2. \A x, y, z : <<x, y, z>> \o <<d>> = <<x, y, z, d>>
      BY ThreeAndOne
    <2>3. first \o <<d>> = << Step("resolve", Server(t)), Step("auth", Absent),
                              Step("sshTunnel", Server(t)), d >>
      BY <1>2, <2>2 DEF SshSteps
    <2> QED BY <2>1, <2>3
  <1>7. OfKinds(last, ServerKinds) = << >>
    BY <1>3, OnlyServers
  <1>8. ResolveTransport(t).hops = <<ResolveHop(t)>>
    BY DEF ResolveTransport
  <1>9. ResolveHop(t).addr = Server(t)
    BY DEF ResolveHop
  <1>10. OfKinds(first, ServerKinds) = <<Step("sshTunnel", Server(t))>>
    BY <1>2, SshIsOneServer
  <1>11. /\ Len(OfKinds(first, ServerKinds)) = 1
         /\ Len(ResolveTransport(t).hops) = 1
         /\ \A i \in 1 .. 1 :
              OfKinds(first, ServerKinds)[i].endpoint = ResolveTransport(t).hops[i].addr
    BY <1>8, <1>9, <1>10 DEF Step
  <1> HIDE DEF plan, d
  <1>12. Follows(plan, t)
    BY <1>4, <1>5, <1>6, <1>7, <1>11, HopsAndTarget DEF d
  <1> QED BY <1>12 DEF plan

LEMMA ProxyPlanFollows ==
  ASSUME NEW t, t.kind \in {"socks5Proxy", "httpConnectProxy"}
  PROVE  Follows(PlanSingleProxy(t), t)
  <1>0. PICK S : S = Steps({Absent, Server(t), Destination(t)})
    OBVIOUS
  <1> DEFINE plan == PlanSingleProxy(t)
             d == Step("directTcp", Destination(t))
  <1>1. \A seq \in Seq(Steps({Absent, Server(t)})) : seq \in Seq(S)
    <2>1. Steps({Absent, Server(t)}) \subseteq S
      BY <1>0 DEF Steps
    <2> QED BY <2>1, SeqMonotonic
  <1>2. PICK first \in Seq(S) : first = ProxySteps(t.kind, t)
    BY <1>1, ProxyIsOneServer
  <1>3. PICK last \in Seq(S) : last = If(t.tls, TlsStep)
    <2>1. TlsStep \in Seq(S)
      BY <1>0, StepIsOne DEF TransportStepKind, TlsStep
    <2>2. << >> \in Seq(S)
      OBVIOUS
    <2> QED BY <2>1, <2>2 DEF If
  <1>4. d \in S
    BY <1>0 DEF Step, Steps, TransportStepKind
  <1>5. plan.target = TcpTarget(Destination(t), t.tls)
    BY DEF PlanSingleProxy
  <1>6. plan.steps = (first \o <<d>>) \o last
    BY <1>2, <1>3 DEF PlanSingleProxy
  <1>7. OfKinds(last, ServerKinds) = << >>
    BY <1>3, OnlyServers
  <1>8. ResolveTransport(t).hops = <<ResolveHop(t)>>
    BY DEF ResolveTransport
  <1>9. ResolveHop(t).addr = Server(t)
    BY DEF ResolveHop
  <1>10. OfKinds(first, ServerKinds) = <<Step(t.kind, Server(t))>>
    BY <1>2, ProxyIsOneServer
  <1>11. /\ Len(OfKinds(first, ServerKinds)) = 1
         /\ Len(ResolveTransport(t).hops) = 1
         /\ \A i \in 1 .. 1 :
              OfKinds(first, ServerKinds)[i].endpoint = ResolveTransport(t).hops[i].addr
    BY <1>8, <1>9, <1>10 DEF Step
  <1> HIDE DEF plan, d
  <1>12. Follows(plan, t)
    BY <1>4, <1>5, <1>6, <1>7, <1>11, HopsAndTarget DEF d
  <1> QED BY <1>12 DEF plan

LEMMA ChainPlanFollows ==
  ASSUME NEW t, t.kind = "chain", NEW n \in Nat, DOMAIN t.hops = 1 .. n,
         \A i \in 1 .. n : t.hops[i].config.kind \in HopKinds
  PROVE  Follows(PlanChain(t), t)
  <1>0. PICK S : S = Steps({Absent, Destination(t)}
                             \cup {Server(t.hops[i].config) : i \in 1 .. n})
    OBVIOUS
  <1> DEFINE plan == PlanChain(t)
             d == Step("directTcp", Destination(t))
             parts == [i \in DOMAIN t.hops |-> HopSteps(t.hops[i].config)]
  <1>1. ASSUME NEW i \in 1 .. n
        PROVE  /\ HopSteps(t.hops[i].config) \in Seq(S)
               /\ \E x \in S : /\ x.endpoint = Server(t.hops[i].config)
                              /\ OfKinds(HopSteps(t.hops[i].config), ServerKinds)
                                   = <<x>>
    <2>1. PICK c : c = t.hops[i].config
      OBVIOUS
    <2>2. c.kind \in HopKinds
      BY <2>1
    <2>3. Steps({Absent, Server(c)}) \subseteq S
      BY <1>0, <2>1 DEF Steps
    <2>4. HopSteps(c) \in Seq(Steps({Absent, Server(c)}))
      BY <2>2, HopIsOneServer
    <2>5. HopSteps(c) \in Seq(S)
      BY <2>3, <2>4, SeqMonotonic
    <2>6. PICK k : OfKinds(HopSteps(c), ServerKinds) = <<Step(k, Server(c))>>
                   /\ k \in ServerKinds
      BY <2>2, HopIsOneServer
    <2>7. Step(k, Server(c)) \in S
      BY <1>0, <2>1, <2>6 DEF Step, Steps, ServerKinds, TransportStepKind
    <2>8. Step(k, Server(c)).endpoint = Server(c)
      BY DEF Step
    <2> QED BY <2>1, <2>5, <2>6, <2>7, <2>8
  <1>2. PICK seqs \in Seq(Seq(S)) : seqs = parts
    <2>1. parts \in Seq(Seq(S))
      BY <1>1
    <2> QED BY <2>1
  <1>3. Len(seqs) = n /\ \A i \in 1 .. n : seqs[i] = HopSteps(t.hops[i].config)
    BY <1>2
  <1>4. PICK server \in [1 .. n -> S] :
          \A i \in 1 .. n : /\ server[i].endpoint = Server(t.hops[i].config)
                           /\ OfKinds(seqs[i], ServerKinds) = <<server[i]>>
    <2> DEFINE Is(i, x) == /\ x.endpoint = Server(t.hops[i].config)
                           /\ OfKinds(seqs[i], ServerKinds) = <<x>>
    <2>1. \A i \in 1 .. n : \E x \in S : Is(i, x)
      BY <1>1, <1>3
    <2> HIDE DEF Is
    <2>2. PICK server : server = [i \in 1 .. n |-> CHOOSE x \in S : Is(i, x)]
      OBVIOUS
    <2>3. server \in [1 .. n -> S] /\ \A i \in 1 .. n : Is(i, server[i])
      BY <2>1, <2>2
    <2> QED BY <2>3 DEF Is
  <1>5. PICK servers \in Seq(S) : servers = server
    OBVIOUS
  <1>6. Len(servers) = n /\ \A i \in 1 .. n : servers[i] = server[i]
    BY <1>5
  <1>7. PICK some \in Seq(Seq(S)) : some = [i \in 1 .. n |-> <<servers[i]>>]
    <2>1. \A i \in 1 .. n : <<servers[i]>> \in Seq(S)
      BY <1>6
    <2>2. [i \in 1 .. n |-> <<servers[i]>>] \in Seq(Seq(S))
      BY <2>1
    <2> QED BY <2>2
  <1>8. Len(some) = Len(seqs)
    BY <1>3, <1>7
  <1>9. \A i \in 1 .. Len(seqs) : some[i] = OfKinds(seqs[i], ServerKinds)
    BY <1>3, <1>4, <1>6, <1>7
  <1>10. PICK first \in Seq(S) : first = FlattenSeq(seqs)
    BY FlattenType
  <1>11. OfKinds(first, ServerKinds) = FlattenSeq(some)
    BY <1>8, <1>9, <1>10, OfKindsFlatten
  <1>12. FlattenSeq(some) = servers
    <2>1. /\ Len(some) = Len(servers)
          /\ \A i \in 1 .. Len(servers) : some[i] = <<servers[i]>>
      BY <1>6, <1>7
    <2> QED BY <2>1, FlattenSingletons
  <1>13. PICK last \in Seq(S) : last = If(t.tls, TlsStep)
    <2>1. TlsStep \in Seq(S)
      BY <1>0, StepIsOne DEF TransportStepKind, TlsStep
    <2>2. << >> \in Seq(S)
      OBVIOUS
    <2> QED BY <2>1, <2>2 DEF If
  <1>14. d \in S
    BY <1>0 DEF Step, Steps, TransportStepKind
  <1>15. plan.target = TcpTarget(Destination(t), t.tls)
    BY DEF PlanChain
  <1>16. plan.steps = (first \o <<d>>) \o last
    BY <1>2, <1>10, <1>13 DEF PlanChain
  <1>17. OfKinds(last, ServerKinds) = << >>
    BY <1>13, OnlyServers
  <1>18. ResolveTransport(t).hops = [i \in 1 .. n |-> ResolveHop(t.hops[i].config)]
    BY DEF ResolveTransport
  <1>19. \A i \in 1 .. n : ResolveTransport(t).hops[i].addr = Server(t.hops[i].config)
    <2>1. \A c : ResolveHop(c).addr = Server(c)
      BY DEF ResolveHop
    <2> QED BY <1>18, <2>1
  <1>20. Len(ResolveTransport(t).hops) = n
    BY <1>18
  <1>21. /\ Len(OfKinds(first, ServerKinds)) = n
         /\ \A i \in 1 .. n :
              OfKinds(first, ServerKinds)[i].endpoint = ResolveTransport(t).hops[i].addr
    BY <1>4, <1>6, <1>11, <1>12, <1>19
  <1> HIDE DEF plan, d, parts
  <1>22. Follows(plan, t)
    BY <1>14, <1>15, <1>16, <1>17, <1>20, <1>21, HopsAndTarget DEF d
  <1> QED BY <1>22 DEF plan

\* The plan of every transport that goes through other servers.
LEMMA PlanFollows ==
  ASSUME NEW p \in Profiles, p.transport.kind \in Proxied,
         PlanFromProfile(p) # Absent, ResolveTransport(p.transport) \in Transports
  PROVE  Follows(PlanFromConfig(p.transport), p.transport)
  <1>1. PICK t : t = p.transport
    OBVIOUS
  <1>2. PlanFromConfig(t) # Absent
    BY <1>1 DEF PlanFromProfile
  <1>3. CASE t.kind = "sshTunnel"
    <2>1. PlanFromConfig(t) = PlanSshTunnel(t)
      BY <1>2, <1>3 DEF PlanFromConfig
    <2> QED BY <1>1, <1>3, <2>1, TunnelPlanFollows
  <1>4. CASE t.kind \in {"socks5Proxy", "httpConnectProxy"}
    <2>1. PlanFromConfig(t) = PlanSingleProxy(t)
      BY <1>2, <1>4 DEF PlanFromConfig
    <2> QED BY <1>1, <1>4, <2>1, ProxyPlanFollows
  <1>5. CASE t.kind = "chain"
    <2>1. PlanFromConfig(t) = PlanChain(t)
      BY <1>2, <1>5 DEF PlanFromConfig
    <2>2. PICK hops : hops = ResolveTransport(t).hops
      OBVIOUS
    <2>3. Len(hops) \in Nat /\ DOMAIN hops = 1 .. Len(hops)
      <3>1. ResolveTransport(t) \in Transports
        BY <1>1
      <3> QED BY <2>2, <3>1, HopsAreASequence
    <2>4. DOMAIN hops = DOMAIN t.hops
      BY <1>5, <2>2 DEF ResolveTransport
    <2>5. \A i \in 1 .. Len(hops) : t.hops[i].config.kind \in HopKinds
      BY <1>1, <1>5, <2>3, <2>4, ConnectAssumption DEF HopKinds
    <2>6. Follows(PlanChain(t), t)
      BY <1>5, <2>3, <2>4, <2>5, ChainPlanFollows
    <2> QED BY <1>1, <2>1, <2>6
  <1> QED BY <1>1, <1>3, <1>4, <1>5 DEF Proxied

\* What is shown of a profile is the route of its transport.
LEMMA ShownIsTheRoute ==
  ASSUME NEW p \in Profiles, p.transport.kind \in Proxied,
         PlanFromProfile(p) # Absent, ResolveTransport(p.transport) \in Transports
  PROVE  /\ ShownRoute(DiagnosticsTemplate(PlanFromProfile(p))) =
              RouteOf(ResolveTransport(p.transport))
         /\ PlanFromProfile(p).target.endpoint = Destination(p.transport)
  <1>1. PICK plan : plan = PlanFromConfig(p.transport)
    OBVIOUS
  <1>2. PICK whole : whole = PlanFromProfile(p)
    OBVIOUS
  <1>3. Follows(plan, p.transport)
    BY <1>1, PlanFollows
  <1>4. PICK tls : plan.target = TcpTarget(Destination(p.transport), tls)
    BY <1>3 DEF Follows
  <1>5. PICK S : plan.steps \in Seq(S)
    BY <1>3 DEF Follows
  <1>6. plan.target.kind # "localFile"
    BY <1>4 DEF TcpTarget
  <1>7. /\ whole.steps \in Seq(S \cup {Step("tls", Absent)})
        /\ OfKinds(whole.steps, ServerKinds) = OfKinds(plan.steps, ServerKinds)
        /\ whole.target.endpoint =
             [plan.target EXCEPT !.tls = TransportTlsEnabled(p)].endpoint
    BY <1>1, <1>2, <1>5, <1>6, SameServers
  <1>8. whole.target.endpoint = Destination(p.transport)
    BY <1>4, <1>7 DEF TcpTarget
  <1>9. ShownRoute(DiagnosticsTemplate(whole)) = Listed(whole)
    BY <1>7, ShownAreServers DEF Listed
  <1>10. Listed(whole) = Listed(plan)
    BY <1>7 DEF Listed
  <1> QED BY <1>2, <1>3, <1>8, <1>9, <1>10 DEF Follows

-----------------------------------------------------------------------------
\* A connection that is up goes along the whole route of its transport.
LEMMA UpIsArrived == Spec => [](outcome = "up" => reached = RouteOf(transport))
  <1> DEFINE Arrived == outcome = "up" => reached = RouteOf(transport)
  <1>1. Abstract!Init => Arrived
    BY DEF Abstract!Init
  <1>2. Arrived /\ [Abstract!Next]_AbstractVars => Arrived'
    BY DEF AbstractVars, Abstract!Next, Abstract!Extend, Abstract!Finish, Abstract!Abandon
  <1>3. Spec => ImplementsTunnel
    BY ProfilesAreTunnelled
  <1> QED BY <1>1, <1>2, <1>3, PTL DEF ImplementsTunnel, Abstract!Spec, AbstractVars

\* The transport that is dialled is the profile's, and it is dialled only
\* when there is a plan of it.
DialledAsPlanned ==
  /\ profile \in Profiles /\ transport \in Transports
  /\ profile.transport.kind \in Proxied =>
       transport = ResolveTransport(profile.transport)
  /\ pc # "first" => profile.transport.kind \in Proxied /\ Plan # Absent

LEMMA TransportStays == DialNext => transport' = transport
  BY DEF DialNext, Goto, Fail, Connected, ConnectFirst, BeginProxy, BeginSsh,
         NextHop, IoError, SocksMethod, SocksAuth, SocksRequest, SocksHead,
         SocksBound, SocksDomainLength, SocksDomain, HttpAnswer, HttpReadByte,
         HttpStatus, SshHostKey, SshLogin, SshChannel, SetNonblocking

LEMMA AlwaysAsPlanned == Spec => []DialledAsPlanned
  <1>1. Init => DialledAsPlanned
    BY DEF Init, DialInit, DialledAsPlanned
  <1>2. DialledAsPlanned /\ [Next]_vars => DialledAsPlanned'
    <2> SUFFICES ASSUME DialledAsPlanned, [Next]_vars PROVE DialledAsPlanned'
      OBVIOUS
    <2> USE DEF DialledAsPlanned
    <2>1. CASE DialProfile
      BY <2>1, TransportStays DEF DialProfile, Plan
    <2>2. CASE ProbeProfile
      BY <2>2 DEF ProbeProfile, dialVars, Plan
    <2>3. CASE ProbeOn
      BY <2>3 DEF ProbeOn, dialVars, Plan
    <2>4. CASE UNCHANGED vars
      BY <2>4 DEF vars, dialVars, Plan
    <2> QED BY <2>1, <2>2, <2>3, <2>4 DEF Next
  <1> QED BY <1>1, <1>2, PTL DEF Spec

\* What a user was shown is what is done.
THEOREM PlansNameTheRoute == Spec => []PlanNamesTheRoute
  <1>1. DialledAsPlanned /\ Placed /\ (outcome = "up" => reached = RouteOf(transport))
          => PlanNamesTheRoute
    <2> SUFFICES ASSUME DialledAsPlanned, Placed, outcome = "up",
                        reached = RouteOf(transport)
                 PROVE  PlanNamesTheRoute
      BY DEF PlanNamesTheRoute
    <2>1. /\ profile \in Profiles /\ transport \in Transports
          /\ profile.transport.kind \in Proxied /\ Plan # Absent
          /\ transport = ResolveTransport(profile.transport)
      BY DEF DialledAsPlanned, Placed
    <2>2. /\ ShownRoute(DiagnosticsTemplate(Plan)) = RouteOf(transport)
          /\ Plan.target.endpoint = Destination(profile.transport)
      BY <2>1, ShownIsTheRoute DEF Plan
    <2>3. Last(reached) = transport.target
      BY RouteLength, OnTheRoute DEF Last
    <2>4. transport.target = Destination(profile.transport)
      BY <2>1 DEF ResolveTransport
    <2> QED BY <2>2, <2>3, <2>4 DEF PlanNamesTheRoute
  <1>2. Spec => []Placed
    BY DialsATransport, Invariance, PTL DEF Inv
  <1> QED BY <1>1, <1>2, AlwaysAsPlanned, UpIsArrived, PTL
=============================================================================
