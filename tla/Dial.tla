-------------------------------- MODULE Dial --------------------------------
(***************************************************************************)
(* dial_resolved_transport (irodori-proxy/src/protocol.rs): connecting to  *)
(* the first server of a transport and asking one server after the other   *)
(* to connect to the next, by SOCKS5, HTTP CONNECT or a channel of an SSH  *)
(* session.                                                                *)
(*                                                                         *)
(* A resolved transport is [chain, hops, target]; the kinds of transport   *)
(* with one server are one hop and chain = FALSE.  A hop is [kind, addr,   *)
(* auth, strict, hostKey], auth being the length of the longer credential  *)
(* of a proxy, or Absent.                                                  *)
(*                                                                         *)
(* The servers are external and may answer anything.  Of the bytes on the  *)
(* stream only the numbers are kept: the ones of the server's answer and,  *)
(* behind them, the ones of the connection the server has made.            *)
(***************************************************************************)
EXTENDS ConnectionProfile

CONSTANTS Transports,    \* the resolved transports that may be dialled
          MaxField,      \* 255: what a SOCKS5 length byte can say
          MaxHeader,     \* 4096: the longest answer to HTTP CONNECT
          MaxEarly       \* bound on the bytes that follow an answer at once

ASSUME DialAssumption ==
  /\ MaxField \in Nat /\ MaxHeader \in Nat \ {0} /\ MaxEarly \in Nat
  /\ Absent \notin Nat
  /\ \A t \in Transports : t.hops \in Seq({t.hops[i] : i \in DOMAIN t.hops})

VARIABLES transport,    \* the transport being dialled
          pc,           \* where the dial is
          hop,          \* the hop it is talking to
          stream,       \* current_stream: "none", "tcp" or "ssh"
          session,      \* final_session: the hop whose session is kept
          under,        \* the hops whose SSH sessions carry the stream
          reached,      \* the addresses the stream goes through
          answer,       \* what the server has answered
          unread,       \* bytes of the answer that are still to be read
          early,        \* bytes behind it, from the far end of the tunnel
          lost,         \* bytes of the tunnel that a handshake has read
          header,       \* bytes of an HTTP answer that were read
          outcome,      \* "dialing", "up" or "failed"
          blocking      \* reads and writes of the stream block

wire == <<answer, unread, early, lost, header>>
line == <<stream, session, under>>
dialVars == <<transport, pc, hop, line, reached, wire, outcome, blocking>>

Labels == { "first", "begin", "method", "auth", "request", "head", "bound",
            "domain", "name", "http", "status", "key", "login", "channel",
            "next", "done" }

Hops     == transport.hops
Here     == Hops[hop]
\* Slip: every hop is asked for the target.
OnwardTarget == transport.target
\* Where the hop is asked to connect to.
Onward   == IF hop < Len(Hops) THEN Hops[hop + 1].addr ELSE transport.target
\* A chain goes on behind its first hop; nothing else has to.
LoneHop  == transport.chain /\ Len(Hops) = 1
RouteOf(t) == [i \in 1 .. Len(t.hops) + 1 |->
                 IF i <= Len(t.hops) THEN t.hops[i].addr ELSE t.target]

-----------------------------------------------------------------------------
DialInit ==
  /\ transport \in Transports
  /\ pc = "first" /\ hop = 1
  /\ stream = "none" /\ session = Absent /\ under = {}
  /\ reached = << >>
  /\ answer = Absent /\ unread = 0 /\ early = 0 /\ lost = 0 /\ header = 0
  /\ outcome = "dialing" /\ blocking = TRUE

Goto(label) == pc' = label /\ UNCHANGED <<transport, hop, outcome, blocking>>

\* Every error returns, and the stream and the session go with it.
Fail == /\ outcome' = "failed" /\ pc' = "done"
        /\ stream' = "none" /\ session' = Absent /\ under' = {}
        /\ UNCHANGED <<transport, hop, reached, wire, blocking>>

\* read_exact takes the next n bytes, whoever has sent them.
ReadExact(n) ==
  /\ unread + early >= n
  /\ IF unread >= n THEN unread' = unread - n /\ UNCHANGED <<early, lost>>
     ELSE /\ unread' = 0
          /\ early' = early - (n - unread)
          /\ lost' = lost + (n - unread)
  /\ UNCHANGED answer

\* The far end speaks at once when it is a server that greets its client.
EarlyBytes == IF hop = Len(Hops) \/ Hops[hop + 1].kind = "ssh"
              THEN 0 .. MaxEarly ELSE {0}

\* The handshake is over and the stream goes on to the next address.
Connected == /\ reached' = Append(reached, Onward)
             /\ Goto("next")

-----------------------------------------------------------------------------
(* The first connection, and the way from one hop to the next. *)

ConnectFirst ==
  /\ pc = "first"
  /\ IF Hops = << >> THEN Fail
     ELSE /\ stream' = "tcp"
          /\ reached' = <<Here.addr>>
          /\ Goto("begin")
          /\ UNCHANGED <<session, under, wire>>

\* A proxy that has nothing to be asked for is refused once it is connected.
BeginProxy ==
  /\ pc = "begin" /\ Here.kind # "ssh"
  /\ IF LoneHop THEN Fail
     ELSE /\ Goto(IF Here.kind = "socks5" THEN "method" ELSE "http")
          /\ header' = 0 /\ answer' = Absent
          /\ UNCHANGED <<line, reached, unread, early, lost>>

\* Slip: a session is opened on whatever stream there is.
BeginSshAnyway ==
  /\ pc = "begin" /\ Here.kind = "ssh"
  /\ Goto("key")
  /\ early' = 0
  /\ UNCHANGED <<line, reached, answer, unread, lost, header>>
\* libssh2 takes a TCP stream and nothing else.
BeginSsh ==
  /\ pc = "begin" /\ Here.kind = "ssh"
  /\ IF stream # "tcp" THEN Fail
     ELSE /\ Goto("key")
          /\ early' = 0
          /\ UNCHANGED <<line, reached, answer, unread, lost, header>>

\* Slip: one hop too many.
NextHopTooFar ==
  /\ pc = "next"
  /\ hop' = hop + 1 /\ pc' = "begin"
  /\ UNCHANGED <<transport, line, reached, wire, outcome, blocking>>
NextHop ==
  /\ pc = "next"
  /\ IF hop < Len(Hops)
     THEN hop' = hop + 1 /\ pc' = "begin" /\ UNCHANGED outcome
     ELSE pc' = "done" /\ outcome' = "up" /\ UNCHANGED hop
  /\ UNCHANGED <<transport, line, reached, wire, blocking>>

\* A connection or a read or a write fails.
IoError == outcome = "dialing" /\ Fail

-----------------------------------------------------------------------------
(* SOCKS5. *)

\* The greeting is answered by a version and a method.
SocksMethod(version, method) ==
  /\ pc = "method"
  /\ IF \/ version # 5
        \/ method \notin {0, 2}
        \/ method = 2 /\ (Here.auth = Absent \/ Here.auth > MaxField)
     THEN Fail
     ELSE /\ Goto(IF method = 2 THEN "auth" ELSE "request")
          /\ UNCHANGED <<line, reached, wire>>

SocksAuth(subversion, status) ==
  /\ pc = "auth"
  /\ IF subversion # 1 \/ status # 0 THEN Fail
     ELSE Goto("request") /\ UNCHANGED <<line, reached, wire>>

\* What a server sends for an address type, the four bytes of the head
\* included.
SocksReplyLength(atyp, length) ==
  4 + (IF atyp = 1 THEN 4 ELSE IF atyp = 3 THEN 1 + length ELSE 16) + 2

\* The server is asked for the next address, and answers with the one it has
\* bound; behind a success the far end may have spoken already.
SocksRequest(status, atyp, length) ==
  /\ pc = "request"
  /\ IF Len(Onward[1]) > MaxField THEN Fail
     ELSE /\ answer' = [status |-> status, atyp |-> atyp, length |-> length]
          /\ unread' = SocksReplyLength(atyp, length)
          /\ early' \in IF status = 0 THEN EarlyBytes ELSE {0}
          /\ Goto("head")
          /\ UNCHANGED <<line, reached, lost, header>>

\* A wrong version is an error like a status that is not 0.
SocksHead ==
  /\ pc = "head"
  /\ IF answer.status # 0 \/ answer.atyp \notin {1, 3, 4} THEN Fail
     ELSE /\ ReadExact(4)
          /\ Goto(IF answer.atyp = 3 THEN "domain" ELSE "bound")
          /\ UNCHANGED <<line, reached, header>>

SocksBound ==
  /\ pc = "bound"
  /\ ReadExact(IF answer.atyp = 1 THEN 6 ELSE 18)
  /\ Connected
  /\ UNCHANGED <<line, header>>

SocksDomainLength ==
  /\ pc = "domain"
  /\ ReadExact(1)
  /\ Goto("name")
  /\ UNCHANGED <<line, reached, header>>

\* Slip: the port behind the name is left on the stream.
SocksDomainNoPort ==
  /\ pc = "name"
  /\ ReadExact(answer.length)
  /\ Connected
  /\ UNCHANGED <<line, header>>
SocksDomain ==
  /\ pc = "name"
  /\ ReadExact(answer.length + 2)
  /\ Connected
  /\ UNCHANGED <<line, header>>

-----------------------------------------------------------------------------
(* HTTP CONNECT. *)

\* An answer of n bytes, the last four of which are its end.
HttpAnswer(status, n) ==
  /\ pc = "http" /\ answer = Absent
  /\ answer' = [status |-> status, length |-> n]
  /\ unread' = n
  /\ early' \in IF status = 200 THEN EarlyBytes ELSE {0}
  /\ UNCHANGED <<transport, pc, hop, line, reached, lost, header, outcome,
                 blocking>>

HttpReadByte ==
  /\ pc = "http" /\ answer # Absent
  /\ IF header + 1 > MaxHeader THEN Fail
     ELSE /\ ReadExact(1)
          /\ header' = header + 1
          /\ Goto(IF header + 1 = answer.length THEN "status" ELSE "http")
          /\ UNCHANGED <<line, reached>>

HttpStatus ==
  /\ pc = "status"
  /\ IF answer.status # 200 THEN Fail
     ELSE Connected /\ UNCHANGED <<line, wire>>

-----------------------------------------------------------------------------
(* SSH. *)

\* The session's handshake is done and has shown the server's key.
SshHostKey(key) ==
  /\ pc = "key"
  /\ IF Here.strict /\ (Here.hostKey = Absent \/ Here.hostKey # key) THEN Fail
     ELSE Goto("login") /\ UNCHANGED <<line, reached, wire>>

\* Agent, password or key: the session has to be authenticated in the end.
SshLogin(accepted) ==
  /\ pc = "login"
  /\ IF ~accepted THEN Fail
     ELSE Goto("channel") /\ UNCHANGED <<line, reached, wire>>

SshChannel ==
  /\ pc = "channel"
  /\ IF LoneHop THEN Fail
     ELSE /\ stream' = "ssh"
          /\ session' = hop
          /\ under' = under \cup {hop}
          /\ Connected
          /\ UNCHANGED wire

-----------------------------------------------------------------------------
\* TunneledStream::set_nonblocking: of the socket, or of the session kept.
SetNonblocking(nonblocking) ==
  /\ outcome = "up"
  /\ blocking' = IF stream = "ssh" /\ session = Absent THEN blocking
                 ELSE ~nonblocking
  /\ UNCHANGED <<transport, pc, hop, line, reached, wire, outcome>>

DialNext ==
  \/ ConnectFirst \/ BeginProxy \/ BeginSsh \/ NextHop \/ IoError
  \/ \E version \in {4, 5}, method \in {0, 2, 255} : SocksMethod(version, method)
  \/ \E subversion \in {1, 5}, status \in {0, 1} : SocksAuth(subversion, status)
  \/ \E status \in {0, 5}, atyp \in {1, 2, 3, 4}, length \in {0, MaxField} :
       SocksRequest(status, atyp, length)
  \/ SocksHead \/ SocksBound \/ SocksDomainLength \/ SocksDomain
  \/ \E status \in {200, 407}, n \in {4, MaxHeader, MaxHeader + 1} :
       HttpAnswer(status, n)
  \/ HttpReadByte \/ HttpStatus
  \/ \E key \in {<<"theirs">>, <<"another">>} : SshHostKey(key)
  \/ \E accepted \in BOOLEAN : SshLogin(accepted)
  \/ SshChannel
  \/ \E nonblocking \in BOOLEAN : SetNonblocking(nonblocking)

DialSpec == DialInit /\ [][DialNext]_dialVars

-----------------------------------------------------------------------------
(* What is true of a dial. *)

TypeOK ==
  /\ transport \in Transports
  /\ pc \in Labels
  /\ hop = 1 \/ hop \in DOMAIN Hops
  /\ stream \in {"none", "tcp", "ssh"}
  /\ session \in Nat \cup {Absent}
  /\ under \subseteq Nat
  /\ unread \in Nat /\ early \in Nat /\ lost \in Nat /\ header \in Nat
  /\ outcome \in {"dialing", "up", "failed"}
  /\ blocking \in BOOLEAN

\* An SSH stream has its session with it and no other session below it: the
\* session that set_nonblocking turns and that must outlive the channel is
\* the one the channel belongs to, in whatever order the hops come.
SessionIsTheChannels ==
  /\ under = IF session = Absent THEN {} ELSE {session}
  /\ (stream = "ssh") <=> (session # Absent)

\* A handshake reads its server's answer to the last byte and not one byte
\* of the connection behind it: whatever the server has bound, and however
\* soon the far end spoke, what the far end said first is still there.
TunnelBytesIntact ==
  /\ lost = 0
  /\ pc = "next" \/ outcome = "up" => unread = 0

\* The stream grows along the route of its transport, hop by hop, and is
\* handed out only when it ends at the target.
Abstract == INSTANCE Tunnel WITH route <- RouteOf(transport)
ImplementsTunnel == Abstract!Spec
=============================================================================
