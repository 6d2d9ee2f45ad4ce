------------------------------- MODULE Proxy -------------------------------
(***************************************************************************)
(* internal/proxy/proxy.go and listener.go: the life of a client           *)
(* connection, from admit to the Close that frees its slot, with the       *)
(* requests it carries, while the config is reloaded at any moment, and    *)
(* the life of the process around it (Serve, and run in main.go): it       *)
(* listens, is told to stop by a signal, shuts the server down and exits.  *)
(*                                                                         *)
(* What a config decides is a constant here (Acl models how), the resolver *)
(* may answer anything (DnsCache), a dial reaches one of the addresses it  *)
(* is given or fails (Dial), a pooled transport likewise (UpstreamPools),  *)
(* and a tunnel ends at any time (Tunnel).  The rate limiter may refuse    *)
(* any request (Tracker).                                                  *)
(***************************************************************************)
EXTENDS Integers, FiniteSets

CONSTANTS
  Conn, Client, ClientOf,   \* connections and whose they are
  Config, FirstConfig,
  Subnet, Nil,
  SubnetIn,    \* [Config -> [Client -> Subnet \cup {Nil}]]: Policy.SubnetOf
  Host, Addr,
  HostOK,      \* [Config -> [Subnet -> SUBSET Host]]: may be looked up
  AddrOK,      \* [Config -> [Subnet -> SUBSET Addr]]: passes the vetting
  PerClient,   \* [Config -> Nat]: client_connections
  Total        \* [Config -> Nat]: total_connections; 0, for no limit, is in Tracker

ASSUME ProxyAssumption ==
  /\ ClientOf \in [Conn -> Client] /\ FirstConfig \in Config
  /\ SubnetIn \in [Config -> [Client -> Subnet \cup {Nil}]] /\ Nil \notin Subnet \cup Config
  /\ HostOK \in [Config -> [Subnet -> SUBSET Host]]
  /\ AddrOK \in [Config -> [Subnet -> SUBSET Addr]]
  /\ PerClient \in [Config -> Nat \ {0}] /\ Total \in [Config -> Nat \ {0}]

VARIABLES
  cur,    \* the active config
  conn,   \* per connection: its step, its slot, whether the socket is open
  req,    \* per connection: the request it serves
  rules,  \* per connection: the config admit has read for it, until it has decided
  sig,    \* SIGINT or SIGTERM has cancelled ctx
  shut,   \* srv.Shutdown: "no" | "waiting" for the server's connections | "done"
  srv     \* run: "listen" | "up" | "exited"

process == <<rules, sig, shut, srv>>
vars == <<cur, conn, req, process>>

NoReq == [kind |-> Nil, host |-> Nil, cfg |-> Nil, subnet |-> Nil, addrs |-> {}, up |-> Nil,
          body |-> Nil, held |-> FALSE]

Holding(cl) == {k \in Conn : conn[k].slot /\ ClientOf[k] = cl}

At(k, st) == conn[k].st = st
Goto(k, st) == conn' = [conn EXCEPT ![k].st = st]

\* clientConn.Close frees the slot; SocketCloses follows.
Shut(k) == conn' = [conn EXCEPT ![k].st = "closing", ![k].slot = FALSE]

\* A handler returns: the server waits for the next request, or closes the
\* connection once Shutdown has been called.
Idle(k) == IF shut = "no" THEN Goto(k, "idle") ELSE Shut(k)

Forget(k) == req' = [req EXCEPT ![k] = NoReq]

-----------------------------------------------------------------------------
(* listener.go *)

\* Accept until Serve returns, so also a connection taken just before Shutdown
\* closed the listener.  The loop is one goroutine: the next connection has to
\* wait until admit is done with this one.
Accept(k) ==
  /\ srv = "up" /\ At(k, "new") /\ \A i \in Conn : rules[i] = Nil
  /\ rules' = [rules EXCEPT ![k] = cur]
  /\ UNCHANGED <<cur, conn, req, sig, shut, srv>>

\* admit goes by the config it has read, whatever is active by now.
Admissible(k) ==
  /\ SubnetIn[rules[k]][ClientOf[k]] # Nil
  /\ Cardinality(Holding(ClientOf[k])) < PerClient[rules[k]]
  /\ Cardinality({i \in Conn : conn[i].slot}) < Total[rules[k]]

Decided(k) == rules' = [rules EXCEPT ![k] = Nil] /\ UNCHANGED <<cur, req, sig, shut, srv>>

\* Acquire takes a slot.
Admit(k) ==
  /\ rules[k] # Nil /\ Admissible(k)
  /\ conn' = [conn EXCEPT ![k] = [st |-> "idle", slot |-> TRUE, sock |-> TRUE]]
  /\ Decided(k)

\* A client of no subnet, or Acquire fails: closed before anything is read.
Reject(k) ==
  /\ rules[k] # Nil /\ ~Admissible(k)
  /\ conn' = [conn EXCEPT ![k] = [st |-> "closed", slot |-> FALSE, sock |-> FALSE]]
  /\ Decided(k)

\* The rest of clientConn.Close, once the slot is free.
SocketCloses(k) ==
  /\ At(k, "closing")
  /\ conn' = [conn EXCEPT ![k].st = "closed", ![k].sock = FALSE]
  /\ UNCHANGED <<cur, req, process>>

-----------------------------------------------------------------------------
(* ServeHTTP up to the lookup *)

\* A request that is not for a proxy (400), or that is rate limited (429): the
\* connection stays.
Bounce(k) ==
  /\ At(k, "idle")
  /\ Idle(k)
  /\ UNCHANGED <<cur, req, process>>

\* check: the config is read once per request.
Read(k, kind, h) ==
  LET c == cur
      s == SubnetIn[c][ClientOf[k]]
  IN /\ At(k, "idle")
     /\ req' = [req EXCEPT ![k] = [NoReq EXCEPT !.kind = kind, !.host = h, !.cfg = c, !.subnet = s]]
     /\ Goto(k, IF s # Nil /\ h \in HostOK[c][s] THEN "lookup" ELSE "denied")
     /\ UNCHANGED <<cur, process>>

\* An unsupported scheme is denied before check.
BadScheme(k) ==
  /\ At(k, "idle")
  /\ Goto(k, "denied")
  /\ UNCHANGED <<cur, req, process>>

\* Mutated form: addresses are vetted against the config of the moment.
VettedNow(k, A) == A # {} /\ req[k].subnet # Nil /\ A \subseteq AddrOK[cur][req[k].subnet]

\* Subnet.Check goes on with the rules it began with.
Vetted(k, A) == A # {} /\ A \subseteq AddrOK[req[k].cfg][req[k].subnet]

\* The lookup returns; {} stands for a failure.
LookedUp(k, A) ==
  /\ At(k, "lookup")
  /\ IF Vetted(k, A)
     THEN /\ req' = [req EXCEPT ![k].addrs = A]
          /\ Goto(k, IF req[k].kind = "connect" THEN "hijack" ELSE "send")
     ELSE Goto(k, "denied") /\ UNCHANGED req
  /\ UNCHANGED <<cur, process>>

\* Mutated form: the refusal is never sent.
DeniedHangs(k) == At(k, "denied") /\ UNCHANGED vars

\* deny sets Connection: close, so the server closes after the 403.
Denied(k) ==
  /\ At(k, "denied")
  /\ Shut(k) /\ Forget(k)
  /\ UNCHANGED <<cur, process>>

-----------------------------------------------------------------------------
(* serveConnect and tunnel *)

HijackOk(k) ==
  /\ At(k, "hijack")
  /\ Goto(k, "dial")
  /\ UNCHANGED <<cur, req, process>>

\* The early bytes cannot be read: hijack closes.
HijackFails(k) ==
  /\ At(k, "hijack")
  /\ Shut(k) /\ Forget(k)
  /\ UNCHANGED <<cur, process>>

\* Hijack itself fails: the connection stays with the server.
HijackRefused(k) ==
  /\ At(k, "hijack")
  /\ Idle(k) /\ Forget(k)
  /\ UNCHANGED <<cur, process>>

\* vetted.dial: asked for the host that was checked, and for no other, it goes
\* to the vetted addresses; the name is not resolved again.
Reachable(k, asked) == IF asked = req[k].host THEN req[k].addrs ELSE {}

DialOk(k, a) ==
  /\ At(k, "dial") /\ a \in Reachable(k, req[k].host)
  /\ req' = [req EXCEPT ![k].up = a]
  /\ Goto(k, "dialled")
  /\ UNCHANGED <<cur, process>>

\* 502, then Close.
DialFails(k) ==
  /\ At(k, "dial")
  /\ Shut(k) /\ Forget(k)
  /\ UNCHANGED <<cur, process>>

\* The client has its 200 and the target the early bytes.
Established(k) ==
  /\ At(k, "dialled")
  /\ Goto(k, "tunnel")
  /\ UNCHANGED <<cur, req, process>>

\* One of these writes fails: both are closed.
NotEstablished(k) ==
  /\ At(k, "dialled")
  /\ Shut(k) /\ Forget(k)
  /\ UNCHANGED <<cur, process>>

\* tunnelCopy closes the raw connections; the slot is still held.
TunnelEnds(k) ==
  /\ At(k, "tunnel")
  /\ conn' = [conn EXCEPT ![k].st = "copied", ![k].sock = FALSE]
  /\ Forget(k)
  /\ UNCHANGED <<cur, process>>

\* Mutated form: the goroutine closes what tunnelCopy was given.
TunnelFreesRaw(k) ==
  /\ At(k, "copied")
  /\ conn' = [conn EXCEPT ![k].st = "closed"]
  /\ UNCHANGED <<cur, req, process>>

\* The deferred client.Close.
TunnelFrees(k) ==
  /\ At(k, "copied")
  /\ Shut(k)
  /\ UNCHANGED <<cur, req, process>>

-----------------------------------------------------------------------------
(* serveRequest after the check *)

\* RoundTrip has the response header: of a body of known length, or of a stream.
\* What the transport asks the dial for is up to the transport.
RoundTrip(k, asked, a, body) ==
  /\ At(k, "send") /\ a \in Reachable(k, asked)
  /\ req' = [req EXCEPT ![k].up = a, ![k].body = body]
  /\ Goto(k, "body")
  /\ UNCHANGED <<cur, process>>

\* It fails, or the response is an unasked 101: 502 on a connection that stays.
BadGateway(k) ==
  /\ At(k, "send")
  /\ Idle(k) /\ Forget(k)
  /\ UNCHANGED <<cur, process>>

\* Mutated form: bodies of known length are the ones that are flushed.
FlushesKnown(k) == req[k].body = "length"

\* bodyWriter.
Flushes(k) == req[k].body = "stream"

\* io.Copy writes what the upstream has sent of a stream; net/http keeps it
\* in its buffer.  (What it keeps of a body of known length is not followed.)
Copy(k) ==
  /\ At(k, "body") /\ req[k].body = "stream"
  /\ req' = [req EXCEPT ![k].held = TRUE]
  /\ Goto(k, IF Flushes(k) THEN "flush" ELSE "body")
  /\ UNCHANGED <<cur, process>>

Flush(k) ==
  /\ At(k, "flush")
  /\ req' = [req EXCEPT ![k].held = FALSE]
  /\ Goto(k, "body")
  /\ UNCHANGED <<cur, process>>

\* The body has been copied.  A stream that the upstream cuts short ends here
\* too: net/http terminates it as if it were whole.
BodyEnds(k) ==
  /\ At(k, "body")
  /\ Idle(k) /\ Forget(k)
  /\ UNCHANGED <<cur, process>>

\* The client is gone, or a body is shorter than its Content-Length: net/http
\* drops the connection.
BodyCut(k) ==
  /\ conn[k].st \in {"body", "flush"}
  /\ Shut(k) /\ Forget(k)
  /\ UNCHANGED <<cur, process>>

\* The server closes a connection that is between requests: the client left,
\* IdleTimeout, ReadHeaderTimeout or a malformed request; Shutdown closes them too.
ServerCloses(k) ==
  /\ At(k, "idle")
  /\ Shut(k)
  /\ UNCHANGED <<cur, req, process>>

\* Mutated form: a config that does not load is made active as nil.
ReloadFailed(c) ==
  /\ srv # "exited"
  /\ cur' \in {c, Nil}
  /\ UNCHANGED <<conn, req, process>>

\* Store.Reload swaps the config under everyone.
Reload(c) ==
  /\ srv # "exited"
  /\ cur' = c
  /\ UNCHANGED <<conn, req, process>>

-----------------------------------------------------------------------------
(* run and Serve *)

Listen ==
  /\ srv = "listen" /\ srv' = "up"
  /\ UNCHANGED <<cur, conn, req, rules, sig, shut>>

\* The port is taken, or ctx is cancelled already.
ListenFails ==
  /\ srv = "listen" /\ srv' = "exited"
  /\ UNCHANGED <<cur, conn, req, rules, sig, shut>>

Signal ==
  /\ ~sig /\ srv # "exited" /\ sig' = TRUE
  /\ UNCHANGED <<cur, conn, req, rules, shut, srv>>

\* Mutated form: tunnels are waited for before the server is shut down.
ShutdownAfterTunnels ==
  /\ sig /\ shut = "no" /\ srv = "up"
  /\ \A k \in Conn : ~At(k, "tunnel")
  /\ shut' = "waiting"
  /\ UNCHANGED <<cur, conn, req, rules, sig, srv>>

\* The goroutine that waits for ctx calls srv.Shutdown, which closes the
\* listener at once and then waits.
Shutdown ==
  /\ sig /\ shut = "no" /\ srv = "up"
  /\ shut' = "waiting"
  /\ UNCHANGED <<cur, conn, req, rules, sig, srv>>

\* Connections the server still owns: hijacked ones are not its own.
Owned == {k \in Conn : conn[k].st \in {"idle", "lookup", "denied", "hijack", "send", "body", "flush"}}

\* It has waited for all of them, or for shutdownGrace.
ShutdownEnds(graceOver) ==
  /\ shut = "waiting" /\ srv = "up" /\ (Owned = {} \/ graceOver)
  /\ shut' = "done"
  /\ UNCHANGED <<cur, conn, req, rules, sig, srv>>

\* run and main return: the kernel closes whatever is open.  The accept loop has
\* to be back in Accept for that to fail.
Exit ==
  /\ srv = "up" /\ srv' = "exited" /\ \A k \in Conn : rules[k] = Nil
  /\ conn' = [k \in Conn |-> [st |-> "closed", slot |-> FALSE, sock |-> FALSE]]
  /\ req' = [k \in Conn |-> NoReq]
  /\ UNCHANGED <<cur, rules, sig, shut>>

\* Accept fails on the closed listener: srv.Serve returns ErrServerClosed, and
\* with it Serve, while Shutdown may still be waiting.
ServeReturns == shut # "no" /\ Exit

\* Accept fails for good for another reason.
AcceptFails == shut = "no" /\ Exit

Init ==
  /\ cur = FirstConfig
  /\ conn = [k \in Conn |-> [st |-> "new", slot |-> FALSE, sock |-> TRUE]]
  /\ req = [k \in Conn |-> NoReq] /\ rules = [k \in Conn |-> Nil]
  /\ sig = FALSE /\ shut = "no" /\ srv = "listen"

\* The steps of the code itself, given that the resolver and the dial return.
Handler(k) ==
  \/ Admit(k) \/ Reject(k) \/ SocketCloses(k)
  \/ \E A \in SUBSET Addr : LookedUp(k, A)
  \/ Denied(k) \/ HijackOk(k) \/ HijackFails(k) \/ HijackRefused(k)
  \/ (\E a \in Addr : DialOk(k, a))
  \/ DialFails(k) \/ Established(k) \/ NotEstablished(k)
  \/ TunnelFrees(k) \/ Flush(k)

\* The steps that wait for the client or the upstream.
Peers(k) ==
  \/ Accept(k) \/ Bounce(k) \/ BadScheme(k)
  \/ \E kind \in {"connect", "plain"}, h \in Host : Read(k, kind, h)
  \/ (\E asked \in Host, a \in Addr, body \in {"length", "stream"} : RoundTrip(k, asked, a, body))
  \/ BadGateway(k)
  \/ TunnelEnds(k) \/ Copy(k) \/ BodyEnds(k) \/ BodyCut(k) \/ ServerCloses(k)

\* The steps main and Serve take by themselves.
Process == Listen \/ ListenFails \/ Shutdown \/ ServeReturns

Next ==
  \/ \E k \in Conn : Handler(k) \/ Peers(k)
  \/ \E c \in Config : Reload(c)
  \/ Process \/ Signal \/ AcceptFails \/ \E graceOver \in BOOLEAN : ShutdownEnds(graceOver)

Spec == Init /\ [][Next]_vars

\* Handlers run: lookups and dials are bounded by their timeouts, and the client
\* takes what is written to it.  A round trip is not bounded: the transport has
\* no timeout for the response header.
FairSpec == Spec /\ WF_vars(Process) /\ \A k \in Conn : WF_vars(Handler(k))

-----------------------------------------------------------------------------
(* Properties *)

\* Type invariant.
TypeOK ==
  /\ cur \in Config
  /\ conn \in [Conn -> [st : {"new", "idle", "lookup", "denied", "hijack", "dial", "dialled",
                              "tunnel", "copied", "send", "body", "flush", "closing", "closed"},
                        slot : BOOLEAN, sock : BOOLEAN]]
  /\ req \in [Conn -> [kind : {"connect", "plain", Nil}, host : Host \cup {Nil},
                       cfg : Config \cup {Nil}, subnet : Subnet \cup {Nil},
                       addrs : SUBSET Addr, up : Addr \cup {Nil},
                       body : {"length", "stream", Nil}, held : BOOLEAN]]
  /\ rules \in [Conn -> Config \cup {Nil}]
  /\ sig \in BOOLEAN /\ shut \in {"no", "waiting", "done"}
  /\ srv \in {"listen", "up", "exited"}

\* hardening_test.go:133 "Every way a client connection can end must free its
\* slot", and no slot is free while its connection can still be served.
SlotWhileServed ==
  \A k \in Conn : /\ conn[k].slot => conn[k].st \notin {"closing", "closed"}
                  /\ ~conn[k].slot => conn[k].st \in {"new", "closing", "closed"}

\* Every request that was read is decided and acted on: no handler stays for
\* ever between reading it and making it a tunnel, sending it upstream, or
\* answering it and going on or closing.  A tunnel whose sockets are closed gives
\* its slot back, and a connection whose slot is free its socket.
RequestsAnswered ==
  \A k \in Conn :
    []<>(conn[k].st \notin {"lookup", "denied", "hijack", "dial", "dialled", "copied", "closing"})

\* proxy.go:342 "flush every chunk, or a slow trickle would sit in net/http's
\* buffer instead of reaching the client": what has been copied of a stream
\* leaves the buffer without waiting for the upstream to send more.
StreamFlows == \A k \in Conn : []<>~req[k].held

\* proxy.go:56 "until ctx is cancelled, then shuts down and returns ... tunnels
\* ... are cut at shutdown rather than waited for": a signal ends the process,
\* whatever its clients and their upstreams do.  (sig is never reset.)
SignalEnds == <>[](sig => srv = "exited")

\* The addresses a request has been approved for, by the config it was read under.
TicketOf(k) == IF req[k].cfg = Nil THEN {}
               ELSE LET s == SubnetIn[req[k].cfg][ClientOf[k]]
                    IN IF s # Nil /\ req[k].host \in HostOK[req[k].cfg][s]
                       THEN AddrOK[req[k].cfg][s] ELSE {}

Gated == INSTANCE Gate WITH door <- rules, inside <- {k \in Conn : conn[k].slot},
                            ticket <- [k \in Conn |-> TicketOf(k)],
                            link <- [k \in Conn |-> req[k].up]

\* proxy.go:1 "only ever connects to destinations the ACL has approved": Proxy
\* implements Gate.  An upstream connection is made only while the client's
\* slot is held, and only to what the rules of one moment, that of the request,
\* permit this client and this host; a reload in the middle never mixes two.
\* A slot is taken within the limits of the config that admit has read; a
\* reload can overtake that of one connection only, the one being admitted.
IsGate == Gated!Spec
=============================================================================
