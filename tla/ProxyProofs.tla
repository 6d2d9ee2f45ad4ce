---------------------------- MODULE ProxyProofs ----------------------------
(***************************************************************************)
(* Proofs about Proxy, for any connections, clients, configs, rules and    *)
(* limits: its slots, that it implements Gate, that its limits hold across *)
(* reloads, and that it holds no streamed data back.                       *)
(*                                                                         *)
(* IInv is the inductive invariant.  Beside the types and the slots it     *)
(* says what is known of a request at each step of its handler: nothing    *)
(* between requests, from the lookup on the config that accepted its host, *)
(* and from the vetting on addresses which that same config permits; and   *)
(* that a connection admit has not decided on is still new.                *)
(***************************************************************************)
EXTENDS Proxy, FiniteSetTheorems, TLAPS

\* Zenon first: SMT is for the leaves that need arithmetic or records.
USE ZenonT(4), SMTT(15)

States == {"new", "idle", "lookup", "denied", "hijack", "dial", "dialled",
           "tunnel", "copied", "send", "body", "flush", "closing", "closed"}

ConnState == [st : States, slot : BOOLEAN, sock : BOOLEAN]

Request == [kind : {"connect", "plain", Nil}, host : Host \cup {Nil},
            cfg : Config \cup {Nil}, subnet : Subnet \cup {Nil},
            addrs : SUBSET Addr, up : Addr \cup {Nil},
            body : {"length", "stream", Nil}, held : BOOLEAN]

\* The handler is between the check and the end of the request.
Connected == {"dialled", "tunnel", "body", "flush"}
Cleared == {"hijack", "dial", "send"} \cup Connected
Checked == {"lookup"} \cup Cleared

\* The config the request was read under accepts its client and its host.
Accepted(k) ==
  /\ req[k].cfg \in Config
  /\ req[k].subnet \in Subnet
  /\ req[k].subnet = SubnetIn[req[k].cfg][ClientOf[k]]
  /\ req[k].host \in HostOK[req[k].cfg][req[k].subnet]

RequestInv(k) ==
  /\ conn[k].st \in {"new", "idle", "copied", "closing", "closed"} => req[k] = NoReq
  /\ conn[k].st \in Checked => Accepted(k)
  /\ conn[k].st \in Cleared => req[k].addrs \subseteq AddrOK[req[k].cfg][req[k].subnet]
  /\ conn[k].st \in Connected => req[k].up \in req[k].addrs
  /\ conn[k].st \notin Connected => req[k].up = Nil

RequestsInv == \A k \in Conn : RequestInv(k)

\* admit decides on new connections, and those have no slot yet.
AtDoor(k) == /\ rules[k] # Nil => conn[k].st = "new"
             /\ conn[k].st = "new" => ~conn[k].slot

IInv == TypeOK /\ SlotWhileServed /\ RequestsInv /\ \A k \in Conn : AtDoor(k)

-----------------------------------------------------------------------------
(* The parts of an action *)

\* The request of a connection that has none is a request.
LEMMA NoReqType == NoReq \in Request
  BY DEF NoReq, Request

\* The type invariant, with the names of the parts.
LEMMA TypeOKParts ==
  TypeOK <=> /\ cur \in Config /\ conn \in [Conn -> ConnState] /\ req \in [Conn -> Request]
             /\ rules \in [Conn -> Config \cup {Nil}]
             /\ sig \in BOOLEAN /\ shut \in {"no", "waiting", "done"}
             /\ srv \in {"listen", "up", "exited"}
  BY DEF TypeOK, ConnState, Request, States

\* What Goto changes, of which connection.
LEMMA GotoStep ==
  ASSUME conn \in [Conn -> ConnState], NEW k \in Conn, NEW st \in States, Goto(k, st)
  PROVE  /\ conn' \in [Conn -> ConnState]
         /\ \A j \in Conn : j # k => conn'[j] = conn[j]
         /\ conn'[k].st = st /\ conn'[k].slot = conn[k].slot
  BY DEF Goto, ConnState

\* clientConn.Close takes the slot of one connection.
LEMMA ShutStep ==
  ASSUME conn \in [Conn -> ConnState], NEW k \in Conn, Shut(k)
  PROVE  /\ conn' \in [Conn -> ConnState]
         /\ \A j \in Conn : j # k => conn'[j] = conn[j]
         /\ conn'[k].st = "closing" /\ conn'[k].slot = FALSE
  BY DEF Shut, ConnState, States

\* Forget clears the request of one connection.
LEMMA ForgetStep ==
  ASSUME req \in [Conn -> Request], NEW k \in Conn, Forget(k)
  PROVE  /\ req' \in [Conn -> Request]
         /\ \A j \in Conn : j # k => req'[j] = req[j]
         /\ req'[k] = NoReq
  BY NoReqType DEF Forget

\* What a change of one request changes.
LEMMA RequestStep ==
  ASSUME req \in [Conn -> Request], NEW k \in Conn, NEW q \in Request,
         req' = [req EXCEPT ![k] = q]
  PROVE  req' \in [Conn -> Request] /\ req'[k] = q /\ \A j \in Conn : j # k => req'[j] = req[j]
  OBVIOUS

\* Two requests by the same client for the same host, read under the same config
\* and vetted alike.
Alike(q, r) == /\ q.cfg = r.cfg /\ q.subnet = r.subnet /\ q.host = r.host
               /\ q.addrs = r.addrs

\* The request is connected to a.
LEMMA UpStep ==
  ASSUME req \in [Conn -> Request], NEW k \in Conn, NEW a \in Addr,
         req' = [req EXCEPT ![k].up = a]
  PROVE  /\ req' \in [Conn -> Request] /\ \A j \in Conn : j # k => req'[j] = req[j]
         /\ Alike(req'[k], req[k]) /\ req'[k].up = a
<1> DEFINE q == [req[k] EXCEPT !.up = a]
<1>1. req[k] \in Request /\ req' = [req EXCEPT ![k] = q]
  OBVIOUS
<1>2. q \in Request /\ Alike(q, req[k]) /\ q.up = a
  BY <1>1 DEF Request, Alike
<1> HIDE DEF q
<1> QED BY <1>1, <1>2, RequestStep

\* The same, with a response whose body is known.
LEMMA ResponseStep ==
  ASSUME req \in [Conn -> Request], NEW k \in Conn, NEW a \in Addr,
         NEW body \in {"length", "stream"},
         req' = [req EXCEPT ![k].up = a, ![k].body = body]
  PROVE  /\ req' \in [Conn -> Request] /\ \A j \in Conn : j # k => req'[j] = req[j]
         /\ Alike(req'[k], req[k]) /\ req'[k].up = a
<1> DEFINE q == [[req[k] EXCEPT !.up = a] EXCEPT !.body = body]
<1>1. req[k] \in Request /\ req' = [req EXCEPT ![k] = q]
  OBVIOUS
<1>2. q \in Request /\ Alike(q, req[k]) /\ q.up = a
  BY <1>1 DEF Request, Alike
<1> HIDE DEF q
<1> QED BY <1>1, <1>2, RequestStep

\* Bytes are held in the buffer, or leave it.
LEMMA HeldStep ==
  ASSUME req \in [Conn -> Request], NEW k \in Conn, NEW b \in BOOLEAN,
         req' = [req EXCEPT ![k].held = b]
  PROVE  /\ req' \in [Conn -> Request] /\ \A j \in Conn : j # k => req'[j] = req[j]
         /\ Alike(req'[k], req[k]) /\ req'[k].up = req[k].up
<1> DEFINE q == [req[k] EXCEPT !.held = b]
<1>1. req[k] \in Request /\ req' = [req EXCEPT ![k] = q]
  OBVIOUS
<1>2. q \in Request /\ Alike(q, req[k]) /\ q.up = req[k].up
  BY <1>1 DEF Request, Alike
<1> HIDE DEF q
<1> QED BY <1>1, <1>2, RequestStep

\* What an action on connection k leaves alone.
Only(k) ==
  /\ conn' \in [Conn -> ConnState] /\ req' \in [Conn -> Request]
  /\ \A j \in Conn : j # k => conn'[j] = conn[j] /\ req'[j] = req[j]
  /\ UNCHANGED <<cur, process>>

\* What an action of the accept loop on connection k leaves alone.
Door(k) ==
  /\ conn' \in [Conn -> ConnState] /\ rules' \in [Conn -> Config \cup {Nil}]
  /\ \A j \in Conn : j # k => conn'[j] = conn[j] /\ rules'[j] = rules[j]
  /\ UNCHANGED <<cur, req, sig, shut, srv>>

Served(k) == /\ conn[k].slot => conn[k].st \notin {"closing", "closed"}
             /\ ~conn[k].slot => conn[k].st \in {"new", "closing", "closed"}

\* An action on one connection keeps the invariant if it keeps what the invariant
\* says of that connection.
LEMMA OneConnection ==
  ASSUME IInv, NEW k \in Conn, Only(k), conn[k].st # "new", conn'[k].st # "new",
         Served(k)', RequestInv(k)'
  PROVE  IInv'
<1>1. TypeOK'
  BY TypeOKParts DEF IInv, Only, TypeOK, ConnState, Request, States, process
<1>2. SlotWhileServed'
  BY DEF IInv, SlotWhileServed, Only, Served
<1>3. ASSUME NEW j \in Conn, j # k PROVE RequestInv(j)'
  BY <1>3 DEF IInv, RequestsInv, RequestInv, Only, Accepted
<1>4. ASSUME NEW j \in Conn PROVE AtDoor(j)'
  BY DEF IInv, AtDoor, Only, process
<1> QED BY <1>1, <1>2, <1>3, <1>4 DEF IInv, RequestsInv

\* The same of an action of the accept loop.
LEMMA OneAtDoor ==
  ASSUME IInv, NEW k \in Conn, Door(k), Served(k)', RequestInv(k)', AtDoor(k)'
  PROVE  IInv'
<1>1. TypeOK'
  BY TypeOKParts DEF IInv, Door, TypeOK, ConnState, Request, States
<1>2. SlotWhileServed'
  BY DEF IInv, SlotWhileServed, Door, Served
<1>3. ASSUME NEW j \in Conn, j # k PROVE RequestInv(j)' /\ AtDoor(j)'
  BY <1>3 DEF IInv, RequestsInv, RequestInv, Door, Accepted, AtDoor
<1> QED BY <1>1, <1>2, <1>3 DEF IInv, RequestsInv

-----------------------------------------------------------------------------
(* What is seen of a step through the refinement mapping *)

GateStep == [Gated!Next]_(Gated!vars)

\* An action on one connection leaves the tickets of the others alone.
LEMMA OtherTickets ==
  ASSUME NEW k \in Conn, Only(k), NEW j \in Conn, j # k
  PROVE  TicketOf(j)' = TicketOf(j)
<1>1. req'[j] = req[j]
  BY DEF Only
<1> QED BY <1>1 DEF TicketOf

\* A step that keeps the slot, the ticket and the link is none of the gate's.
LEMMA GateStutters ==
  ASSUME NEW k \in Conn, Only(k), conn \in [Conn -> ConnState],
         conn'[k].slot = conn[k].slot, TicketOf(k)' = TicketOf(k), req'[k].up = req[k].up
  PROVE  GateStep
<1>1. \A j \in Conn : TicketOf(j)' = TicketOf(j)
  BY OtherTickets
<1>2. {j \in Conn : conn[j].slot}' = {j \in Conn : conn[j].slot}
  BY DEF Only
<1>3. [j \in Conn |-> req[j].up]' = [j \in Conn |-> req[j].up]
  BY DEF Only
<1>4. [j \in Conn |-> TicketOf(j)]' = [j \in Conn |-> TicketOf(j)]
  BY <1>1
<1> QED BY <1>2, <1>3, <1>4 DEF GateStep, Gated!vars, Only, process

\* No request, no ticket and no link.
LEMMA NoTicket ==
  ASSUME NEW k \in Conn, req[k] = NoReq
  PROVE  TicketOf(k) = {} /\ req[k].up = Nil
  BY DEF NoReq, TicketOf

\* The ticket is what the config the request was read under permits.
LEMMA TicketOfAccepted ==
  ASSUME NEW k \in Conn, Accepted(k)
  PROVE  TicketOf(k) = AddrOK[req[k].cfg][req[k].subnet]
<1>1. req[k].cfg # Nil /\ req[k].subnet # Nil
  BY ProxyAssumption DEF Accepted
<1> QED BY <1>1 DEF Accepted, TicketOf

\* Whatever is linked has a ticket.
LEMMA LinkedOnTicket ==
  ASSUME RequestsInv, NEW k \in Conn, TicketOf(k) = {}
  PROVE  req[k].up = Nil
<1>1. CASE conn[k].st \in Connected
  <2>1. Accepted(k) /\ req[k].up \in AddrOK[req[k].cfg][req[k].subnet]
    BY <1>1 DEF RequestsInv, RequestInv, Checked, Cleared
  <2> QED BY <2>1, TicketOfAccepted
<1> QED BY <1>1 DEF RequestsInv, RequestInv

\* Freeing a slot, with the request over, is the gate's Leave.
LEMMA GateLeaves ==
  ASSUME NEW k \in Conn, Only(k), conn \in [Conn -> ConnState],
         conn[k].slot, conn'[k].slot = FALSE, req'[k] = NoReq
  PROVE  GateStep
<1>1. /\ TicketOf(k)' = {}
      /\ \A j \in Conn : j # k => TicketOf(j)' = TicketOf(j)
  <2>1. TicketOf(k)' = {}
    BY DEF TicketOf, NoReq
  <2> QED BY <2>1, OtherTickets
<1>2. {j \in Conn : conn[j].slot}' = {j \in Conn : conn[j].slot} \ {k}
  BY DEF Only
<1>3. [j \in Conn |-> req[j].up]'
        = [j \in Conn |-> IF j \in {k} THEN Nil ELSE [i \in Conn |-> req[i].up][j]]
  BY DEF Only, NoReq
<1>4. [j \in Conn |-> TicketOf(j)]'
        = [j \in Conn |-> IF j \in {k} THEN {} ELSE [i \in Conn |-> TicketOf(i)][j]]
  BY <1>1
<1>5. Gated!Leave({k})
  BY <1>2, <1>3, <1>4 DEF Gated!Leave, Only, process
<1> QED BY <1>5 DEF GateStep, Gated!Next

\* A request that ends on a connection that stays is the gate's Finish.
LEMMA GateFinishes ==
  ASSUME NEW k \in Conn, Only(k), conn \in [Conn -> ConnState], RequestsInv,
         conn'[k].slot = conn[k].slot, req'[k] = NoReq
  PROVE  GateStep
<1>0. TicketOf(k)' = {} /\ req'[k].up = Nil
  BY DEF NoReq, TicketOf
<1>1. CASE TicketOf(k) = {}
  BY <1>0, <1>1, LinkedOnTicket, GateStutters
<1>2. CASE TicketOf(k) # {}
  <2> DEFINE ticket == [j \in Conn |-> TicketOf(j)]
             link == [j \in Conn |-> req[j].up]
  <2>1. \A j \in Conn : j # k => TicketOf(j)' = TicketOf(j)
    BY OtherTickets
  <2>2. {j \in Conn : conn[j].slot}' = {j \in Conn : conn[j].slot}
    BY DEF Only
  <2>3. link' = [link EXCEPT ![k] = Nil]
    BY <1>0 DEF Only
  <2>4. ticket' = [ticket EXCEPT ![k] = {}]
    BY <1>0, <2>1
  <2>5. Gated!Finish(k)
    BY <1>2, <2>2, <2>3, <2>4 DEF Gated!Finish, Only, process
  <2> QED BY <2>5 DEF GateStep, Gated!Next
<1> QED BY <1>1, <1>2

\* Connecting to an address of the ticket is the gate's Connect.
LEMMA GateConnects ==
  ASSUME NEW k \in Conn, Only(k), conn \in [Conn -> ConnState],
         conn[k].slot, conn'[k].slot, req[k].up = Nil, TicketOf(k)' = TicketOf(k),
         req'[k].up \in TicketOf(k)
  PROVE  GateStep
<1> DEFINE ticket == [j \in Conn |-> TicketOf(j)]
           link == [j \in Conn |-> req[j].up]
<1>1. \A j \in Conn : TicketOf(j)' = TicketOf(j)
  BY OtherTickets
<1>2. {j \in Conn : conn[j].slot}' = {j \in Conn : conn[j].slot}
  BY DEF Only
<1>3. link' = [link EXCEPT ![k] = req'[k].up]
  BY DEF Only
<1>4. ticket' = ticket
  BY <1>1
<1>5. Gated!Connect(k)
  BY <1>2, <1>3, <1>4 DEF Gated!Connect, Only, process
<1> QED BY <1>5 DEF GateStep, Gated!Next

\* Reading a request under the config of the moment is the gate's Ask.
LEMMA GateAsks ==
  ASSUME NEW k \in Conn, Only(k), conn \in [Conn -> ConnState],
         conn[k].slot, conn'[k].slot, req[k] = NoReq, req'[k].up = Nil,
         NEW h \in Host, req'[k].cfg = cur, req'[k].host = h, cur \in Config
  PROVE  GateStep
<1> DEFINE ticket == [j \in Conn |-> TicketOf(j)]
           link == [j \in Conn |-> req[j].up]
<1>1. \A j \in Conn : j # k => TicketOf(j)' = TicketOf(j)
  BY OtherTickets
<1>2. {j \in Conn : conn[j].slot}' = {j \in Conn : conn[j].slot}
  BY DEF Only
<1>3. link' = link
  BY NoTicket DEF Only
<1>4. TicketOf(k)' = Gated!Permitted(cur, ClientOf[k], h)
  BY ProxyAssumption DEF TicketOf, Gated!Permitted
<1>5. ticket' = [ticket EXCEPT ![k] = Gated!Permitted(cur, ClientOf[k], h)]
  BY <1>1, <1>4
<1>6. Gated!Ask(k, h)
  BY <1>2, <1>3, <1>5, NoTicket DEF Gated!Ask, Only, process
<1> QED BY <1>6 DEF GateStep, Gated!Next

-----------------------------------------------------------------------------
(* The steps of a connection *)

\* A step keeps the invariant and is a step of the gate.
Sound == IInv' /\ GateStep

\* The connection is closed, and with it its request is over.
LEMMA Closes ==
  ASSUME IInv, NEW k \in Conn, Only(k), conn[k].st # "new",
         conn'[k].st \in {"closing", "closed"}, conn'[k].slot = FALSE, req'[k] = NoReq
  PROVE  Sound
<1>1. Served(k)' /\ RequestInv(k)'
  BY DEF Served, RequestInv, NoReq, Checked, Cleared, Connected
<1>2. conn \in [Conn -> ConnState] /\ req \in [Conn -> Request] /\ RequestsInv
  BY TypeOKParts DEF IInv
<1>3. ASSUME conn[k].slot PROVE GateStep
  BY <1>2, <1>3, GateLeaves
<1>4. ASSUME ~conn[k].slot PROVE GateStep
  BY <1>2, <1>4, GateFinishes DEF ConnState
<1> QED BY <1>1, <1>3, <1>4, OneConnection DEF Sound

\* The request is over and its connection stays.
LEMMA Finishes ==
  ASSUME IInv, NEW k \in Conn, Only(k), conn[k].st # "new",
         conn'[k].st \in {"idle", "copied"}, conn[k].slot, conn'[k].slot = conn[k].slot,
         req'[k] = NoReq
  PROVE  Sound
<1>1. Served(k)' /\ RequestInv(k)'
  BY DEF Served, RequestInv, NoReq, Checked, Cleared, Connected
<1>2. conn \in [Conn -> ConnState] /\ RequestsInv
  BY TypeOKParts DEF IInv
<1> QED BY <1>1, <1>2, OneConnection, GateFinishes DEF Sound

\* The handler goes on with a request whose ticket and link are settled.
LEMMA GoesOn ==
  ASSUME IInv, NEW k \in Conn, Only(k), conn[k].st # "new",
         conn'[k].st \notin {"new", "closing", "closed"}, conn[k].slot, conn'[k].slot = conn[k].slot,
         RequestInv(k)', TicketOf(k)' = TicketOf(k), req'[k].up = req[k].up
  PROVE  Sound
<1>1. Served(k)'
  BY DEF Served
<1>2. conn \in [Conn -> ConnState]
  BY TypeOKParts DEF IInv
<1> QED BY <1>1, <1>2, OneConnection, GateStutters DEF Sound

\* What the invariant says of one connection.
LEMMA Here ==
  ASSUME IInv, NEW k \in Conn
  PROVE  /\ conn \in [Conn -> ConnState] /\ req \in [Conn -> Request] /\ cur \in Config
         /\ Served(k) /\ RequestInv(k)
  BY TypeOKParts DEF IInv, SlotWhileServed, RequestsInv, Served

\* Shut and Forget, in an action on k.
LEMMA ShutForget ==
  ASSUME IInv, NEW k \in Conn, Shut(k), Forget(k), UNCHANGED <<cur, process>>,
         conn[k].st # "new"
  PROVE  Sound
<1>1. Only(k) /\ conn'[k].st = "closing" /\ conn'[k].slot = FALSE /\ req'[k] = NoReq
  BY Here, ShutStep, ForgetStep DEF Only
<1> QED BY <1>1, Closes

\* Shut, when there is no request to forget.
LEMMA ShutOnly ==
  ASSUME IInv, NEW k \in Conn, Shut(k), UNCHANGED <<cur, req, process>>,
         conn[k].st \in {"idle", "copied"}
  PROVE  Sound
<1>1. Only(k) /\ conn'[k].st = "closing" /\ conn'[k].slot = FALSE
  BY Here, ShutStep DEF Only
<1>2. req'[k] = NoReq
  BY Here DEF RequestInv
<1> QED BY <1>1, <1>2, Closes

\* A handler returns.
LEMMA IdleForget ==
  ASSUME IInv, NEW k \in Conn, Idle(k), Forget(k), UNCHANGED <<cur, process>>,
         conn[k].st \notin {"new", "closing", "closed"}
  PROVE  Sound
<1>1. CASE Shut(k)
  BY <1>1, ShutForget
<1>2. CASE Goto(k, "idle")
  <2>1. "idle" \in States
    BY DEF States
  <2>2. Only(k) /\ conn'[k].st = "idle" /\ conn'[k].slot = conn[k].slot /\ req'[k] = NoReq
    BY <1>2, <2>1, Here, GotoStep, ForgetStep DEF Only
  <2>3. conn[k].slot
    BY Here DEF Served
  <2> QED BY <2>2, <2>3, Finishes
<1> QED BY <1>1, <1>2 DEF Idle

\* The handler moves on, with a ticket and a link that stay.
LEMMA GotoOnly ==
  ASSUME IInv, NEW k \in Conn, NEW st \in States \ {"new", "closing", "closed"}, Goto(k, st),
         UNCHANGED <<cur, req, process>>, conn[k].st \notin {"new", "closing", "closed"},
         RequestInv(k)'
  PROVE  Sound
<1>1. Only(k) /\ conn'[k].st = st /\ conn'[k].slot = conn[k].slot
  BY Here, GotoStep DEF Only
<1>2. conn[k].slot
  BY Here DEF Served
<1>3. TicketOf(k)' = TicketOf(k)
  BY DEF TicketOf
<1> QED BY <1>1, <1>2, <1>3, GoesOn

-----------------------------------------------------------------------------
(* One step per action: the accept loop *)

\* Gate counts with the same Cardinality.
LEMMA SameCount ==
  ASSUME NEW S
  PROVE  Gated!Cardinality(S) = Cardinality(S)
  BY DEF Gated!Cardinality, Cardinality

\* The tickets and the links depend on the requests alone.
LEMMA SameTickets ==
  ASSUME UNCHANGED req
  PROVE  /\ [j \in Conn |-> TicketOf(j)]' = [j \in Conn |-> TicketOf(j)]
         /\ [j \in Conn |-> req[j].up]' = [j \in Conn |-> req[j].up]
  BY DEF TicketOf

\* admit reads the config: the gate's Knock.
LEMMA AcceptStep ==
  ASSUME IInv, NEW k \in Conn, Accept(k)
  PROVE  Sound
<1> DEFINE inside == {j \in Conn : conn[j].slot}
<1>0. conn \in [Conn -> ConnState] /\ cur \in Config /\ Served(k) /\ RequestInv(k)
  BY Here
<1>1. rules \in [Conn -> Config \cup {Nil}]
  BY TypeOKParts DEF IInv
<1>2. conn[k].st = "new" /\ (\A i \in Conn : rules[i] = Nil) /\ rules' = [rules EXCEPT ![k] = cur]
      /\ UNCHANGED <<cur, conn, req, sig, shut, srv>>
  BY DEF Accept, At
<1>3. Door(k) /\ AtDoor(k)' /\ Served(k)'
  BY <1>0, <1>1, <1>2 DEF Door, AtDoor, Served, IInv
<1>4. RequestInv(k)'
  BY <1>0, <1>2 DEF RequestInv, Accepted
<1>5. k \notin inside
  BY <1>2 DEF IInv, AtDoor
<1>6. Gated!Knock(k)
  BY <1>2, <1>5, SameTickets DEF Gated!Knock
<1> QED BY <1>3, <1>4, <1>6, OneAtDoor DEF Sound, GateStep, Gated!Next

\* admit has read a config for k: k is new, and has neither slot nor request.
LEMMA Deciding ==
  ASSUME IInv, NEW k \in Conn, rules[k] # Nil, Decided(k)
  PROVE  /\ conn \in [Conn -> ConnState] /\ conn[k].st = "new" /\ ~conn[k].slot
         /\ req[k] = NoReq /\ req' = req
         /\ rules' = [rules EXCEPT ![k] = Nil] /\ rules' \in [Conn -> Config \cup {Nil}]
         /\ rules'[k] = Nil /\ \A j \in Conn : j # k => rules'[j] = rules[j]
         /\ UNCHANGED <<cur, req, sig, shut, srv>>
<1>1. rules \in [Conn -> Config \cup {Nil}] /\ conn \in [Conn -> ConnState]
  BY TypeOKParts DEF IInv
<1>2. conn[k].st = "new" /\ ~conn[k].slot
  BY DEF IInv, AtDoor
<1>3. req[k] = NoReq
  BY <1>2, Here DEF RequestInv
<1> QED BY <1>1, <1>2, <1>3 DEF Decided

\* Acquire: a slot within the limits of the config that was read is the gate's
\* Enter.
LEMMA AdmitStep ==
  ASSUME IInv, NEW k \in Conn, Admit(k)
  PROVE  Sound
<1> DEFINE inside == {j \in Conn : conn[j].slot}
<1>0. rules[k] # Nil /\ Admissible(k) /\ Decided(k)
      /\ conn' = [conn EXCEPT ![k] = [st |-> "idle", slot |-> TRUE, sock |-> TRUE]]
  BY DEF Admit
<1>1. Door(k) /\ conn'[k].st = "idle" /\ conn'[k].slot
  BY <1>0, Deciding DEF Door, ConnState, States
<1>2. Served(k)' /\ RequestInv(k)' /\ AtDoor(k)'
  <2>1. req'[k] = NoReq /\ rules'[k] = Nil
    BY <1>0, Deciding
  <2> QED BY <1>1, <2>1 DEF Served, RequestInv, NoReq, Checked, Cleared, Connected, AtDoor
<1>3. inside' = inside \cup {k}
  BY <1>1 DEF Door
<1>4. {i \in inside : ClientOf[i] = ClientOf[k]} = Holding(ClientOf[k])
  BY DEF Holding
<1>5. /\ SubnetIn[rules[k]][ClientOf[k]] # Nil
      /\ Cardinality({i \in inside : ClientOf[i] = ClientOf[k]}) < PerClient[rules[k]]
      /\ Cardinality(inside) < Total[rules[k]]
  BY <1>0, <1>4 DEF Admissible
<1>6. Gated!Enter(k)
  BY <1>0, <1>3, <1>5, Deciding, SameTickets, SameCount DEF Gated!Enter
<1> QED BY <1>1, <1>2, <1>6, OneAtDoor DEF Sound, GateStep, Gated!Next

\* admit turns the connection down: the gate's TurnAway.
LEMMA RejectStep ==
  ASSUME IInv, NEW k \in Conn, Reject(k)
  PROVE  Sound
<1> DEFINE inside == {j \in Conn : conn[j].slot}
<1>0. rules[k] # Nil /\ Decided(k)
      /\ conn' = [conn EXCEPT ![k] = [st |-> "closed", slot |-> FALSE, sock |-> FALSE]]
  BY DEF Reject
<1>1. Door(k) /\ conn'[k].st = "closed" /\ ~conn'[k].slot
  BY <1>0, Deciding DEF Door, ConnState, States
<1>2. Served(k)' /\ RequestInv(k)' /\ AtDoor(k)'
  <2>1. req'[k] = NoReq /\ rules'[k] = Nil
    BY <1>0, Deciding
  <2> QED BY <1>1, <2>1 DEF Served, RequestInv, NoReq, Checked, Cleared, Connected, AtDoor
<1>3. inside' = inside
  BY <1>0, <1>1, Deciding DEF Door
<1>4. Gated!TurnAway(k)
  BY <1>0, <1>3, Deciding, SameTickets DEF Gated!TurnAway
<1> QED BY <1>1, <1>2, <1>4, OneAtDoor DEF Sound, GateStep, Gated!Next

-----------------------------------------------------------------------------
(* One step per action: the handler's own *)

\* Every step the code takes by itself for a connection is sound.
LEMMA HandlerStep ==
  ASSUME IInv, NEW k \in Conn, Handler(k)
  PROVE  Sound
<1> USE DEF At
<1>0. /\ conn \in [Conn -> ConnState] /\ req \in [Conn -> Request] /\ cur \in Config
      /\ Served(k) /\ RequestInv(k)
  BY Here
<1>1. ASSUME NEW A \in SUBSET Addr, LookedUp(k, A) PROVE Sound
  <2> DEFINE st == IF req[k].kind = "connect" THEN "hijack" ELSE "send"
  <2>0. conn[k].st = "lookup" /\ conn[k].slot /\ Accepted(k) /\ req[k].up = Nil
    BY <1>0, <1>1 DEF LookedUp, Served, RequestInv, Checked, Connected
  <2>1. CASE Vetted(k, A)
    <3>1. Goto(k, st) /\ st \in {"hijack", "send"} /\ st \in States
      BY <1>1, <2>1 DEF LookedUp, States
    <3>2. req' = [req EXCEPT ![k].addrs = A] /\ UNCHANGED <<cur, process>>
      BY <1>1, <2>1 DEF LookedUp
    <3> HIDE DEF st
    <3>3. /\ req' \in [Conn -> Request] /\ \A j \in Conn : j # k => req'[j] = req[j]
          /\ req'[k].addrs = A /\ req'[k].cfg = req[k].cfg /\ req'[k].subnet = req[k].subnet
          /\ req'[k].host = req[k].host /\ req'[k].up = req[k].up
      BY <1>0, <3>2 DEF Request
    <3>4. Only(k) /\ conn'[k].st = st /\ conn'[k].slot = conn[k].slot
      BY <1>0, <3>1, <3>2, <3>3, GotoStep DEF Only
    <3>5. RequestInv(k)'
      BY <2>0, <2>1, <3>1, <3>3, <3>4
         DEF RequestInv, Accepted, Vetted, Checked, Cleared, Connected
    <3>6. TicketOf(k)' = TicketOf(k)
      BY <3>3 DEF TicketOf
    <3> QED BY <2>0, <3>1, <3>3, <3>4, <3>5, <3>6, GoesOn
  <2>2. CASE ~Vetted(k, A)
    <3>1. Goto(k, "denied") /\ UNCHANGED <<cur, req, process>> /\ "denied" \in States
      BY <1>1, <2>2 DEF LookedUp, States
    <3>2. conn'[k].st = "denied"
      BY <1>0, <3>1, GotoStep
    <3>3. RequestInv(k)'
      BY <2>0, <3>1, <3>2 DEF RequestInv, Checked, Cleared, Connected
    <3> QED BY <2>0, <3>1, <3>3, GotoOnly
  <2> QED BY <2>1, <2>2
<1>2. CASE Denied(k)
  BY <1>2, ShutForget DEF Denied
<1>3. CASE HijackOk(k)
  <2>1. Goto(k, "dial") /\ UNCHANGED <<cur, req, process>> /\ "dial" \in States
    BY <1>3 DEF HijackOk, States
  <2>2. conn[k].st = "hijack" /\ conn'[k].st = "dial"
    BY <1>0, <1>3, <2>1, GotoStep DEF HijackOk
  <2>3. RequestInv(k)'
    BY <1>0, <2>1, <2>2 DEF RequestInv, Accepted, Checked, Cleared, Connected
  <2> QED BY <2>1, <2>2, <2>3, GotoOnly
<1>4. CASE HijackFails(k)
  BY <1>4, ShutForget DEF HijackFails
<1>5. CASE HijackRefused(k)
  BY <1>5, IdleForget DEF HijackRefused
<1>6. ASSUME NEW a \in Addr, DialOk(k, a) PROVE Sound
  <2>0. /\ conn[k].st = "dial" /\ conn[k].slot /\ Accepted(k) /\ req[k].up = Nil
        /\ a \in req[k].addrs /\ req[k].addrs \subseteq AddrOK[req[k].cfg][req[k].subnet]
    BY <1>0, <1>6 DEF DialOk, Served, RequestInv, Checked, Cleared, Connected, Reachable
  <2>1. Goto(k, "dialled") /\ "dialled" \in States
    BY <1>6 DEF DialOk, States
  <2>2. req' = [req EXCEPT ![k].up = a] /\ UNCHANGED <<cur, process>>
    BY <1>6 DEF DialOk
  <2>3. /\ req' \in [Conn -> Request] /\ \A j \in Conn : j # k => req'[j] = req[j]
        /\ req'[k].addrs = req[k].addrs /\ req'[k].cfg = req[k].cfg
        /\ req'[k].subnet = req[k].subnet /\ req'[k].host = req[k].host /\ req'[k].up = a
    BY <1>0, <2>2, UpStep DEF Alike
  <2>4. Only(k) /\ conn'[k].st = "dialled" /\ conn'[k].slot = conn[k].slot
    BY <1>0, <2>1, <2>2, <2>3, GotoStep DEF Only
  <2>5. Served(k)' /\ RequestInv(k)'
    BY <2>0, <2>3, <2>4 DEF Served, RequestInv, Accepted, Checked, Cleared, Connected
  <2>6. TicketOf(k)' = TicketOf(k) /\ a \in TicketOf(k)
    BY <2>0, <2>3, TicketOfAccepted DEF TicketOf
  <2> QED BY <1>0, <2>0, <2>3, <2>4, <2>5, <2>6, OneConnection, GateConnects DEF Sound
<1>7. CASE DialFails(k)
  BY <1>7, ShutForget DEF DialFails
<1>8. CASE Established(k)
  <2>1. Goto(k, "tunnel") /\ UNCHANGED <<cur, req, process>> /\ "tunnel" \in States
    BY <1>8 DEF Established, States
  <2>2. conn[k].st = "dialled" /\ conn'[k].st = "tunnel"
    BY <1>0, <1>8, <2>1, GotoStep DEF Established
  <2>3. RequestInv(k)'
    BY <1>0, <2>1, <2>2 DEF RequestInv, Accepted, Checked, Cleared, Connected
  <2> QED BY <2>1, <2>2, <2>3, GotoOnly
<1>9. CASE NotEstablished(k)
  BY <1>9, ShutForget DEF NotEstablished
<1>10. CASE TunnelFrees(k)
  BY <1>10, ShutOnly DEF TunnelFrees
<1>11. CASE Flush(k)
  <2>1. Goto(k, "body") /\ "body" \in States /\ conn[k].st = "flush"
    BY <1>11 DEF Flush, States
  <2>2. req' = [req EXCEPT ![k].held = FALSE] /\ UNCHANGED <<cur, process>>
    BY <1>11 DEF Flush
  <2>3. /\ req' \in [Conn -> Request] /\ \A j \in Conn : j # k => req'[j] = req[j]
        /\ req'[k].addrs = req[k].addrs /\ req'[k].cfg = req[k].cfg
        /\ req'[k].subnet = req[k].subnet /\ req'[k].host = req[k].host
        /\ req'[k].up = req[k].up
    BY <1>0, <2>2, HeldStep DEF Alike
  <2>4. Only(k) /\ conn'[k].st = "body" /\ conn'[k].slot = conn[k].slot /\ conn[k].slot
    BY <1>0, <2>1, <2>2, <2>3, GotoStep DEF Only, Served
  <2>5. RequestInv(k)'
    BY <1>0, <2>1, <2>3, <2>4 DEF RequestInv, Accepted, Checked, Cleared, Connected
  <2>6. TicketOf(k)' = TicketOf(k)
    BY <2>3 DEF TicketOf
  <2> QED BY <2>1, <2>3, <2>4, <2>5, <2>6, GoesOn
<1>12. CASE SocketCloses(k)
  <2>1. /\ conn' = [conn EXCEPT ![k].st = "closed", ![k].sock = FALSE]
        /\ UNCHANGED <<cur, req, process>> /\ conn[k].st = "closing"
    BY <1>12 DEF SocketCloses
  <2>2. /\ conn' \in [Conn -> ConnState] /\ \A j \in Conn : j # k => conn'[j] = conn[j]
        /\ conn'[k].st = "closed" /\ conn'[k].slot = conn[k].slot /\ conn[k].slot = FALSE
    BY <1>0, <2>1 DEF ConnState, States, Served
  <2>3. Only(k) /\ req'[k] = NoReq
    BY <1>0, <2>1, <2>2 DEF Only, RequestInv
  <2> QED BY <2>1, <2>2, <2>3, Closes
<1> QED
  BY <1>1, <1>2, <1>3, <1>4, <1>5, <1>6, <1>7, <1>8, <1>9, <1>10, <1>11, <1>12,
     AdmitStep, RejectStep DEF Handler

-----------------------------------------------------------------------------
(* One step per action: those that wait for the client or the upstream *)

\* check reads the config once: the gate's Ask.
LEMMA ReadStep ==
  ASSUME IInv, NEW k \in Conn, NEW kind \in {"connect", "plain"}, NEW h \in Host,
         Read(k, kind, h)
  PROVE  Sound
<1> USE DEF At
<1> DEFINE s == SubnetIn[cur][ClientOf[k]]
           st == IF s # Nil /\ h \in HostOK[cur][s] THEN "lookup" ELSE "denied"
<1>0. /\ conn \in [Conn -> ConnState] /\ req \in [Conn -> Request] /\ cur \in Config
      /\ Served(k) /\ RequestInv(k)
  BY Here
<1>1. conn[k].st = "idle" /\ conn[k].slot /\ req[k] = NoReq
  BY <1>0 DEF Read, Served, RequestInv
<1>2. Goto(k, st) /\ st \in {"lookup", "denied"} /\ st \in States /\ UNCHANGED <<cur, process>>
  BY DEF Read, States
<1>3. s \in Subnet \cup {Nil}
  BY <1>0, ProxyAssumption
<1>4. st = "lookup" => s \in Subnet /\ h \in HostOK[cur][s]
  BY <1>3
<1>5. req' = [req EXCEPT ![k] = [NoReq EXCEPT !.kind = kind, !.host = h, !.cfg = cur, !.subnet = s]]
  BY DEF Read
<1> HIDE DEF st
<1>6. /\ req' \in [Conn -> Request] /\ \A j \in Conn : j # k => req'[j] = req[j]
      /\ req'[k].cfg = cur /\ req'[k].subnet = s /\ req'[k].host = h /\ req'[k].up = Nil
  <2> HIDE DEF s
  <2> QED BY <1>0, <1>3, <1>5 DEF Request, NoReq
<1>7. Only(k) /\ conn'[k].st = st /\ conn'[k].slot = conn[k].slot
  BY <1>0, <1>2, <1>6, GotoStep DEF Only
<1>8. Served(k)' /\ RequestInv(k)'
  BY <1>0, <1>1, <1>2, <1>4, <1>6, <1>7
     DEF Served, RequestInv, Accepted, Checked, Cleared, Connected
<1> QED BY <1>0, <1>1, <1>2, <1>6, <1>7, <1>8, OneConnection, GateAsks DEF Sound

\* The pooled transport reaches an approved address: the gate's Connect.
LEMMA RoundTripStep ==
  ASSUME IInv, NEW k \in Conn, NEW asked \in Host, NEW a \in Addr,
         NEW body \in {"length", "stream"}, RoundTrip(k, asked, a, body)
  PROVE  Sound
<1> USE DEF At
<1>0. conn \in [Conn -> ConnState] /\ req \in [Conn -> Request] /\ Served(k) /\ RequestInv(k)
  BY Here
<1>1. /\ conn[k].st = "send" /\ conn[k].slot /\ Accepted(k) /\ req[k].up = Nil
      /\ a \in req[k].addrs /\ req[k].addrs \subseteq AddrOK[req[k].cfg][req[k].subnet]
  BY <1>0 DEF RoundTrip, Served, RequestInv, Checked, Cleared, Connected, Reachable
<1>2. Goto(k, "body") /\ "body" \in States
  BY DEF RoundTrip, States
<1>3. req' = [req EXCEPT ![k].up = a, ![k].body = body] /\ UNCHANGED <<cur, process>>
  BY DEF RoundTrip
<1>4. /\ req' \in [Conn -> Request] /\ \A j \in Conn : j # k => req'[j] = req[j]
      /\ req'[k].addrs = req[k].addrs /\ req'[k].cfg = req[k].cfg
      /\ req'[k].subnet = req[k].subnet /\ req'[k].host = req[k].host /\ req'[k].up = a
  BY <1>0, <1>3, ResponseStep DEF Alike
<1>5. Only(k) /\ conn'[k].st = "body" /\ conn'[k].slot = conn[k].slot
  BY <1>0, <1>2, <1>3, <1>4, GotoStep DEF Only
<1>6. Served(k)' /\ RequestInv(k)'
  BY <1>1, <1>4, <1>5 DEF Served, RequestInv, Accepted, Checked, Cleared, Connected
<1>7. TicketOf(k)' = TicketOf(k) /\ a \in TicketOf(k)
  BY <1>1, <1>4, TicketOfAccepted DEF TicketOf
<1> QED BY <1>0, <1>1, <1>4, <1>5, <1>6, <1>7, OneConnection, GateConnects DEF Sound

\* Every step that waits for the client or the upstream is sound.
LEMMA PeersStep ==
  ASSUME IInv, NEW k \in Conn, Peers(k)
  PROVE  Sound
<1> USE DEF At
<1>0. conn \in [Conn -> ConnState] /\ req \in [Conn -> Request] /\ Served(k) /\ RequestInv(k)
  BY Here
<1>1. CASE Accept(k)
  BY <1>1, AcceptStep
<1>2. CASE Bounce(k)
  <2>1. Forget(k)
    BY <1>0, <1>2 DEF Bounce, Forget, RequestInv
  <2> QED BY <1>2, <2>1, IdleForget DEF Bounce
<1>3. CASE BadScheme(k)
  <2>1. Goto(k, "denied") /\ UNCHANGED <<cur, req, process>> /\ "denied" \in States
    BY <1>3 DEF BadScheme, States
  <2>2. conn[k].st = "idle" /\ conn'[k].st = "denied"
    BY <1>0, <1>3, <2>1, GotoStep DEF BadScheme
  <2>3. RequestInv(k)'
    BY <1>0, <2>1, <2>2 DEF RequestInv, Checked, Cleared, Connected
  <2> QED BY <2>1, <2>2, <2>3, GotoOnly
<1>4. CASE BadGateway(k)
  BY <1>4, IdleForget DEF BadGateway
<1>5. CASE TunnelEnds(k)
  <2>1. /\ conn' = [conn EXCEPT ![k].st = "copied", ![k].sock = FALSE]
        /\ Forget(k) /\ UNCHANGED <<cur, process>> /\ conn[k].st = "tunnel"
    BY <1>5 DEF TunnelEnds
  <2>2. /\ conn' \in [Conn -> ConnState] /\ \A j \in Conn : j # k => conn'[j] = conn[j]
        /\ conn'[k].st = "copied" /\ conn'[k].slot = conn[k].slot /\ conn[k].slot
    BY <1>0, <2>1 DEF ConnState, States, Served
  <2>3. Only(k) /\ req'[k] = NoReq
    BY <1>0, <2>1, <2>2, ForgetStep DEF Only
  <2> QED BY <2>1, <2>2, <2>3, Finishes
<1>6. CASE Copy(k)
  <2> DEFINE st == IF Flushes(k) THEN "flush" ELSE "body"
  <2>1. Goto(k, st) /\ st \in {"flush", "body"} /\ st \in States /\ conn[k].st = "body"
    BY <1>6 DEF Copy, States
  <2>2. req' = [req EXCEPT ![k].held = TRUE] /\ UNCHANGED <<cur, process>>
    BY <1>6 DEF Copy
  <2> HIDE DEF st
  <2>3. /\ req' \in [Conn -> Request] /\ \A j \in Conn : j # k => req'[j] = req[j]
        /\ req'[k].addrs = req[k].addrs /\ req'[k].cfg = req[k].cfg
        /\ req'[k].subnet = req[k].subnet /\ req'[k].host = req[k].host
        /\ req'[k].up = req[k].up
    BY <1>0, <2>2, HeldStep DEF Alike
  <2>4. Only(k) /\ conn'[k].st = st /\ conn'[k].slot = conn[k].slot /\ conn[k].slot
    BY <1>0, <2>1, <2>2, <2>3, GotoStep DEF Only, Served
  <2>5. RequestInv(k)'
    BY <1>0, <2>1, <2>3, <2>4 DEF RequestInv, Accepted, Checked, Cleared, Connected
  <2>6. TicketOf(k)' = TicketOf(k)
    BY <2>3 DEF TicketOf
  <2> QED BY <2>1, <2>3, <2>4, <2>5, <2>6, GoesOn
<1>7. CASE BodyEnds(k)
  BY <1>7, IdleForget DEF BodyEnds
<1>8. CASE BodyCut(k)
  BY <1>8, ShutForget DEF BodyCut
<1>9. CASE ServerCloses(k)
  BY <1>9, ShutOnly DEF ServerCloses
<1> QED
  BY <1>1, <1>2, <1>3, <1>4, <1>5, <1>6, <1>7, <1>8, <1>9, ReadStep, RoundTripStep
     DEF Peers

-----------------------------------------------------------------------------
(* The steps of the process *)

\* The connections and the config are left alone.
LEMMA Stutters ==
  ASSUME IInv, UNCHANGED <<cur, conn, req, rules>>, sig' \in BOOLEAN,
         shut' \in {"no", "waiting", "done"}, srv' \in {"listen", "up", "exited"}
  PROVE  Sound
<1>1. IInv'
  BY DEF IInv, TypeOK, SlotWhileServed, RequestsInv, RequestInv, Accepted, AtDoor
<1>2. UNCHANGED Gated!vars
  BY DEF Gated!vars, TicketOf
<1> QED BY <1>1, <1>2 DEF Sound, GateStep

\* A reload leaves the tickets that were given alone: the gate's ChangeRules.
LEMMA ReloadStep ==
  ASSUME IInv, NEW c \in Config, Reload(c)
  PROVE  Sound
<1>1. IInv'
  BY DEF Reload, IInv, TypeOK, process, SlotWhileServed, RequestsInv, RequestInv, Accepted, AtDoor
<1>2. Gated!ChangeRules
  BY DEF Reload, process, Gated!ChangeRules, TicketOf
<1> QED BY <1>1, <1>2 DEF Sound, GateStep, Gated!Next

\* The end of the process lets everybody out: the gate's Leave.
LEMMA ExitStep ==
  ASSUME IInv, Exit
  PROVE  Sound
<1> DEFINE inside == {j \in Conn : conn[j].slot}
<1>0. conn \in [Conn -> ConnState] /\ RequestsInv
  BY TypeOKParts DEF IInv
<1>1. ASSUME NEW k \in Conn
      PROVE  /\ conn'[k].st = "closed" /\ conn'[k].slot = FALSE
             /\ req'[k] = NoReq /\ req'[k].up = Nil /\ req'[k].cfg = Nil
  BY DEF Exit, NoReq
<1>2. TypeOK'
  BY NoReqType, TypeOKParts DEF IInv, TypeOK, Exit, Request, NoReq
<1>3. SlotWhileServed' /\ RequestsInv' /\ \A k \in Conn : AtDoor(k)'
  <2>1. SlotWhileServed'
    BY <1>1 DEF SlotWhileServed
  <2>2. ASSUME NEW k \in Conn PROVE RequestInv(k)'
    BY <1>1 DEF RequestInv, Checked, Cleared, Connected
  <2>3. ASSUME NEW k \in Conn PROVE AtDoor(k)'
    BY DEF Exit, AtDoor
  <2> QED BY <2>1, <2>2, <2>3 DEF RequestsInv
<1>4. \A k \in Conn : k \notin inside => TicketOf(k) = {} /\ req[k].up = Nil
  BY NoTicket DEF IInv, SlotWhileServed, RequestsInv, RequestInv
<1>5. \A k \in Conn : TicketOf(k)' = {} /\ req'[k].up = Nil
  BY <1>1 DEF TicketOf
<1>6. Gated!Leave(inside)
  BY <1>1, <1>4, <1>5 DEF Gated!Leave, Exit
<1>7. inside \in SUBSET inside
  OBVIOUS
<1>8. GateStep
  <2> HIDE DEF inside
  <2>1. \E K \in SUBSET inside : Gated!Leave(K)
    BY <1>6, <1>7 DEF Gated!Leave
  <2> QED BY <2>1 DEF GateStep, Gated!Next, inside
<1> QED BY <1>2, <1>3, <1>8 DEF IInv, Sound

\* Every step of the proxy is sound.
LEMMA NextStep ==
  ASSUME IInv, [Next]_vars
  PROVE  Sound
<1>0. sig \in BOOLEAN /\ shut \in {"no", "waiting", "done"} /\ srv \in {"listen", "up", "exited"}
  BY DEF IInv, TypeOK
<1>1. CASE Listen
  BY <1>0, <1>1, Stutters DEF Listen
<1>2. CASE ListenFails
  BY <1>0, <1>2, Stutters DEF ListenFails
<1>3. CASE Shutdown
  BY <1>0, <1>3, Stutters DEF Shutdown
<1>4. CASE Signal
  BY <1>0, <1>4, Stutters DEF Signal
<1>5. ASSUME NEW graceOver \in BOOLEAN, ShutdownEnds(graceOver) PROVE Sound
  BY <1>0, <1>5, Stutters DEF ShutdownEnds
<1>6. CASE ServeReturns \/ AcceptFails
  BY <1>6, ExitStep DEF ServeReturns, AcceptFails
<1>7. CASE UNCHANGED vars
  BY <1>0, <1>7, Stutters DEF vars, process
<1> QED
  BY <1>1, <1>2, <1>3, <1>4, <1>5, <1>6, <1>7, HandlerStep, PeersStep, ReloadStep DEF Next, Process

\* The proxy starts in the invariant, with the gate empty.
LEMMA InitSound == Init => IInv /\ Gated!Init
<1> SUFFICES ASSUME Init PROVE IInv /\ Gated!Init
  OBVIOUS
<1>1. TypeOK
  BY ProxyAssumption DEF Init, TypeOK, NoReq
<1>2. SlotWhileServed /\ RequestsInv /\ \A k \in Conn : AtDoor(k)
  BY DEF Init, AtDoor, SlotWhileServed, RequestsInv, RequestInv, NoReq, Checked, Cleared, Connected
<1>3. Gated!Init
  BY NoTicket DEF Init, Gated!Init, NoReq
<1> QED BY <1>1, <1>2, <1>3 DEF IInv

-----------------------------------------------------------------------------
(* Theorems *)

\* The invariant holds in every state: what the handler of a request relies on
\* (its config, its subnet, its vetted addresses) is so at each of its steps.
THEOREM Inductive == Spec => []IInv
<1>1. IInv /\ [Next]_vars => IInv'
  BY NextStep DEF Sound
<1> QED BY <1>1, InitSound, PTL DEF Spec

\* Whatever the clients, the upstreams and the reloads do, the state of the
\* proxy has its type: no handler ever runs on a config that is not there.
THEOREM TypeCorrect == Spec => []TypeOK
<1>1. IInv => TypeOK
  BY DEF IInv
<1> QED BY <1>1, Inductive, PTL

\* Every way a connection can end frees its slot, and a connection is served
\* only while it holds one (clientConn.Close and the handlers' error paths).
THEOREM SlotsMatchService == Spec => []SlotWhileServed
<1>1. IInv => SlotWhileServed
  BY DEF IInv
<1> QED BY <1>1, Inductive, PTL

\* The proxy implements Gate: each upstream connection is to an address that
\* the rules of one moment, that of the request, permit this client and host,
\* however handlers and reloads interleave (check, Subnet.Check, vetted.dial);
\* and each slot is taken within the limits, and by a client of a subnet, of the
\* one config that admit has read for it, which a reload may have replaced since.
THEOREM ImplementsGate == Spec => IsGate
<1>1. IInv /\ [Next]_vars => [Gated!Next]_(Gated!vars)
  BY NextStep DEF Sound, GateStep
<1> QED BY <1>1, InitSound, Inductive, PTL DEF Spec, IsGate, Gated!Spec

-----------------------------------------------------------------------------
(* Limits across reloads *)

\* The connections that hold a slot, and those of one client, are within bounds.
SlotsWithin(total, each) ==
  LET inside == {k \in Conn : conn[k].slot}
  IN  /\ IsFiniteSet(inside) /\ Cardinality(inside) <= total
      /\ \A cl \in Client : Cardinality(Holding(cl)) <= each

\* One more in a set with room for it.
LEMMA OneMore ==
  ASSUME NEW S, IsFiniteSet(S), NEW x, NEW n \in Nat, NEW m \in Nat, Cardinality(S) < m, m <= n
  PROVE  IsFiniteSet(S \cup {x}) /\ Cardinality(S \cup {x}) <= n
<1>1. Cardinality(S) \in Nat
  BY FS_CardinalityType
<1>2. /\ IsFiniteSet(S \cup {x})
      /\ Cardinality(S \cup {x}) = Cardinality(S) \/ Cardinality(S \cup {x}) = Cardinality(S) + 1
  BY FS_AddElement
<1> QED BY <1>1, <1>2

\* Fewer, in a set within bounds.
LEMMA NoMore ==
  ASSUME NEW S, IsFiniteSet(S), NEW T \in SUBSET S, NEW n \in Nat, Cardinality(S) <= n
  PROVE  IsFiniteSet(T) /\ Cardinality(T) <= n
<1>1. /\ IsFiniteSet(T) /\ Cardinality(T) <= Cardinality(S)
      /\ Cardinality(S) \in Nat /\ Cardinality(T) \in Nat
  BY FS_Subset, FS_CardinalityType
<1> QED BY <1>1

\* Only Admit lets a connection in, and only within the limits of some config.
LEMMA SlotsTaken ==
  ASSUME IInv, [Next]_vars
  PROVE  \/ {k \in Conn : conn[k].slot}' \subseteq {k \in Conn : conn[k].slot}
         \/ \E k \in Conn, c \in Config :
              /\ {j \in Conn : conn[j].slot}' = {j \in Conn : conn[j].slot} \cup {k}
              /\ Cardinality(Holding(ClientOf[k])) < PerClient[c]
              /\ Cardinality({j \in Conn : conn[j].slot}) < Total[c]
<1> DEFINE inside == {j \in Conn : conn[j].slot}
<1>1. [Gated!Next]_(Gated!vars)
  BY NextStep DEF Sound, GateStep
<1>2. ASSUME NEW k \in Conn, Gated!Enter(k)
      PROVE  /\ rules[k] \in Config /\ inside' = inside \cup {k}
             /\ Cardinality(Holding(ClientOf[k])) < PerClient[rules[k]]
             /\ Cardinality(inside) < Total[rules[k]]
  <2>1. {i \in inside : ClientOf[i] = ClientOf[k]} = Holding(ClientOf[k])
    BY DEF Holding
  <2>2. /\ Gated!Cardinality({i \in inside : ClientOf[i] = ClientOf[k]}) < PerClient[rules[k]]
        /\ Gated!Cardinality(inside) < Total[rules[k]] /\ inside' = inside \cup {k}
        /\ rules[k] # Nil
    BY <1>2 DEF Gated!Enter
  <2>3. rules[k] \in Config
    BY <2>2, TypeOKParts DEF IInv
  <2> QED BY <2>1, <2>2, <2>3, SameCount
<1>3. inside' \subseteq inside \/ \E k \in Conn : Gated!Enter(k)
  BY <1>1 DEF Gated!Next, Gated!vars, Gated!ChangeRules, Gated!Connect, Gated!Finish, Gated!Ask,
              Gated!Leave, Gated!Knock, Gated!TurnAway
<1> QED BY <1>2, <1>3

\* However often the config is reloaded, there are never more connections, of
\* all clients or of one, than the largest limits of any config (admit; the
\* connections over a limit that a reload lowers stay, but none is added).
THEOREM ReloadsKeepLimits ==
  ASSUME NEW total \in Nat, NEW each \in Nat,
         \A c \in Config : Total[c] <= total /\ PerClient[c] <= each
  PROVE  Spec => []SlotsWithin(total, each)
<1> DEFINE inside == {j \in Conn : conn[j].slot}
<1>1. Init => SlotsWithin(total, each)
  <2> SUFFICES ASSUME Init PROVE SlotsWithin(total, each)
    OBVIOUS
  <2>1. inside = {} /\ \A cl \in Client : Holding(cl) = {}
    BY DEF Init, Holding
  <2>2. IsFiniteSet({}) /\ Cardinality({}) = 0 /\ 0 <= total /\ 0 <= each
    BY FS_EmptySet
  <2> QED BY <2>1, <2>2 DEF SlotsWithin
<1>2. ASSUME IInv, SlotsWithin(total, each), [Next]_vars PROVE SlotsWithin(total, each)'
  <2>1. /\ IsFiniteSet(inside) /\ Cardinality(inside) <= total
        /\ \A cl \in Client : IsFiniteSet(Holding(cl)) /\ Cardinality(Holding(cl)) <= each
    <3>1. IsFiniteSet(inside) /\ \A cl \in Client : Holding(cl) \in SUBSET inside
      BY <1>2 DEF SlotsWithin, Holding
    <3> QED BY <1>2, <3>1, FS_Subset DEF SlotsWithin
  <2>2. CASE inside' \subseteq inside
    <3>1. IsFiniteSet(inside') /\ Cardinality(inside') <= total
      BY <2>1, <2>2, NoMore
    <3>2. ASSUME NEW cl \in Client PROVE Cardinality(Holding(cl)') <= each
      <4>1. Holding(cl)' \in SUBSET Holding(cl)
        BY <2>2 DEF Holding
      <4> QED BY <2>1, <4>1, NoMore
    <3> QED BY <3>1, <3>2 DEF SlotsWithin
  <2>3. ASSUME NEW k \in Conn, NEW c \in Config, inside' = inside \cup {k},
               Cardinality(Holding(ClientOf[k])) < PerClient[c],
               Cardinality(inside) < Total[c]
        PROVE  SlotsWithin(total, each)'
    <3>0. Total[c] \in Nat /\ PerClient[c] \in Nat /\ Total[c] <= total /\ PerClient[c] <= each
      BY ProxyAssumption
    <3>1. IsFiniteSet(inside') /\ Cardinality(inside') <= total
      BY <3>0, <2>1, <2>3, OneMore
    <3>2. ASSUME NEW cl \in Client PROVE Cardinality(Holding(cl)') <= each
      <4>1. CASE cl = ClientOf[k]
        <5>1. Holding(cl)' = Holding(cl) \cup {k}
          BY <2>3, <4>1 DEF Holding
        <5> QED BY <3>0, <2>1, <2>3, <4>1, <5>1, OneMore
      <4>2. CASE cl # ClientOf[k]
        <5>1. Holding(cl)' = Holding(cl)
          BY <2>3, <4>2 DEF Holding
        <5> QED BY <2>1, <5>1
      <4> QED BY <4>1, <4>2
    <3> QED BY <3>1, <3>2 DEF SlotsWithin
  <2> QED BY <1>2, <2>2, <2>3, SlotsTaken
<1> QED BY <1>1, <1>2, Inductive, PTL DEF Spec

-----------------------------------------------------------------------------
(* Streams *)

\* What has been copied of a stream is in net/http's buffer only while the
\* handler is about to flush it, never while it waits for the upstream.
NothingHeldBack == \A k \in Conn : req[k].held => conn[k].st = "flush"

\* An action on one connection, which has not been left with data in the buffer.
LEMMA OneHeld ==
  ASSUME NothingHeldBack, NEW k \in Conn,
         \A j \in Conn : j # k => conn'[j] = conn[j] /\ req'[j] = req[j],
         req'[k].held => conn'[k].st = "flush"
  PROVE  NothingHeldBack'
  BY DEF NothingHeldBack

\* A step of connection k changes no other.
LEMMA OthersSame ==
  ASSUME TypeOK, NEW k \in Conn, Handler(k) \/ Peers(k)
  PROVE  \A j \in Conn : j # k => conn'[j] = conn[j] /\ req'[j] = req[j]
<1>1. conn \in [Conn -> ConnState] /\ req \in [Conn -> Request]
  BY TypeOKParts
<1> USE <1>1 DEF Goto, Shut, Idle, Forget
<1>2. CASE Handler(k)
  BY <1>2 DEF Handler, LookedUp, Denied, HijackOk, HijackFails, HijackRefused, DialOk, DialFails,
              Established, NotEstablished, TunnelFrees, Flush, Admit, Reject, SocketCloses, Decided
<1>3. CASE Peers(k)
  BY <1>3 DEF Peers, Accept, Bounce, BadScheme, Read, RoundTrip, BadGateway, TunnelEnds, Copy,
              BodyEnds, BodyCut, ServerCloses
<1> QED BY <1>2, <1>3

\* bodyWriter's flush follows every write of a stream (proxy.go:342): the
\* safety half of StreamFlows.
THEOREM StreamsNeverHeldBack == Spec => []NothingHeldBack
<1>1. Init => NothingHeldBack
  BY DEF Init, NothingHeldBack, NoReq
<1>2. ASSUME IInv, NothingHeldBack, NEW k \in Conn, Handler(k) \/ Peers(k) PROVE NothingHeldBack'
  <2>0. conn \in [Conn -> ConnState] /\ req \in [Conn -> Request]
    BY <1>2, TypeOKParts DEF IInv
  <2>1. \A j \in Conn : j # k => conn'[j] = conn[j] /\ req'[j] = req[j]
    BY <1>2, OthersSame DEF IInv
  <2>2. CASE Forget(k)
    <3>1. ~req'[k].held
      BY <2>0, <2>2 DEF Forget, NoReq
    <3> QED BY <1>2, <3>1, <2>1, OneHeld
  <2>3. CASE UNCHANGED req /\ conn[k].st # "flush"
    BY <1>2, <2>3, <2>1, OneHeld DEF NothingHeldBack
  <2>4. ASSUME NEW A \in SUBSET Addr, LookedUp(k, A), ~UNCHANGED req PROVE NothingHeldBack'
    <3>1. ~req[k].held
      BY <1>2, <2>4 DEF NothingHeldBack, LookedUp, At
    <3>2. req' = [req EXCEPT ![k].addrs = A]
      BY <2>4 DEF LookedUp
    <3>3. ~req'[k].held
      BY <2>0, <3>1, <3>2 DEF Request
    <3> QED BY <1>2, <3>3, <2>1, OneHeld
  <2>5. ASSUME NEW a \in Addr, DialOk(k, a) PROVE NothingHeldBack'
    <3>1. ~req[k].held /\ req' = [req EXCEPT ![k].up = a]
      BY <1>2, <2>5 DEF NothingHeldBack, DialOk, At
    <3>2. ~req'[k].held
      BY <2>0, <3>1 DEF Request
    <3> QED BY <1>2, <3>2, <2>1, OneHeld
  <2>6. ASSUME NEW asked \in Host, NEW a \in Addr, NEW b \in {"length", "stream"},
               RoundTrip(k, asked, a, b)
        PROVE  NothingHeldBack'
    <3>1. ~req[k].held /\ req' = [req EXCEPT ![k].up = a, ![k].body = b]
      BY <1>2, <2>6 DEF NothingHeldBack, RoundTrip, At
    <3>2. ~req'[k].held
      BY <2>0, <3>1 DEF Request
    <3> QED BY <1>2, <3>2, <2>1, OneHeld
  <2>7. ASSUME NEW kind, NEW h, Read(k, kind, h) PROVE NothingHeldBack'
    <3>1. ~req'[k].held
      BY <2>0, <2>7 DEF Read, NoReq
    <3> QED BY <1>2, <3>1, <2>1, OneHeld
  <2>8. CASE Copy(k)
    <3>1. Goto(k, "flush") /\ "flush" \in States
      BY <2>8 DEF Copy, Flushes, States
    <3>2. conn'[k].st = "flush"
      BY <2>0, <3>1, GotoStep
    <3> QED BY <1>2, <3>2, <2>1, OneHeld
  <2>9. CASE Flush(k)
    <3>1. ~req'[k].held
      BY <2>0, <2>9 DEF Flush, Request
    <3> QED BY <1>2, <3>1, <2>1, OneHeld
  <2>10. CASE Admit(k) \/ Reject(k)
    <3>1. UNCHANGED req /\ conn[k].st = "new"
      BY <1>2, <2>10 DEF Admit, Reject, Decided, IInv, AtDoor
    <3> QED BY <2>3, <3>1
  <2>11. CASE Handler(k)
    BY <2>2, <2>3, <2>4, <2>5, <2>9, <2>11, <2>10
       DEF Handler, Denied, HijackOk, HijackFails, HijackRefused, DialFails, Established,
           NotEstablished, TunnelFrees, LookedUp, SocketCloses, At
  <2>12. CASE Peers(k)
    BY <2>2, <2>3, <2>6, <2>7, <2>8, <2>12
       DEF Peers, Accept, Bounce, BadScheme, BadGateway, TunnelEnds, BodyEnds, BodyCut,
           ServerCloses, At
  <2> QED BY <1>2, <2>11, <2>12
<1>3. ASSUME Exit PROVE NothingHeldBack'
  BY <1>3 DEF Exit, NothingHeldBack, NoReq
<1>4. ASSUME NothingHeldBack, UNCHANGED <<conn, req>> PROVE NothingHeldBack'
  BY <1>4 DEF NothingHeldBack
<1>5. IInv /\ NothingHeldBack /\ [Next]_vars => NothingHeldBack'
  BY <1>2, <1>3, <1>4 DEF Next, Process, Reload, Listen, ListenFails, Shutdown, Signal, ServeReturns,
                          AcceptFails, ShutdownEnds, vars
<1> QED BY <1>1, <1>5, Inductive, PTL DEF Spec
=============================================================================
