------------------------------- MODULE SaiRpc -------------------------------
(***************************************************************************)
(* Test clients calling the SAI server: the stubs of switch_sai_rpc.Client *)
(* on one side, Processor and the single-threaded TSimpleServer on the     *)
(* other.  The server accepts one connection, serves it until an exception *)
(* ends the loop (the client is gone, the handler raised), closes it and   *)
(* accepts the next; connections that wait are accepted in the order in    *)
(* which they were made.  A client runs one test after another, each with  *)
(* a connection of its own: setUp() opens it, an exception in a call ends  *)
(* the test, tearDown() closes it.  Sockets have no timeout.               *)
(*                                                                         *)
(* A message carries the number n of the call it belongs to, among those   *)
(* of the client; it is not on the wire, where every message has sequence  *)
(* number 0.                                                               *)
(***************************************************************************)
EXTENDS Naturals, Sequences

CONSTANTS
    Clients,   \* processes that run tests
    Methods,   \* procedures the stubs can call
    Processed, \* those in the server's _processMap
    Handled,   \* those that SaiHandler defines
    Nullable,  \* those of them with a path that returns nothing
    MaxConns,  \* bound on the number of connections made
    MaxCalls   \* bound on the number of calls a client makes

ASSUME MethodAssumption == Nullable \subseteq Handled /\ Handled \subseteq Processed
ASSUME ClientAssumption == Clients # {}
ASSUME BoundAssumption == MaxConns \in Nat /\ MaxCalls \in Nat

Conns == 1 .. MaxConns

VARIABLES
    nconn,   \* connections made so far: the k-th one is number k
    owner,   \* the client that made each of them (of the others: anyone)
    cl,      \* the client's end: "none", "idle", "waiting", "failed", "closed"
    ncall,   \* calls each client has made
    wbuf,    \* what the client's TBufferedTransport holds back until a flush
    req,     \* messages to the server
    rep,     \* messages to the client
    serving, \* connections accepted so far: the last one is the one served
    link,    \* the server's end of that connection: "up" or "down"
    out,     \* the reply in the server's TBufferedTransport
    ran,     \* history: the calls whose handler was entered
    returned,\* history: the calls that returned to their callers
    raised   \* history: the calls that raised an exception

vars == <<nconn, owner, cl, ncall, wbuf, req, rep, serving, link, out, ran, returned, raised>>

Ids == Clients \X (1 .. MaxCalls)

Calls == [n : 1 .. MaxCalls, m : Methods]

Replies == [n : 1 .. MaxCalls, kind : {"value", "none", "exception"}]

\* Every variable has its type, no connection is accepted before it is made and no client
\* makes more calls than the bound.
TypeOK ==
    /\ nconn \in 0 .. MaxConns
    /\ owner \in [Conns -> Clients]
    /\ cl \in [Conns -> {"none", "idle", "waiting", "failed", "closed"}]
    /\ ncall \in [Clients -> 0 .. MaxCalls]
    /\ wbuf \in [Conns -> Seq(Calls)]
    /\ req \in [Conns -> Seq(Calls)]
    /\ rep \in [Conns -> Seq(Replies)]
    /\ serving \in 0 .. nconn
    /\ link \in {"up", "down"}
    /\ out \in Seq(Replies)
    /\ ran \subseteq Ids
    /\ returned \subseteq Ids
    /\ raised \subseteq Ids

Init ==
    /\ nconn = 0
    /\ owner = [k \in Conns |-> CHOOSE c \in Clients : TRUE]
    /\ cl = [k \in Conns |-> "none"]
    /\ ncall = [c \in Clients |-> 0]
    /\ wbuf = [k \in Conns |-> <<>>]
    /\ req = [k \in Conns |-> <<>>]
    /\ rep = [k \in Conns |-> <<>>]
    /\ serving = 0
    /\ link = "down"
    /\ out = <<>>
    /\ ran = {}
    /\ returned = {}
    /\ raised = {}

----------------------------------------------------------------------------
(* Clients.                                                                *)

serverVars == <<serving, link, out, ran>>

\* The server closed connection k, so that its client reads end of file.
HungUp(k) == k < serving \/ (k = serving /\ link = "down")

\* The call in progress on connection k.
Current(k) == <<owner[k], ncall[owner[k]]>>

\* The message of the next call on connection k.
NewCall(k, m) == [n |-> ncall[owner[k]] + 1, m |-> m]

\* setUp(): the next test of a client opens a connection; listen() queues it.
Connect(c) ==
    /\ nconn < MaxConns
    /\ \A k \in 1 .. nconn : owner[k] = c => cl[k] = "closed"
    /\ nconn' = nconn + 1
    /\ owner' = [owner EXCEPT ![nconn + 1] = c]
    /\ cl' = [cl EXCEPT ![nconn + 1] = "idle"]
    /\ UNCHANGED <<ncall, wbuf, req, rep, returned, raised, serverVars>>

\* send_X(): the message is written to the buffer and flushed, with all that was there.
Call(k, m) ==
    /\ cl[k] = "idle"
    /\ ncall[owner[k]] < MaxCalls
    /\ ncall' = [ncall EXCEPT ![owner[k]] = @ + 1]
    /\ req' = [req EXCEPT ![k] = @ \o wbuf[k] \o <<NewCall(k, m)>>]
    /\ wbuf' = [wbuf EXCEPT ![k] = <<>>]
    /\ cl' = [cl EXCEPT ![k] = "waiting"]
    /\ UNCHANGED <<nconn, owner, rep, returned, raised, serverVars>>

\* A deviation: a caller that goes on with the connection after its arguments did not fit.
CallFailsAndGoesOn(k, m) ==
    /\ cl[k] = "idle"
    /\ ncall[owner[k]] < MaxCalls
    /\ ncall' = [ncall EXCEPT ![owner[k]] = @ + 1]
    /\ wbuf' = [wbuf EXCEPT ![k] = Append(@, NewCall(k, m))]
    /\ raised' = raised \cup {<<owner[k], ncall[owner[k]] + 1>>}
    /\ UNCHANGED <<nconn, owner, cl, req, rep, returned, serverVars>>

\* send_X() whose args.write() raises, because a value does not fit its wire type (an
\* unsigned attribute is packed as a signed one): the beginning of the message stays in
\* the buffer, and the exception ends the test.
CallFails(k, m) ==
    /\ cl[k] = "idle"
    /\ ncall[owner[k]] < MaxCalls
    /\ ncall' = [ncall EXCEPT ![owner[k]] = @ + 1]
    /\ wbuf' = [wbuf EXCEPT ![k] = Append(@, NewCall(k, m))]
    /\ cl' = [cl EXCEPT ![k] = "failed"]
    /\ raised' = raised \cup {<<owner[k], ncall[owner[k]] + 1>>}
    /\ UNCHANGED <<nconn, owner, req, rep, returned, serverVars>>

\* recv_X() with a reply: it returns success, or raises what the server sent, or raises
\* MISSING_RESULT when success is None.
Receive(k) ==
    /\ cl[k] = "waiting"
    /\ rep[k] # <<>>
    /\ rep' = [rep EXCEPT ![k] = Tail(@)]
    /\ \/ /\ Head(rep[k]).kind = "value"
          /\ cl' = [cl EXCEPT ![k] = "idle"]
          /\ returned' = returned \cup {Current(k)}
          /\ UNCHANGED raised
       \/ /\ Head(rep[k]).kind # "value"
          /\ cl' = [cl EXCEPT ![k] = "failed"]
          /\ raised' = raised \cup {Current(k)}
          /\ UNCHANGED returned
    /\ UNCHANGED <<nconn, owner, ncall, wbuf, req, serverVars>>

\* recv_X() at the end of the stream raises.
ReceiveEof(k) ==
    /\ cl[k] = "waiting"
    /\ rep[k] = <<>>
    /\ HungUp(k)
    /\ cl' = [cl EXCEPT ![k] = "failed"]
    /\ raised' = raised \cup {Current(k)}
    /\ UNCHANGED <<nconn, owner, ncall, wbuf, req, rep, returned, serverVars>>

\* tearDown(): after the last call of the test, or after the exception that ended it.
\* close() does not flush what the buffer holds.
Close(k) ==
    /\ cl[k] \in {"idle", "failed"}
    /\ cl' = [cl EXCEPT ![k] = "closed"]
    /\ wbuf' = [wbuf EXCEPT ![k] = <<>>]
    /\ UNCHANGED <<nconn, owner, ncall, req, rep, returned, raised, serverVars>>

\* A test that is interrupted while recv_X() waits: what it sent is still delivered.
Interrupt(k) ==
    /\ cl[k] = "waiting"
    /\ cl' = [cl EXCEPT ![k] = "closed"]
    /\ UNCHANGED <<nconn, owner, ncall, wbuf, req, rep, returned, raised, serverVars>>

----------------------------------------------------------------------------
(* The server: TSimpleServer.serve(), Processor.process() and process_X(). *)

clientVars == <<nconn, owner, cl, ncall, wbuf, returned, raised>>

\* A deviation: accept() that does not wait for a connection.
AcceptAtOnce ==
    /\ link = "down"
    /\ serving < MaxConns
    /\ serving' = serving + 1
    /\ link' = "up"
    /\ UNCHANGED <<clientVars, req, rep, out, ran>>

\* A deviation: the newest connection is accepted and those before it are dropped.
AcceptNewest ==
    /\ link = "down"
    /\ serving < nconn
    /\ serving' = nconn
    /\ link' = "up"
    /\ UNCHANGED <<clientVars, req, rep, out, ran>>

Accept ==
    /\ link = "down"
    /\ serving < nconn
    /\ serving' = serving + 1
    /\ link' = "up"
    /\ UNCHANGED <<clientVars, req, rep, out, ran>>

\* The server has a message to read, having answered the one before.
Reading == link = "up" /\ out = <<>> /\ req[serving] # <<>>

Message == Head(req[serving])

\* process() of a name that is not in the _processMap.
RefuseUnknown ==
    /\ Reading
    /\ Message.m \notin Processed
    /\ out' = <<[n |-> Message.n, kind |-> "exception"]>>
    /\ req' = [req EXCEPT ![serving] = Tail(@)]
    /\ UNCHANGED <<clientVars, rep, serving, link, ran>>

\* A deviation: the exception is caught where the connection stays open.
SwallowUnhandled ==
    /\ Reading
    /\ Message.m \in Processed \ Handled
    /\ req' = [req EXCEPT ![serving] = Tail(@)]
    /\ UNCHANGED <<clientVars, rep, serving, link, out, ran>>

\* process_X() of a procedure that the handler does not define: the attribute look-up
\* raises and serve() closes the connection.
RaiseUnhandled ==
    /\ Reading
    /\ Message.m \in Processed \ Handled
    /\ link' = "down"
    /\ req' = [req EXCEPT ![serving] = Tail(@)]
    /\ UNCHANGED <<clientVars, rep, serving, out, ran>>

\* process_X() whose handler returns: the result is in the server's buffer.
HandlerReturns(kind) ==
    /\ Reading
    /\ Message.m \in (IF kind = "none" THEN Nullable ELSE Handled)
    /\ ran' = ran \cup {<<owner[serving], Message.n>>}
    /\ out' = <<[n |-> Message.n, kind |-> kind]>>
    /\ req' = [req EXCEPT ![serving] = Tail(@)]
    /\ UNCHANGED <<clientVars, rep, serving, link>>

\* process_X() whose handler raises after it started: serve() closes the connection.
HandlerRaises ==
    /\ Reading
    /\ Message.m \in Handled
    /\ ran' = ran \cup {<<owner[serving], Message.n>>}
    /\ link' = "down"
    /\ req' = [req EXCEPT ![serving] = Tail(@)]
    /\ UNCHANGED <<clientVars, rep, serving, out>>

\* The flush at the end of process_X().
Flush ==
    /\ link = "up"
    /\ out # <<>>
    /\ rep' = [rep EXCEPT ![serving] = @ \o out]
    /\ out' = <<>>
    /\ UNCHANGED <<clientVars, req, serving, link, ran>>

\* The flush raises: the client closed its end before the reply was sent.
FlushFails ==
    /\ link = "up"
    /\ out # <<>>
    /\ cl[serving] = "closed"
    /\ out' = <<>>
    /\ link' = "down"
    /\ UNCHANGED <<clientVars, req, rep, serving, ran>>

\* process() reads end of file: the client closed and everything it sent was read.
HangUp ==
    /\ link = "up"
    /\ out = <<>>
    /\ req[serving] = <<>>
    /\ cl[serving] = "closed"
    /\ link' = "down"
    /\ UNCHANGED <<clientVars, req, rep, serving, out, ran>>

Serve ==
    \/ Accept
    \/ RefuseUnknown
    \/ RaiseUnhandled
    \/ \E kind \in {"value", "none"} : HandlerReturns(kind)
    \/ HandlerRaises
    \/ Flush
    \/ FlushFails
    \/ HangUp

Next ==
    \/ \E c \in Clients : Connect(c)
    \/ \E k \in 1 .. nconn :
          \/ \E m \in Methods : Call(k, m) \/ CallFails(k, m)
          \/ Receive(k)
          \/ ReceiveEof(k)
          \/ Close(k)
          \/ Interrupt(k)
    \/ Serve

Spec == Init /\ [][Next]_vars

\* The server loops for ever, recv_X() returns once there is something to read, and a test
\* ends.  A client need not make another call or run another test.
Fairness ==
    /\ WF_vars(Serve)
    /\ \A k \in Conns : WF_vars(k <= nconn /\ (Receive(k) \/ ReceiveEof(k) \/ Close(k)))

FairSpec == Spec /\ Fairness

----------------------------------------------------------------------------
(* Properties.                                                             *)

\* Neither side compares names or sequence numbers, and yet the reply a stub is about to
\* read is the one to the call it is waiting for.
ReplyMatchesCall ==
    \A k \in 1 .. nconn :
        cl[k] = "waiting" /\ rep[k] # <<>> => Head(rep[k]).n = ncall[owner[k]]

\* The calls that sit in connections.
Due == {id \in Ids : \E k \in Conns : \E i \in DOMAIN req[k] : id = <<owner[k], req[k][i].n>>}

Open == {Current(k) : k \in {j \in 1 .. nconn : cl[j] = "waiting"}}

Abstract == INSTANCE AtomicRpc WITH count <- ncall, open <- Open, due <- Due

\* The stubs and the server together are an atomic call service: whatever connections are
\* made, dropped and queued, a call runs at most once, in the order its client made it,
\* has run if it returns, and is settled when it raises.
CallsAreAtomic == Abstract!Spec

\* Whoever waits for a reply gets one or an exception: a call to a procedure that the
\* server cannot handle, or one made while the server is busy with another connection,
\* does not wait for ever.
CallsEnd == \A k \in Conns : cl[k] = "waiting" ~> cl[k] # "waiting"

=============================================================================
