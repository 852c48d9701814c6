----------------------------- MODULE ThriftWire -----------------------------
(***************************************************************************)
(* One call after another over one connection, token by token: the client  *)
(* stub writes its arguments, Processor.process() reads them, the handler  *)
(* returns, the result is written and the stub reads it.  The peer may be  *)
(* the server of another service (a client on the wrong port), whose       *)
(* process() does not know the procedure.                                  *)
(*                                                                         *)
(* Which values a procedure is called with does not matter to the codec:   *)
(* Samples(T) has, for every type, objects with no attribute, with each    *)
(* attribute alone (each of its samples), and with all of them, and lists  *)
(* of none, one and two elements.                                          *)
(***************************************************************************)
EXTENDS ThriftCodec, FiniteSets

CONSTANTS
    Services,    \* a function from service names to the sets of their procedures
    ScalarValues \* the values scalars are drawn from

ASSUME ScalarAssumption == ScalarValues \subseteq Int /\ ScalarValues # {}

VARIABLES
    client,   \* the service whose stubs the client uses
    server,   \* the service of the server it is connected to
    pc,       \* "idle", "called", "handling", "replied", "returned" or "raised"
    method,   \* the procedure being called
    obj,      \* what the writer handed to write(): the arguments, then the result
    got,      \* what the reader's read() made of it
    toServer, \* tokens on their way to the server
    toClient  \* tokens on their way to the client

vars == <<client, server, pc, method, obj, got, toServer, toClient>>

----------------------------------------------------------------------------
(* Values to send.                                                         *)

RECURSIVE Samples(_), Full(_)

\* The object with every attribute, at every depth.
Full(T) ==
    CASE T.tt = "STRUCT" -> LET typeOf == [n \in {f.name : f \in Range(T.fields)} |->
                                              (CHOOSE f \in Range(T.fields) : f.name = n).type]
                            IN  [n \in DOMAIN typeOf |-> Full(typeOf[n])]
      [] T.tt = "LIST"   -> <<Full(T.elem), Full(T.elem)>>
      [] OTHER           -> CHOOSE v \in ScalarValues : TRUE

\* The objects with the one attribute f.
Only(f) == {f.name :> v : v \in Samples(f.type)}

Samples(T) ==
    CASE T.tt = "STRUCT" -> {<<>>, Full(T)} \cup UNION {Only(f) : f \in Range(T.fields)}
      [] T.tt = "LIST"   -> {<<>>} \cup UNION {{<<v>>, <<v, v>>} : v \in Samples(T.elem)}
      [] OTHER           -> ScalarValues

----------------------------------------------------------------------------
\* The value of method between calls, when nothing reads it.
NoMethod == CHOOSE m \in Services[client] : TRUE

Init ==
    /\ client \in DOMAIN Services
    /\ server \in DOMAIN Services
    /\ pc = "idle"
    /\ method = NoMethod
    /\ obj = <<>>
    /\ got = <<>>
    /\ toServer = <<>>
    /\ toClient = <<>>

\* send_X(): the message header with sequence number 0, the arguments, one flush.
Send(m, args) ==
    /\ pc' = "called"
    /\ method' = m
    /\ obj' = args
    /\ got' = <<>>
    /\ toServer' = toServer \o <<Message(m.name, "CALL", 0)>> \o WriteStruct(m.args, args)
    /\ UNCHANGED <<client, server, toClient>>

\* TApplicationException, and the one that process() sends.
TApplicationException == Struct(<<F(1, "message", STR), F(2, "type", I32)>>)

UnknownMethod == Full(TApplicationException)

\* Processor.process() of a procedure that is not in the _processMap: the arguments are
\* skipped and an exception goes back.
RefuseUnknown ==
    /\ pc = "called"
    /\ NextIs("msg", toServer)
    /\ Head(toServer).msg \notin {m.name : m \in Services[server]}
    /\ pc' = "replied"
    /\ toServer' = Skip("STRUCT", Tail(toServer))
    /\ toClient' = toClient \o <<Message(Head(toServer).msg, "EXCEPTION", Head(toServer).seqid)>>
                            \o WriteStruct(TApplicationException, UnknownMethod)
    /\ obj' = <<>>
    /\ UNCHANGED <<client, server, method, got>>

\* process_X(), up to the call of the handler: args.read().
ReadArgs ==
    /\ pc = "called"
    /\ NextIs("msg", toServer)
    /\ \E m \in Services[server] :
          /\ m.name = Head(toServer).msg
          /\ LET r == ReadStruct(m.args, Tail(toServer)) IN
                /\ got' = r.val
                /\ toServer' = r.rest
    /\ pc' = "handling"
    /\ UNCHANGED <<client, server, method, obj, toClient>>

\* process_X(), from the return of the handler: result.success is what it returned (None
\* when it has no return statement), then the reply.
Reply(result) ==
    /\ pc' = "replied"
    /\ obj' = result
    /\ got' = <<>>
    /\ toClient' = toClient \o <<Message(method.name, "REPLY", 0)>>
                            \o WriteStruct(method.result, result)
    /\ UNCHANGED <<client, server, method, toServer>>

\* recv_X(): an exception is read and raised; so is a result without success.
Receive ==
    /\ pc = "replied"
    /\ NextIs("msg", toClient)
    /\ IF Head(toClient).mtype = "EXCEPTION"
       THEN /\ toClient' = ReadStruct(TApplicationException, Tail(toClient)).rest
            /\ pc' = "raised"
            /\ UNCHANGED got
       ELSE LET r == ReadStruct(method.result, Tail(toClient)) IN
            /\ toClient' = r.rest
            /\ got' = r.val
            /\ pc' = IF "success" \in DOMAIN r.val THEN "returned" ELSE "raised"
    /\ UNCHANGED <<client, server, method, obj, toServer>>

\* The caller goes on with its next call on the same connection.
NextCall ==
    /\ pc \in {"returned", "raised"}
    /\ pc' = "idle"
    /\ method' = NoMethod
    /\ obj' = <<>>
    /\ got' = <<>>
    /\ UNCHANGED <<client, server, toServer, toClient>>

Next ==
    \/ pc = "idle" /\ \E m \in Services[client] : \E a \in Samples(m.args) : Send(m, a)
    \/ RefuseUnknown
    \/ ReadArgs
    \/ pc = "handling" /\ \E r \in Samples(method.result) : Reply(r)
    \/ Receive
    \/ NextCall

Spec == Init /\ [][Next]_vars

----------------------------------------------------------------------------
(* Properties.                                                             *)

\* What the handler is called with is what the caller passed, attribute by attribute and
\* at every depth, and what the caller gets is what the handler returned: an attribute
\* that was None stays None, a list keeps its order, and no value lands in another
\* attribute of a class with neighbouring ids and types.
DeliveredIntact == pc \in {"handling", "returned"} => got = obj

\* Whoever read a message stopped exactly at its end, also when the reader had to skip all
\* of it because it does not know the procedure: the next message on the connection starts
\* with its header.
StreamInSync ==
    /\ pc \in {"idle", "handling", "replied", "returned", "raised"} => toServer = <<>>
    /\ pc \in {"idle", "called", "handling", "returned", "raised"} => toClient = <<>>

SuccessType(m) == m.result.fields[1].type

\* Two results that only differ in the type of their list elements: read() cannot tell.
ListsDiffer(T, U) == T.tt = "LIST" /\ U.tt = "LIST" /\ T # U

\* recv_X() compares neither the procedure's name nor the sequence number of a reply with
\* its call.  A stub that read the reply to another procedure would still stop at the end
\* of that reply, and would raise unless both results have the same wire type; results
\* that are lists are the one exception, because the announced element type is ignored.
ForeignReplyHarmless ==
    pc = "replied" /\ Head(toClient).mtype = "REPLY" =>
        \A T \in {SuccessType(m) : m \in Services[client]} :
            LET r == ReadStruct(Struct(<<F(0, "success", T)>>), Tail(toClient)) IN
            \/ ListsDiffer(T, SuccessType(method))
            \/ /\ r.rest = <<>>
               /\ "success" \in DOMAIN r.val => T.tt = SuccessType(method).tt

=============================================================================
