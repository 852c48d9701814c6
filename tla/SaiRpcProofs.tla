---------------------------- MODULE SaiRpcProofs ----------------------------
(***************************************************************************)
(* Proofs about SaiRpc: types, replies that belong to the call that reads  *)
(* them, and that the stubs and the server implement AtomicRpc, for any    *)
(* clients, procedures and bounds.                                         *)
(***************************************************************************)
EXTENDS SaiRpc, SequenceTheorems, TLAPS

----------------------------------------------------------------------------
(* The inductive invariant.                                                *)

\* Where the one message of a call in progress is: on its way to the server, in the
\* server's buffer, on its way back, or nowhere because the server hung up.
Stages(k) ==
    \/ /\ req[k] # <<>>
       /\ Head(req[k]).n = ncall[owner[k]]
       /\ rep[k] = <<>>
    \/ /\ req[k] = <<>> /\ rep[k] = <<>>
       /\ k = serving /\ link = "up" /\ out # <<>>
       /\ Head(out).n = ncall[owner[k]]
    \/ /\ req[k] = <<>>
       /\ k = serving /\ link = "up" /\ out = <<>>
       /\ rep[k] # <<>>
       /\ Len(rep[k]) = 1
       /\ Head(rep[k]).n = ncall[owner[k]]
       /\ Head(rep[k]).kind = "value" => Current(k) \in ran
    \/ req[k] = <<>> /\ rep[k] = <<>> /\ HungUp(k)

\* What holds of each connection.
ConnOK(k) ==
    /\ k > nconn <=> cl[k] = "none"
    /\ cl[k] = "none" => req[k] = <<>> /\ rep[k] = <<>>
    /\ cl[k] \in {"none", "idle", "waiting"} => wbuf[k] = <<>>
    /\ HungUp(k) => req[k] = <<>> /\ cl[k] # "idle"
    /\ k > serving => rep[k] = <<>>
    /\ cl[k] \in {"idle", "failed"} =>
          req[k] = <<>> /\ rep[k] = <<>> /\ (k = serving => out = <<>>)
    /\ req[k] # <<>> =>
          /\ Len(req[k]) = 1
          /\ k = serving => out = <<>>
          /\ Head(req[k]).n <= ncall[owner[k]]
    /\ cl[k] = "waiting" => ncall[owner[k]] > 0 /\ Stages(k)

\* What holds of two connections of one client, the first older than the second.
PairOK(j, k) ==
    /\ cl[j] = "closed"
    /\ req[j] # <<>> /\ req[k] # <<>> => Head(req[j]).n < Head(req[k]).n
    /\ req[j] # <<>> /\ cl[k] = "waiting" => Head(req[j]).n < ncall[owner[k]]

\* What holds of the server.
ServerOK ==
    /\ link = "down" => out = <<>>
    /\ link = "up" => serving > 0
    /\ out # <<>> => /\ Len(out) = 1
                     /\ Head(out).kind = "value" => <<owner[serving], Head(out).n>> \in ran

ConnsOK == \A k \in Conns : ConnOK(k)

PairsOK == \A j, k \in Conns : j < k /\ k <= nconn /\ owner[j] = owner[k] => PairOK(j, k)

Inv == TypeOK /\ ConnsOK /\ PairsOK /\ ServerOK

----------------------------------------------------------------------------
(* Sequences of at most one message.                                       *)

LEMMA OneMessage ==
    ASSUME NEW S, NEW s \in Seq(S), s # <<>>
    PROVE  /\ Head(s) \in S
           /\ Tail(s) \in Seq(S)
           /\ DOMAIN s # {}
           /\ 1 \in DOMAIN s /\ s[1] = Head(s)
           /\ Len(s) = 1 => Tail(s) = <<>> /\ DOMAIN s = {1}
<1>1. Head(s) \in S /\ Tail(s) \in Seq(S) /\ Len(Tail(s)) = Len(s) - 1
    BY HeadTailProperties
<1>2. Len(s) \in Nat \ {0} /\ DOMAIN s = 1 .. Len(s)
    BY LenProperties, EmptySeq
<1>3. ASSUME Len(s) = 1 PROVE Tail(s) = <<>>
  <2>1. Len(Tail(s)) = 0
    BY <1>1, <1>3
  <2> QED
    BY <1>1, <2>1, EmptySeq
<1>4. Head(s) = s[1]
    BY <1>2
<1> QED
    BY <1>1, <1>2, <1>3, <1>4

LEMMA Single ==
    ASSUME NEW S, NEW x \in S
    PROVE  /\ <<x>> \in Seq(S) /\ <<x>> # <<>>
           /\ Len(<<x>>) = 1 /\ Head(<<x>>) = x
           /\ <<>> \o <<>> \o <<x>> = <<x>>
           /\ <<>> \in Seq(S)
OBVIOUS

LEMMA AfterNothing ==
    ASSUME NEW S, NEW s \in Seq(S)
    PROVE  <<>> \o s = s
OBVIOUS

LEMMA Numbers ==
    /\ \A x \in Calls : x.n \in Nat /\ x.n \in 1 .. MaxCalls
    /\ \A x \in Replies : x.n \in Nat /\ x.n \in 1 .. MaxCalls
BY BoundAssumption DEF Calls, Replies

----------------------------------------------------------------------------
(* The invariant holds initially.                                          *)

LEMMA InvInit == Init => Inv
<1> SUFFICES ASSUME Init PROVE Inv
    OBVIOUS
<1>1. TypeOK
  <2>1. (CHOOSE c \in Clients : TRUE) \in Clients
    BY ClientAssumption
  <2>2. <<>> \in Seq(Calls) /\ <<>> \in Seq(Replies)
    BY EmptySeq
  <2>3. nconn \in 0 .. MaxConns /\ serving \in 0 .. nconn
    BY BoundAssumption DEF Init
  <2>4. ncall \in [Clients -> 0 .. MaxCalls]
    BY BoundAssumption DEF Init
  <2>5. owner \in [Conns -> Clients]
    BY <2>1 DEF Init
  <2>6. wbuf \in [Conns -> Seq(Calls)] /\ req \in [Conns -> Seq(Calls)]
    BY <2>2 DEF Init
  <2>7. rep \in [Conns -> Seq(Replies)] /\ out \in Seq(Replies)
    BY <2>2 DEF Init
  <2> QED
    BY <2>3, <2>4, <2>5, <2>6, <2>7 DEF Init, TypeOK
<1>2. ConnsOK
    BY BoundAssumption DEF Init, ConnsOK, ConnOK, HungUp, Conns
<1>3. PairsOK
    BY DEF Init, PairsOK, Conns
<1>4. ServerOK
    BY DEF Init, ServerOK
<1> QED
    BY <1>1, <1>2, <1>3, <1>4 DEF Inv

----------------------------------------------------------------------------
(* Every step of a client preserves it.                                    *)

LEMMA ConnectStep ==
    ASSUME Inv, NEW c \in Clients, Connect(c)
    PROVE  Inv'
<1> USE DEF Inv
<1>1. /\ nconn' = nconn + 1 /\ nconn + 1 \in Conns /\ nconn \in Nat /\ serving \in 0 .. nconn
      /\ UNCHANGED <<ncall, wbuf, req, rep, serving, link, out, ran, returned, raised>>
    BY BoundAssumption DEF TypeOK, Connect, Conns, serverVars
<1>2. TypeOK'
  <2>1. nconn' \in 0 .. MaxConns /\ serving' \in 0 .. nconn'
    BY <1>1, BoundAssumption DEF Conns
  <2>2. owner' \in [Conns -> Clients]
    BY <1>1 DEF Connect, TypeOK
  <2>3. cl' \in [Conns -> {"none", "idle", "waiting", "failed", "closed"}]
    BY <1>1 DEF Connect, TypeOK
  <2> QED
    BY <1>1, <2>1, <2>2, <2>3 DEF TypeOK
<1>3. /\ \A j \in Conns : j # nconn + 1 => owner'[j] = owner[j] /\ cl'[j] = cl[j]
      /\ owner'[nconn + 1] = c /\ cl'[nconn + 1] = "idle"
    BY <1>1 DEF TypeOK, Connect
<1>4. ASSUME NEW k \in Conns PROVE ConnOK(k)'
  <2>1. CASE k = nconn + 1
    <3>1. cl[k] = "none" /\ req[k] = <<>> /\ rep[k] = <<>> /\ wbuf[k] = <<>> /\ k > serving
        BY <1>1, <2>1 DEF ConnsOK, ConnOK
    <3> QED
        BY <1>1, <1>3, <2>1, <3>1 DEF ConnOK, Stages, HungUp
  <2>2. CASE k # nconn + 1
    <3>1. cl'[k] = cl[k] /\ owner'[k] = owner[k] /\ (k > nconn <=> k > nconn') /\ ConnOK(k)
        BY <1>1, <1>3, <2>2 DEF Conns, ConnsOK
    <3> QED
        BY <1>1, <3>1 DEF ConnOK, Stages, HungUp, Current
  <2> QED
    BY <2>1, <2>2
<1>5. ASSUME NEW j \in Conns, NEW k \in Conns, j < k, k <= nconn', owner'[j] = owner'[k]
      PROVE  PairOK(j, k)'
  <2>1. j # nconn + 1 /\ j \in 1 .. nconn
    BY <1>1, <1>5 DEF Conns
  <2>2. CASE k = nconn + 1
    BY <1>1, <1>3, <1>5, <2>1, <2>2 DEF Connect, ConnsOK, ConnOK, PairOK
  <2>3. CASE k # nconn + 1
    BY <1>1, <1>3, <1>5, <2>1, <2>3 DEF PairsOK, PairOK, Conns
  <2> QED
    BY <2>2, <2>3
<1>6. ServerOK'
  <2>1. link = "up" => owner'[serving] = owner[serving]
    <3>1. link = "up" => serving \in Conns /\ serving # nconn + 1
        BY <1>1, BoundAssumption DEF ServerOK, Conns, TypeOK
    <3> QED
        BY <1>3, <3>1
  <2>2. link \in {"up", "down"}
    BY DEF TypeOK
  <2> QED
    BY <1>1, <2>1, <2>2 DEF ServerOK
<1> QED
    BY <1>1, <1>2, <1>4, <1>5, <1>6 DEF ConnsOK, PairsOK, Conns

\* Connections whose client neither made a call nor changed otherwise keep what holds of
\* them, whatever the other clients did.
LEMMA Untouched ==
    ASSUME Inv, TypeOK', NEW j \in Conns,
           UNCHANGED <<nconn, owner, serving, link, out, ran>>,
           cl'[j] = cl[j], req'[j] = req[j], rep'[j] = rep[j], wbuf'[j] = wbuf[j],
           ncall[owner[j]] <= ncall'[owner[j]],
           cl[j] = "waiting" => ncall'[owner[j]] = ncall[owner[j]]
    PROVE  ConnOK(j)'
<1>1. ConnOK(j)
    BY DEF Inv, ConnsOK
<1>2. ncall[owner[j]] \in Nat /\ ncall'[owner[j]] \in Nat
    BY BoundAssumption DEF Inv, TypeOK
<1>3. req[j] # <<>> => Head(req[j]).n \in Nat
    BY OneMessage, Numbers DEF Inv, TypeOK
<1> QED
    BY <1>1, <1>2, <1>3 DEF ConnOK, Stages, HungUp, Current

LEMMA CallStep ==
    ASSUME Inv, NEW k \in 1 .. nconn, NEW m \in Methods, Call(k, m)
    PROVE  Inv'
<1> USE DEF Inv
<1>1. /\ k \in Conns /\ cl[k] = "idle" /\ req[k] = <<>> /\ rep[k] = <<>> /\ wbuf[k] = <<>>
      /\ ~HungUp(k) /\ (k = serving => out = <<>>) /\ nconn \in Nat /\ owner[k] \in Clients
      /\ ncall[owner[k]] \in Nat /\ ncall[owner[k]] + 1 \in 1 .. MaxCalls
  <2>1. k \in Conns /\ nconn \in Nat
    BY BoundAssumption DEF TypeOK, Conns
  <2>2. owner[k] \in Clients
    BY <2>1 DEF TypeOK
  <2>3. ncall[owner[k]] \in 0 .. MaxCalls /\ ncall[owner[k]] < MaxCalls
    BY <2>2 DEF TypeOK, Call
  <2>4. cl[k] = "idle" /\ ConnOK(k)
    BY <2>1 DEF Call, ConnsOK
  <2> QED
    BY <2>1, <2>2, <2>3, <2>4, BoundAssumption DEF ConnOK
<1>2. NewCall(k, m) \in Calls /\ NewCall(k, m).n = ncall[owner[k]] + 1
    BY <1>1 DEF NewCall, Calls
<1>3. req' = [req EXCEPT ![k] = <<NewCall(k, m)>>]
    BY <1>1, <1>2, Single DEF Call
<1>4. /\ UNCHANGED <<nconn, owner, rep, serving, link, out, ran, returned, raised>>
      /\ cl' = [cl EXCEPT ![k] = "waiting"]
      /\ wbuf' = [wbuf EXCEPT ![k] = <<>>]
      /\ ncall' = [ncall EXCEPT ![owner[k]] = @ + 1]
    BY DEF Call, serverVars
<1>5. <<NewCall(k, m)>> \in Seq(Calls) /\ <<>> \in Seq(Calls)
    BY <1>2, Single
<1>6. TypeOK'
  <2>1. ncall' \in [Clients -> 0 .. MaxCalls]
    BY <1>1, <1>4, BoundAssumption DEF TypeOK
  <2>2. req' \in [Conns -> Seq(Calls)] /\ wbuf' \in [Conns -> Seq(Calls)]
    BY <1>3, <1>4, <1>5 DEF TypeOK
  <2> QED
    BY <1>4, <2>1, <2>2 DEF TypeOK
<1>7. req'[k] = <<NewCall(k, m)>> /\ cl'[k] = "waiting" /\ wbuf'[k] = <<>>
    BY <1>1, <1>3, <1>4 DEF TypeOK
<1>8. \A j \in Conns : j # k => req'[j] = req[j] /\ cl'[j] = cl[j] /\ wbuf'[j] = wbuf[j]
    BY <1>1, <1>3, <1>4 DEF TypeOK
<1>9. \A j \in Conns : /\ owner[j] = owner[k] => ncall'[owner[j]] = ncall[owner[k]] + 1
                       /\ owner[j] # owner[k] => ncall'[owner[j]] = ncall[owner[j]]
                       /\ ncall[owner[j]] \in Nat
    BY <1>1, <1>4, BoundAssumption DEF TypeOK
<1>10. ConnOK(k)'
  <2>1. req'[k] # <<>> /\ Len(req'[k]) = 1 /\ Head(req'[k]).n = ncall'[owner[k]]
    BY <1>1, <1>2, <1>7, <1>9, Single
  <2>2. k <= nconn /\ ~(HungUp(k)')
    BY <1>1, <1>4 DEF HungUp
  <2>3. ncall'[owner[k]] > 0 /\ ncall'[owner[k]] \in Nat
    BY <1>1, <1>9
  <2> QED
    BY <1>1, <1>4, <1>7, <2>1, <2>2, <2>3 DEF ConnOK, Stages
<1>11. ASSUME NEW j \in Conns, j # k PROVE ConnOK(j)'
  <2>1. cl[j] = "waiting" => owner[j] # owner[k]
    <3>1. SUFFICES ASSUME cl[j] = "waiting", owner[j] = owner[k] PROVE FALSE
        OBVIOUS
    <3>2. j <= nconn
        BY <3>1 DEF ConnsOK, ConnOK, Conns, TypeOK
    <3>3. (j < k \/ k < j) /\ k <= nconn
        BY <1>1, <1>11 DEF Conns
    <3>4. (j < k => PairOK(j, k)) /\ (k < j => PairOK(k, j))
        BY <1>1, <3>1, <3>2, <3>3 DEF PairsOK
    <3> QED
        BY <1>1, <3>1, <3>3, <3>4 DEF PairOK
  <2> QED
    BY <1>1, <1>4, <1>6, <1>8, <1>9, <1>11, <2>1, Untouched
<1>12. ASSUME NEW i \in Conns, NEW j \in Conns, i < j, j <= nconn', owner'[i] = owner'[j]
       PROVE  PairOK(i, j)'
  <2>1. PairOK(i, j) /\ owner[i] = owner[j] /\ i # k
    BY <1>1, <1>4, <1>12 DEF PairsOK, PairOK
  <2>2. req[i] # <<>> => Head(req[i]).n \in Nat /\ Head(req[i]).n <= ncall[owner[i]]
    BY OneMessage, Numbers DEF TypeOK, ConnsOK, ConnOK
  <2>3. CASE j = k
    <3>1. Head(req'[k]).n = ncall[owner[k]] + 1
        BY <1>1, <1>2, <1>7, Single
    <3> QED
        BY <1>1, <1>4, <1>8, <1>9, <2>1, <2>2, <2>3, <3>1 DEF PairOK
  <2>4. CASE j # k
    BY <1>1, <1>4, <1>8, <1>9, <2>1, <2>2, <2>4 DEF PairOK
  <2> QED
    BY <2>3, <2>4
<1>13. ServerOK'
    BY <1>4 DEF ServerOK
<1> QED
    BY <1>6, <1>10, <1>11, <1>12, <1>13 DEF ConnsOK, PairsOK, Conns

LEMMA CallFailsStep ==
    ASSUME Inv, NEW k \in 1 .. nconn, NEW m \in Methods, CallFails(k, m)
    PROVE  Inv'
<1> USE DEF Inv
<1>1. /\ k \in Conns /\ cl[k] = "idle" /\ ConnOK(k) /\ nconn \in Nat /\ owner[k] \in Clients
      /\ ncall[owner[k]] \in Nat /\ ncall[owner[k]] + 1 \in 1 .. MaxCalls
  <2>1. k \in Conns /\ nconn \in Nat
    BY BoundAssumption DEF TypeOK, Conns
  <2>2. owner[k] \in Clients
    BY <2>1 DEF TypeOK
  <2>3. ncall[owner[k]] \in 0 .. MaxCalls /\ ncall[owner[k]] < MaxCalls
    BY <2>2 DEF TypeOK, CallFails
  <2> QED
    BY <2>1, <2>2, <2>3, BoundAssumption DEF CallFails, ConnsOK
<1>2. NewCall(k, m) \in Calls
    BY <1>1 DEF NewCall, Calls
<1>3. /\ UNCHANGED <<nconn, owner, req, rep, serving, link, out, ran, returned>>
      /\ cl' = [cl EXCEPT ![k] = "failed"]
      /\ wbuf' = [wbuf EXCEPT ![k] = Append(@, NewCall(k, m))]
      /\ ncall' = [ncall EXCEPT ![owner[k]] = @ + 1]
      /\ raised' = raised \cup {<<owner[k], ncall[owner[k]] + 1>>}
    BY DEF CallFails, serverVars
<1>4. TypeOK'
  <2>1. ncall' \in [Clients -> 0 .. MaxCalls]
    BY <1>1, <1>3, BoundAssumption DEF TypeOK
  <2>2. Append(wbuf[k], NewCall(k, m)) \in Seq(Calls)
    BY <1>1, <1>2 DEF TypeOK
  <2>3. wbuf' \in [Conns -> Seq(Calls)]
    BY <1>3, <2>2 DEF TypeOK
  <2>4. raised' \subseteq Ids
    BY <1>1, <1>3 DEF TypeOK, Ids
  <2> QED
    BY <1>3, <2>1, <2>3, <2>4 DEF TypeOK
<1>5. \A j \in Conns : j # k => cl'[j] = cl[j] /\ wbuf'[j] = wbuf[j]
    BY <1>1, <1>3 DEF TypeOK
<1>6. \A j \in Conns : /\ owner[j] = owner[k] => ncall'[owner[j]] = ncall[owner[k]] + 1
                       /\ owner[j] # owner[k] => ncall'[owner[j]] = ncall[owner[j]]
                       /\ ncall[owner[j]] \in Nat
    BY <1>1, <1>3, BoundAssumption DEF TypeOK
<1>7. ConnOK(k)'
  <2>1. cl'[k] = "failed"
    BY <1>1, <1>3 DEF TypeOK
  <2> QED
    BY <1>1, <1>3, <2>1 DEF ConnOK, HungUp
<1>8. ASSUME NEW j \in Conns, j # k PROVE ConnOK(j)'
  <2>1. cl[j] = "waiting" => owner[j] # owner[k]
    <3>1. SUFFICES ASSUME cl[j] = "waiting", owner[j] = owner[k] PROVE FALSE
        OBVIOUS
    <3>2. j <= nconn
        BY <3>1 DEF ConnsOK, ConnOK, Conns, TypeOK
    <3>3. (j < k \/ k < j) /\ k <= nconn
        BY <1>1, <1>8 DEF Conns
    <3>4. (j < k => PairOK(j, k)) /\ (k < j => PairOK(k, j))
        BY <1>1, <3>1, <3>2, <3>3 DEF PairsOK
    <3> QED
        BY <1>1, <3>1, <3>3, <3>4 DEF PairOK
  <2> QED
    BY <1>1, <1>3, <1>4, <1>5, <1>6, <1>8, <2>1, Untouched
<1>9. ASSUME NEW i \in Conns, NEW j \in Conns, i < j, j <= nconn', owner'[i] = owner'[j]
      PROVE  PairOK(i, j)'
  <2>1. PairOK(i, j) /\ owner[i] = owner[j] /\ i # k
    BY <1>1, <1>3, <1>9 DEF PairsOK, PairOK
  <2>2. req[i] # <<>> => Head(req[i]).n \in Nat
    BY OneMessage, Numbers DEF TypeOK
  <2>3. cl'[j] = "waiting" => cl[j] = "waiting"
    BY <1>1, <1>3, <1>5 DEF TypeOK
  <2> QED
    BY <1>3, <1>5, <1>6, <2>1, <2>2, <2>3 DEF PairOK
<1>10. ServerOK'
    BY <1>3 DEF ServerOK
<1> QED
    BY <1>4, <1>7, <1>8, <1>9, <1>10 DEF ConnsOK, PairsOK, Conns

\* The steps of a client that make no call: they touch one connection, and only take from it.
LEMMA EndStep ==
    ASSUME Inv, NEW k \in 1 .. nconn,
           Receive(k) \/ ReceiveEof(k) \/ Close(k) \/ Interrupt(k)
    PROVE  Inv'
<1> USE DEF Inv
<1>1. k \in Conns /\ ConnOK(k) /\ nconn \in Nat
    BY BoundAssumption DEF TypeOK, Conns, ConnsOK
<1>2. cl[k] = "waiting" => Current(k) \in Ids
    BY <1>1, BoundAssumption DEF Current, Ids, ConnOK, TypeOK
<1>3. /\ UNCHANGED <<nconn, owner, ncall, req, serving, link, out, ran>>
      /\ \E x \in {"idle", "failed", "closed"} : cl' = [cl EXCEPT ![k] = x]
      /\ wbuf' = wbuf \/ wbuf' = [wbuf EXCEPT ![k] = <<>>]
      /\ rep' = rep \/ (rep[k] # <<>> /\ rep' = [rep EXCEPT ![k] = Tail(@)])
      /\ returned' = returned \/ (cl[k] = "waiting" /\ returned' = returned \cup {Current(k)})
      /\ raised' = raised \/ (cl[k] = "waiting" /\ raised' = raised \cup {Current(k)})
    BY DEF Receive, ReceiveEof, Close, Interrupt, serverVars
<1>4. TypeOK'
  <2>1. rep' \in [Conns -> Seq(Replies)]
    <3>1. rep[k] \in Seq(Replies)
        BY <1>1 DEF TypeOK
    <3>2. rep[k] # <<>> => Tail(rep[k]) \in Seq(Replies)
        BY <3>1, OneMessage
    <3> QED
        BY <1>3, <3>2 DEF TypeOK
  <2>2. wbuf' \in [Conns -> Seq(Calls)]
    <3>1. <<>> \in Seq(Calls)
        BY EmptySeq
    <3> QED
        BY <1>3, <3>1 DEF TypeOK
  <2>3. cl' \in [Conns -> {"none", "idle", "waiting", "failed", "closed"}]
    BY <1>3 DEF TypeOK
  <2>4. returned' \subseteq Ids /\ raised' \subseteq Ids
    BY <1>2, <1>3 DEF TypeOK
  <2> QED
    BY <1>3, <2>1, <2>2, <2>3, <2>4 DEF TypeOK
<1>5. /\ \A j \in Conns : j # k => cl'[j] = cl[j] /\ wbuf'[j] = wbuf[j] /\ rep'[j] = rep[j]
      /\ cl'[k] \in {"idle", "failed", "closed"}
    BY <1>1, <1>3 DEF TypeOK
<1>6. ConnOK(k)'
  <2>1. CASE Close(k)
    <3>1. cl'[k] = "closed" /\ rep' = rep
        BY <1>1, <2>1 DEF Close, TypeOK
    <3> QED
        BY <1>1, <1>3, <2>1, <3>1 DEF ConnOK, HungUp, Close
  <2>2. CASE Interrupt(k)
    <3>1. cl'[k] = "closed" /\ rep' = rep
        BY <1>1, <2>2 DEF Interrupt, TypeOK
    <3> QED
        BY <1>1, <1>3, <2>2, <3>1 DEF ConnOK, HungUp, Interrupt
  <2>3. CASE ReceiveEof(k)
    <3>1. cl'[k] = "failed" /\ rep' = rep /\ wbuf' = wbuf /\ rep[k] = <<>> /\ req[k] = <<>>
        BY <1>1, <2>3 DEF ReceiveEof, TypeOK, ConnOK
    <3>2. k = serving => out = <<>>
        BY <1>1, <2>3 DEF ReceiveEof, HungUp, ServerOK, TypeOK
    <3> QED
        BY <1>1, <1>3, <2>3, <3>1, <3>2 DEF ConnOK, HungUp, ReceiveEof
  <2>4. CASE Receive(k)
    <3>1. /\ req[k] = <<>> /\ k = serving /\ link = "up" /\ out = <<>>
          /\ Len(rep[k]) = 1 /\ rep[k] # <<>> /\ wbuf[k] = <<>> /\ wbuf' = wbuf
        BY <1>1, <2>4 DEF ConnOK, Stages, Receive
    <3>2. rep'[k] = Tail(rep[k]) /\ rep[k] \in Seq(Replies)
        BY <1>1, <2>4 DEF Receive, TypeOK
    <3>3. rep'[k] = <<>>
        BY <3>1, <3>2, OneMessage
    <3>4. k <= nconn /\ k <= serving /\ ~(HungUp(k)')
        BY <1>1, <1>3, <3>1 DEF HungUp, TypeOK
    <3> QED
        BY <1>1, <1>3, <1>5, <3>1, <3>3, <3>4 DEF ConnOK
  <2> QED
    BY <2>1, <2>2, <2>3, <2>4
<1>7. ASSUME NEW j \in Conns, j # k PROVE ConnOK(j)'
    BY <1>3, <1>4, <1>5, <1>7, Untouched, BoundAssumption DEF TypeOK
<1>8. ASSUME NEW i \in Conns, NEW j \in Conns, i < j, j <= nconn', owner'[i] = owner'[j]
      PROVE  PairOK(i, j)'
  <2>1. PairOK(i, j) /\ owner[i] = owner[j]
    BY <1>3, <1>8 DEF PairsOK
  <2>2. cl[k] # "closed"
    BY DEF Receive, ReceiveEof, Close, Interrupt
  <2> QED
    BY <1>3, <1>5, <2>1, <2>2 DEF PairOK
<1>9. ServerOK'
    BY <1>3 DEF ServerOK
<1> QED
    BY <1>4, <1>6, <1>7, <1>8, <1>9 DEF ConnsOK, PairsOK, Conns

----------------------------------------------------------------------------
(* Every step of the server preserves it.                                  *)

LEMMA AcceptStep ==
    ASSUME Inv, Accept
    PROVE  Inv'
<1> USE DEF Inv
<1>1. /\ UNCHANGED <<nconn, owner, cl, ncall, wbuf, returned, raised, req, rep, out, ran>>
      /\ link = "down" /\ link' = "up" /\ out = <<>>
      /\ serving' = serving + 1 /\ serving \in Nat /\ serving' \in 0 .. nconn
    BY BoundAssumption DEF Accept, clientVars, TypeOK, ServerOK
<1>2. TypeOK'
    BY <1>1 DEF TypeOK
<1>3. ASSUME NEW j \in Conns PROVE ConnOK(j)'
  <2>1. HungUp(j)' <=> HungUp(j)
    BY <1>1 DEF HungUp, Conns
  <2>2. ConnOK(j) /\ (j > serving' => j > serving)
    BY <1>1 DEF ConnsOK, Conns
  <2>3. cl[j] = "waiting" => Stages(j)'
    BY <1>1, <2>1, <2>2 DEF ConnOK, Stages
  <2> QED
    BY <1>1, <2>1, <2>2, <2>3 DEF ConnOK
<1>4. PairsOK'
    BY <1>1 DEF PairsOK, PairOK
<1>5. ServerOK'
    BY <1>1 DEF ServerOK
<1> QED
    BY <1>2, <1>3, <1>4, <1>5 DEF ConnsOK, Conns

\* The connections that the server does not serve keep what holds of them, and so do all
\* pairs when the server only takes messages.
LEMMA NotServed ==
    ASSUME Inv, NEW j \in Conns, j # serving,
           UNCHANGED <<nconn, owner, cl, ncall, wbuf, serving>>,
           req'[j] = req[j], rep'[j] = rep[j], ran \subseteq ran'
    PROVE  ConnOK(j)'
<1>1. ConnOK(j)
    BY DEF Inv, ConnsOK
<1> QED
    BY <1>1 DEF ConnOK, Stages, HungUp, Current

LEMMA PairsTaken ==
    ASSUME Inv, UNCHANGED <<nconn, owner, cl, ncall>>,
           \A j \in Conns : req'[j] = req[j] \/ req'[j] = <<>>
    PROVE  PairsOK'
BY DEF Inv, PairsOK, PairOK, Conns

\* process() takes the one message of the connection.
LEMMA Taken ==
    ASSUME Inv, Reading, req' = [req EXCEPT ![serving] = Tail(@)]
    PROVE  /\ serving \in Conns /\ ConnOK(serving) /\ link = "up" /\ out = <<>>
           /\ serving <= nconn /\ nconn \in Nat
           /\ req[serving] # <<>> /\ req'[serving] = <<>>
           /\ \A j \in Conns : j # serving => req'[j] = req[j]
           /\ req' \in [Conns -> Seq(Calls)]
           /\ Message \in Calls
           /\ <<owner[serving], Message.n>> \in Ids
<1>1. /\ serving \in Conns /\ link = "up" /\ out = <<>> /\ req[serving] # <<>>
      /\ serving <= nconn /\ nconn \in Nat
    BY BoundAssumption DEF Inv, Reading, ServerOK, TypeOK, Conns
<1>2. ConnOK(serving) /\ req[serving] \in Seq(Calls) /\ owner[serving] \in Clients
    BY <1>1 DEF Inv, ConnsOK, TypeOK
<1>3. Len(req[serving]) = 1
    BY <1>1, <1>2 DEF ConnOK
<1>4. Message \in Calls /\ Tail(req[serving]) = <<>> /\ <<>> \in Seq(Calls)
    BY <1>1, <1>2, <1>3, OneMessage, EmptySeq DEF Message
<1>5. <<owner[serving], Message.n>> \in Ids
    BY <1>2, <1>4, Numbers DEF Ids
<1>6. /\ req'[serving] = <<>> /\ req' \in [Conns -> Seq(Calls)]
      /\ \A j \in Conns : j # serving => req'[j] = req[j]
    BY <1>1, <1>4 DEF Inv, TypeOK
<1> QED
    BY <1>1, <1>2, <1>4, <1>5, <1>6

\* process() that puts a reply into the buffer.
LEMMA AnswerStep ==
    ASSUME Inv, RefuseUnknown \/ \E kind \in {"value", "none"} : HandlerReturns(kind)
    PROVE  Inv'
<1> USE DEF Inv
<1>1. PICK kind \in {"value", "none", "exception"} :
        /\ out' = <<[n |-> Message.n, kind |-> kind]>>
        /\ ran' = ran \/ ran' = ran \cup {<<owner[serving], Message.n>>}
        /\ kind = "value" => <<owner[serving], Message.n>> \in ran'
    BY DEF RefuseUnknown, HandlerReturns
<1>2. /\ UNCHANGED <<nconn, owner, cl, ncall, wbuf, returned, raised, rep, serving, link>>
      /\ Reading /\ req' = [req EXCEPT ![serving] = Tail(@)]
    BY DEF RefuseUnknown, HandlerReturns, clientVars
<1>3. /\ serving \in Conns /\ ConnOK(serving) /\ link = "up" /\ out = <<>>
      /\ serving <= nconn /\ nconn \in Nat
      /\ req[serving] # <<>> /\ req'[serving] = <<>>
      /\ \A j \in Conns : j # serving => req'[j] = req[j]
      /\ req' \in [Conns -> Seq(Calls)]
      /\ Message \in Calls
      /\ <<owner[serving], Message.n>> \in Ids
    BY <1>2, Taken
<1>4. /\ [n |-> Message.n, kind |-> kind] \in Replies
      /\ ran \subseteq ran' /\ ran' \subseteq Ids
    BY <1>1, <1>3, Numbers DEF Replies, TypeOK
<1>5. /\ out' \in Seq(Replies) /\ out' # <<>> /\ Len(out') = 1
      /\ Head(out').n = Message.n /\ Head(out').kind = kind
    BY <1>1, <1>4, Single
<1>6. TypeOK'
    BY <1>2, <1>3, <1>4, <1>5 DEF TypeOK
<1>7. ConnOK(serving)'
  <2>1. ~HungUp(serving) /\ ~(HungUp(serving)')
    BY <1>2, <1>3 DEF HungUp, Conns, TypeOK
  <2>2. cl[serving] \notin {"idle", "failed", "none"}
    BY <1>3 DEF ConnOK, TypeOK
  <2>3. cl[serving] = "waiting" => rep[serving] = <<>> /\ Message.n = ncall[owner[serving]]
    BY <1>3, <2>1 DEF ConnOK, Stages, Message
  <2> QED
    BY <1>2, <1>3, <1>5, <2>1, <2>2, <2>3 DEF ConnOK, Stages
<1>8. ASSUME NEW j \in Conns, j # serving PROVE ConnOK(j)'
    BY <1>2, <1>3, <1>4, <1>8, NotServed
<1>9. PairsOK'
    BY <1>2, <1>3, PairsTaken
<1>10. ServerOK'
    BY <1>1, <1>2, <1>3, <1>5 DEF ServerOK
<1> QED
    BY <1>2, <1>6, <1>7, <1>8, <1>9, <1>10 DEF ConnsOK, Conns

\* process() that ends the connection.
LEMMA RaiseStep ==
    ASSUME Inv, RaiseUnhandled \/ HandlerRaises
    PROVE  Inv'
<1> USE DEF Inv
<1>1. /\ UNCHANGED <<nconn, owner, cl, ncall, wbuf, returned, raised, rep, serving, out>>
      /\ Reading /\ req' = [req EXCEPT ![serving] = Tail(@)] /\ link' = "down"
      /\ ran' = ran \/ ran' = ran \cup {<<owner[serving], Message.n>>}
    BY DEF RaiseUnhandled, HandlerRaises, clientVars
<1>2. /\ serving \in Conns /\ ConnOK(serving) /\ link = "up" /\ out = <<>>
      /\ serving <= nconn /\ nconn \in Nat
      /\ req[serving] # <<>> /\ req'[serving] = <<>>
      /\ \A j \in Conns : j # serving => req'[j] = req[j]
      /\ req' \in [Conns -> Seq(Calls)]
      /\ <<owner[serving], Message.n>> \in Ids
    BY <1>1, Taken
<1>3. ran \subseteq ran' /\ ran' \subseteq Ids
    BY <1>1, <1>2 DEF TypeOK
<1>4. TypeOK'
    BY <1>1, <1>2, <1>3 DEF TypeOK
<1>5. ConnOK(serving)'
  <2>1. ~HungUp(serving) /\ HungUp(serving)'
    BY <1>1, <1>2 DEF HungUp, Conns, TypeOK
  <2>2. cl[serving] \notin {"idle", "failed", "none"}
    BY <1>2 DEF ConnOK, TypeOK
  <2>3. cl[serving] = "waiting" => rep[serving] = <<>>
    BY <1>2, <2>1 DEF ConnOK, Stages
  <2> QED
    BY <1>1, <1>2, <2>1, <2>2, <2>3 DEF ConnOK, Stages
<1>6. ASSUME NEW j \in Conns, j # serving PROVE ConnOK(j)'
    BY <1>1, <1>2, <1>3, <1>6, NotServed
<1>7. PairsOK'
    BY <1>1, <1>2, PairsTaken
<1>8. ServerOK'
    BY <1>1, <1>2 DEF ServerOK
<1> QED
    BY <1>1, <1>4, <1>5, <1>6, <1>7, <1>8 DEF ConnsOK, Conns

LEMMA FlushStep ==
    ASSUME Inv, Flush
    PROVE  Inv'
<1> USE DEF Inv
<1>1. /\ UNCHANGED <<nconn, owner, cl, ncall, wbuf, returned, raised, req, serving, link, ran>>
      /\ link = "up" /\ out # <<>> /\ out' = <<>>
      /\ rep' = [rep EXCEPT ![serving] = @ \o out]
    BY DEF Flush, clientVars
<1>2. /\ serving \in Conns /\ ConnOK(serving) /\ serving <= nconn /\ nconn \in Nat
      /\ rep[serving] \in Seq(Replies) /\ out \in Seq(Replies) /\ Len(out) = 1
    BY <1>1, BoundAssumption DEF ServerOK, TypeOK, Conns, ConnsOK
<1>3. rep[serving] \o out \in Seq(Replies) /\ <<>> \in Seq(Replies)
    BY <1>2, ConcatProperties, EmptySeq
<1>4. TypeOK'
    BY <1>1, <1>3 DEF TypeOK
<1>5. \A j \in Conns : rep'[j] = IF j = serving THEN rep[serving] \o out ELSE rep[j]
    BY <1>1 DEF TypeOK
<1>6. ConnOK(serving)'
  <2>1. ~HungUp(serving) /\ ~(HungUp(serving)') /\ ~(serving > serving)
    BY <1>1, <1>2 DEF HungUp, Conns, TypeOK
  <2>2. cl[serving] \notin {"idle", "failed", "none"} /\ req[serving] = <<>>
    BY <1>1, <1>2 DEF ConnOK, TypeOK
  <2>3. CASE cl[serving] = "waiting"
    <3>1. rep[serving] = <<>> /\ Head(out).n = ncall[owner[serving]]
        BY <1>1, <1>2, <2>1, <2>2, <2>3 DEF ConnOK, Stages
    <3>2. rep'[serving] = out
        BY <1>2, <1>5, <3>1, AfterNothing
    <3>3. Head(out).kind = "value" => Current(serving) \in ran
        BY <1>1, <3>1 DEF ServerOK, Current
    <3>4. Stages(serving)'
        BY <1>1, <1>2, <2>2, <3>1, <3>2, <3>3 DEF Stages, Current
    <3> QED
        BY <1>1, <1>2, <2>1, <2>2, <2>3, <3>4 DEF ConnOK
  <2>4. CASE cl[serving] # "waiting"
    BY <1>1, <1>2, <2>1, <2>2, <2>4 DEF ConnOK, TypeOK
  <2> QED
    BY <2>3, <2>4
<1>7. ASSUME NEW j \in Conns, j # serving PROVE ConnOK(j)'
    BY <1>1, <1>5, <1>7, NotServed
<1>8. PairsOK'
    BY <1>1, PairsTaken
<1>9. ServerOK'
    BY <1>1 DEF ServerOK
<1> QED
    BY <1>1, <1>4, <1>6, <1>7, <1>8, <1>9 DEF ConnsOK, Conns

\* The server closes a connection that its client has closed.
LEMMA DropStep ==
    ASSUME Inv, FlushFails \/ HangUp
    PROVE  Inv'
<1> USE DEF Inv
<1>1. /\ UNCHANGED <<nconn, owner, cl, ncall, wbuf, returned, raised, req, rep, serving, ran>>
      /\ link = "up" /\ link' = "down" /\ out' = <<>>
      /\ cl[serving] = "closed"
      /\ out # <<>> \/ req[serving] = <<>>
    BY DEF FlushFails, HangUp, clientVars
<1>2. serving \in Conns /\ ConnOK(serving) /\ serving <= nconn /\ nconn \in Nat
    BY <1>1, BoundAssumption DEF ServerOK, TypeOK, Conns, ConnsOK
<1>3. TypeOK'
  <2>1. <<>> \in Seq(Replies)
    BY EmptySeq
  <2> QED
    BY <1>1, <2>1 DEF TypeOK
<1>4. ConnOK(serving)'
  <2>1. req[serving] = <<>>
    BY <1>1, <1>2 DEF ConnOK
  <2> QED
    BY <1>1, <1>2, <2>1 DEF ConnOK
<1>5. ASSUME NEW j \in Conns, j # serving PROVE ConnOK(j)'
    BY <1>1, <1>5, NotServed
<1>6. PairsOK'
    BY <1>1, PairsTaken
<1>7. ServerOK'
    BY <1>1 DEF ServerOK
<1> QED
    BY <1>1, <1>3, <1>4, <1>5, <1>6, <1>7 DEF ConnsOK, Conns

LEMMA InvNext == Inv /\ [Next]_vars => Inv'
<1> SUFFICES ASSUME Inv, [Next]_vars PROVE Inv'
    OBVIOUS
<1>1. ASSUME NEW c \in Clients, Connect(c) PROVE Inv'
    BY <1>1, ConnectStep
<1>2. ASSUME NEW k \in 1 .. nconn, NEW m \in Methods, Call(k, m) PROVE Inv'
    BY <1>2, CallStep
<1>3. ASSUME NEW k \in 1 .. nconn, NEW m \in Methods, CallFails(k, m) PROVE Inv'
    BY <1>3, CallFailsStep
<1>4. ASSUME NEW k \in 1 .. nconn, Receive(k) \/ ReceiveEof(k) \/ Close(k) \/ Interrupt(k)
      PROVE  Inv'
    BY <1>4, EndStep
<1>5. CASE Serve
    BY <1>5, AcceptStep, AnswerStep, RaiseStep, FlushStep, DropStep DEF Serve
<1>6. CASE UNCHANGED vars
    BY <1>6 DEF vars, Inv, TypeOK, ConnsOK, ConnOK, Stages, HungUp, Current, PairsOK, PairOK,
                ServerOK
<1> QED
    BY <1>1, <1>2, <1>3, <1>4, <1>5, <1>6 DEF Next

LEMMA InvAlways == Spec => []Inv
BY InvInit, InvNext, PTL DEF Spec

(* Every variable keeps its type in every reachable state: in particular the *)
(* server accepts no connection before it is made.                           *)
THEOREM TypeCorrect == Spec => []TypeOK
<1>1. Inv => TypeOK
    BY DEF Inv
<1> QED
    BY <1>1, InvAlways, PTL

(* A stub reads the reply to its own call, although neither recv_X() nor     *)
(* process() compares names or sequence numbers.                             *)
THEOREM ReplyCorrect == Spec => []ReplyMatchesCall
<1>1. Inv => ReplyMatchesCall
  <2>1. SUFFICES ASSUME Inv, NEW k \in 1 .. nconn, cl[k] = "waiting", rep[k] # <<>>
                 PROVE  Head(rep[k]).n = ncall[owner[k]]
    BY DEF ReplyMatchesCall
  <2>2. k \in Conns
    BY <2>1, BoundAssumption DEF Inv, TypeOK, Conns
  <2> QED
    BY <2>1, <2>2 DEF Inv, ConnsOK, ConnOK, Stages
<1> QED
    BY <1>1, InvAlways, PTL

----------------------------------------------------------------------------
(* Refinement of AtomicRpc.                                                *)

\* What is due, and what is open, in terms of single messages and connections.
DueIs ==
    \A id : id \in Due <=> \E k \in Conns : req[k] # <<>> /\ id = <<owner[k], Head(req[k]).n>>

OpenIs == \A id : id \in Open <=> \E k \in Conns : cl[k] = "waiting" /\ id = Current(k)

LEMMA InDue == Inv => DueIs
<1> SUFFICES ASSUME Inv, NEW id
             PROVE  id \in Due <=> \E k \in Conns : /\ req[k] # <<>>
                                                    /\ id = <<owner[k], Head(req[k]).n>>
    BY DEF DueIs
<1>1. ASSUME NEW k \in Conns
      PROVE  /\ req[k] \in Seq(Calls) /\ owner[k] \in Clients
             /\ req[k] # <<>> => /\ DOMAIN req[k] = {1} /\ req[k][1] = Head(req[k])
                                 /\ Head(req[k]).n \in 1 .. MaxCalls
             /\ req[k] = <<>> => DOMAIN req[k] = {}
  <2>1. req[k] \in Seq(Calls) /\ owner[k] \in Clients /\ (req[k] # <<>> => Len(req[k]) = 1)
    BY <1>1 DEF Inv, TypeOK, ConnsOK, ConnOK
  <2>2. ASSUME req[k] # <<>>
        PROVE  DOMAIN req[k] = {1} /\ req[k][1] = Head(req[k]) /\ Head(req[k]) \in Calls
    BY <2>1, <2>2, OneMessage
  <2>3. ASSUME req[k] = <<>> PROVE DOMAIN req[k] = {}
    BY <2>3
  <2> QED
    BY <2>1, <2>2, <2>3, Numbers
<1>2. ASSUME id \in Due
      PROVE  \E k \in Conns : req[k] # <<>> /\ id = <<owner[k], Head(req[k]).n>>
  <2>1. PICK k \in Conns : \E i \in DOMAIN req[k] : id = <<owner[k], req[k][i].n>>
    BY <1>2 DEF Due
  <2> QED
    BY <1>1, <2>1
<1>3. ASSUME NEW k \in Conns, req[k] # <<>>, id = <<owner[k], Head(req[k]).n>>
      PROVE  id \in Due
  <2>1. id \in Ids
    BY <1>1, <1>3 DEF Ids
  <2>2. 1 \in DOMAIN req[k] /\ req[k][1] = Head(req[k])
    BY <1>1, <1>3
  <2> QED
    BY <1>3, <2>1, <2>2 DEF Due
<1> QED
    BY <1>2, <1>3

LEMMA InOpen == Inv => OpenIs
<1> SUFFICES ASSUME Inv PROVE OpenIs
    OBVIOUS
<1>1. \A k \in Conns : cl[k] = "waiting" => k \in 1 .. nconn
    BY BoundAssumption DEF Inv, ConnsOK, ConnOK, TypeOK, Conns
<1>2. \A k \in 1 .. nconn : k \in Conns
    BY BoundAssumption DEF Inv, TypeOK, Conns
<1> QED
    BY <1>1, <1>2 DEF OpenIs, Open

LEMMA InNext == Inv' => DueIs' /\ OpenIs'
BY InDue, InOpen, PTL

\* A client uses one connection at a time, and the others are older.
LEMMA OneOfClient ==
    ASSUME Inv, NEW k \in Conns, cl[k] \in {"idle", "waiting", "failed"},
           NEW j \in Conns, j # k, owner[j] = owner[k], j <= nconn
    PROVE  j < k /\ cl[j] = "closed" /\ PairOK(j, k)
<1>1. k <= nconn
  <2>1. ConnOK(k) /\ nconn \in Nat /\ k \in Nat
    BY BoundAssumption DEF Inv, ConnsOK, TypeOK, Conns
  <2>2. ~(k > nconn)
    BY <2>1 DEF ConnOK
  <2> QED
    BY <2>1, <2>2
<1>2. j < k \/ k < j
    BY DEF Conns
<1>3. (j < k => PairOK(j, k)) /\ (k < j => PairOK(k, j))
    BY <1>1 DEF Inv, PairsOK
<1> QED
    BY <1>2, <1>3 DEF PairOK

\* A step that leaves the abstract state alone.
LEMMA Stutters ==
    ASSUME Inv, Inv', UNCHANGED <<ncall, ran, returned, raised>>,
           \A k \in Conns : /\ req'[k] = req[k]
                            /\ cl'[k] = "waiting" <=> cl[k] = "waiting"
                            /\ req[k] # <<>> \/ cl[k] = "waiting" => owner'[k] = owner[k]
    PROVE  UNCHANGED Abstract!vars
<1>1. DueIs /\ DueIs' /\ OpenIs /\ OpenIs'
    BY InDue, InOpen, InNext
<1>2. ASSUME NEW id PROVE id \in Due' <=> id \in Due
    BY <1>1 DEF DueIs
<1>3. ASSUME NEW id PROVE id \in Open' <=> id \in Open
    BY <1>1 DEF OpenIs, Current
<1>4. Due' = Due
  <2>1. Due' \subseteq Ids /\ Due \subseteq Ids
    BY DEF Due
  <2> QED
    BY <1>2, <2>1
<1>5. Open' = Open
    BY <1>3 DEF Open
<1> QED
    BY <1>4, <1>5 DEF Abstract!vars

\* A connection with a message, or whose client waits, has been made.
LEMMA Made ==
    ASSUME Inv, NEW k \in Conns, req[k] # <<>> \/ cl[k] = "waiting"
    PROVE  /\ k <= nconn /\ k \in Nat /\ nconn \in Nat
           /\ owner[k] \in Clients /\ ncall[owner[k]] \in Nat
           /\ req[k] # <<>> => Head(req[k]).n \in Nat /\ Head(req[k]).n <= ncall[owner[k]]
<1>1. ConnOK(k) /\ nconn \in Nat /\ k \in Nat /\ owner[k] \in Clients /\ ncall[owner[k]] \in Nat
    BY BoundAssumption DEF Inv, ConnsOK, TypeOK, Conns
<1>2. ~(k > nconn)
    BY <1>1 DEF ConnOK
<1>3. req[k] # <<>> => Head(req[k]).n \in Nat
    BY OneMessage, Numbers DEF Inv, TypeOK
<1> QED
    BY <1>1, <1>2, <1>3 DEF ConnOK

\* The caller that makes a call waits for no other one.
LEMMA FreeToCall ==
    ASSUME Inv, NEW k \in Conns, cl[k] = "idle"
    PROVE  /\ \A j \in Conns : cl[j] = "waiting" => owner[j] # owner[k] /\ j # k
           /\ \A i \in Open : i[1] # owner[k]
<1>1. ASSUME NEW j \in Conns, cl[j] = "waiting", owner[j] = owner[k] PROVE FALSE
  <2>1. j <= nconn /\ j # k
    BY <1>1, Made
  <2>2. cl[j] = "closed"
    BY <1>1, <2>1, OneOfClient
  <2> QED
    BY <1>1, <2>2
<1>2. OpenIs
    BY InOpen
<1>3. ASSUME NEW i \in Open PROVE i[1] # owner[k]
  <2>1. PICK j \in Conns : cl[j] = "waiting" /\ i = Current(j)
    BY <1>2, <1>3 DEF OpenIs
  <2> QED
    BY <1>1, <2>1 DEF Current
<1> QED
    BY <1>1, <1>3

LEMMA CallMaps ==
    ASSUME Inv, Inv', NEW k \in 1 .. nconn, NEW m \in Methods, Call(k, m)
    PROVE  Abstract!Invoke(owner[k])
<1> DEFINE new == <<owner[k], ncall[owner[k]] + 1>>
<1>1. /\ k \in Conns /\ cl[k] = "idle" /\ owner[k] \in Clients /\ ncall[owner[k]] \in Nat
      /\ ConnOK(k)
    BY BoundAssumption DEF Inv, TypeOK, Conns, Call, ConnsOK
<1>2. NewCall(k, m).n = ncall[owner[k]] + 1 /\ req[k] = <<>> /\ wbuf[k] = <<>>
    BY <1>1 DEF NewCall, ConnOK
<1>3. /\ UNCHANGED <<owner, ran, returned, raised>>
      /\ cl' = [cl EXCEPT ![k] = "waiting"]
      /\ ncall' = [ncall EXCEPT ![owner[k]] = @ + 1]
      /\ req' = [req EXCEPT ![k] = <<NewCall(k, m)>>]
  <2>1. <<>> \o <<>> \o <<NewCall(k, m)>> = <<NewCall(k, m)>>
    BY Single
  <2> QED
    BY <1>2, <2>1 DEF Call, serverVars
<1>4. /\ req'[k] # <<>> /\ Head(req'[k]).n = ncall[owner[k]] + 1
      /\ cl'[k] = "waiting" /\ Current(k)' = new
      /\ \A j \in Conns : j # k => req'[j] = req[j] /\ cl'[j] = cl[j]
    BY <1>1, <1>2, <1>3 DEF Inv, TypeOK, Current
<1>5. \A j \in Conns : cl[j] = "waiting" => j # k /\ Current(j)' = Current(j)
  <2>1. ASSUME NEW j \in Conns, cl[j] = "waiting" PROVE j # k /\ Current(j)' = Current(j)
    <3>1. owner[j] # owner[k] /\ j # k /\ owner[j] \in Clients
        BY <1>1, <2>1, FreeToCall DEF Inv, TypeOK
    <3> QED
        BY <1>1, <1>3, <3>1 DEF Current, Inv, TypeOK
  <2> QED
    BY <2>1
<1>6. DueIs /\ DueIs' /\ OpenIs /\ OpenIs'
    BY InDue, InOpen, InNext
<1>7. Due' = Due \cup {new}
  <2>1. /\ <<owner'[k], Head(req'[k]).n>> = new
        /\ req[k] = <<>> /\ req'[k] # <<>> /\ owner' = owner
    BY <1>2, <1>3, <1>4
  <2> HIDE DEF new
  <2>2. ASSUME NEW id \in Due' PROVE id \in Due \cup {new}
    <3>1. PICK j \in Conns : req'[j] # <<>> /\ id = <<owner'[j], Head(req'[j]).n>>
        BY <1>6, <2>2 DEF DueIs
    <3>2. CASE j = k
        BY <2>1, <3>1, <3>2
    <3>3. CASE j # k
        BY <1>4, <1>6, <2>1, <3>1, <3>3 DEF DueIs
    <3> QED
        BY <3>2, <3>3
  <2>3. new \in Due'
    BY <1>1, <1>6, <2>1 DEF DueIs
  <2>4. ASSUME NEW id \in Due PROVE id \in Due'
    <3>1. PICK j \in Conns : req[j] # <<>> /\ id = <<owner[j], Head(req[j]).n>>
        BY <1>6, <2>4 DEF DueIs
    <3> QED
        BY <1>4, <1>6, <2>1, <3>1 DEF DueIs
  <2> QED
    BY <2>2, <2>3, <2>4
<1>8. Open' = Open \cup {new}
  <2>1. ASSUME NEW id PROVE id \in Open' <=> id \in Open \/ id = new
    BY <1>1, <1>4, <1>5, <1>6 DEF OpenIs
  <2> QED
    BY <2>1
<1>9. \A i \in Open : i[1] # owner[k]
    BY <1>1, FreeToCall
<1> QED
    BY <1>3, <1>7, <1>8, <1>9 DEF Abstract!Invoke

LEMMA CallFailsMaps ==
    ASSUME Inv, Inv', NEW k \in 1 .. nconn, NEW m \in Methods, CallFails(k, m)
    PROVE  Abstract!Misfire(owner[k])
<1>1. k \in Conns /\ cl[k] = "idle" /\ owner[k] \in Clients
    BY BoundAssumption DEF Inv, TypeOK, Conns, CallFails
<1>2. /\ UNCHANGED <<owner, req, ran, returned>>
      /\ cl' = [cl EXCEPT ![k] = "failed"]
      /\ ncall' = [ncall EXCEPT ![owner[k]] = @ + 1]
      /\ raised' = raised \cup {<<owner[k], ncall[owner[k]] + 1>>}
    BY DEF CallFails, serverVars
<1>3. \A j \in Conns : cl'[j] = "waiting" <=> cl[j] = "waiting"
    BY <1>1, <1>2 DEF Inv, TypeOK
<1>4. \A j \in Conns : cl[j] = "waiting" => Current(j)' = Current(j)
  <2>1. ASSUME NEW j \in Conns, cl[j] = "waiting" PROVE Current(j)' = Current(j)
    <3>1. owner[j] # owner[k] /\ owner[j] \in Clients
        BY <1>1, <2>1, FreeToCall DEF Inv, TypeOK
    <3> QED
        BY <1>1, <1>2, <3>1 DEF Current, Inv, TypeOK
  <2> QED
    BY <2>1
<1>5. OpenIs /\ OpenIs'
    BY InOpen, InNext
<1>6. Due' = Due
    BY <1>2 DEF Due
<1>7. Open' = Open
  <2>1. ASSUME NEW id PROVE id \in Open' <=> id \in Open
    BY <1>3, <1>4, <1>5 DEF OpenIs
  <2> QED
    BY <2>1
<1>8. \A i \in Open : i[1] # owner[k]
    BY <1>1, FreeToCall
<1> QED
    BY <1>2, <1>6, <1>7, <1>8 DEF Abstract!Misfire

\* A caller that stops waiting: the other calls that are open are those of other clients.
LEMMA StopsWaiting ==
    ASSUME Inv, Inv', NEW k \in Conns, cl[k] = "waiting", cl'[k] # "waiting",
           \A j \in Conns : j # k => cl'[j] = cl[j], UNCHANGED <<owner, ncall, req>>
    PROVE  Due' = Due /\ Current(k) \in Open /\ Open' = Open \ {Current(k)}
<1>1. OpenIs /\ OpenIs'
    BY InOpen, InNext
<1>2. Due' = Due
    BY DEF Due
<1>3. ASSUME NEW j \in Conns, j # k, cl[j] = "waiting" PROVE Current(j) # Current(k)
  <2>1. owner[j] # owner[k]
    BY <1>3, Made, OneOfClient
  <2> QED
    BY <2>1 DEF Current
<1>4. \A j \in Conns : Current(j)' = Current(j)
    BY DEF Current
<1>5. ASSUME NEW id PROVE id \in Open' <=> id \in Open /\ id # Current(k)
    BY <1>1, <1>3, <1>4 DEF OpenIs
<1> QED
    BY <1>1, <1>2, <1>5 DEF OpenIs

\* A call whose message left its connection is not due: what other connections of the
\* client still hold are calls made before.
LEMMA NotDue ==
    ASSUME Inv, NEW k \in Conns, cl[k] = "waiting", req[k] = <<>>
    PROVE  Current(k) \notin Due
<1>1. SUFFICES ASSUME Current(k) \in Due PROVE FALSE
    OBVIOUS
<1>2. PICK j \in Conns : req[j] # <<>> /\ Current(k) = <<owner[j], Head(req[j]).n>>
    BY <1>1, InDue DEF DueIs
<1>3. j # k /\ owner[j] = owner[k] /\ Head(req[j]).n = ncall[owner[k]]
    BY <1>2 DEF Current
<1>4. j <= nconn /\ Head(req[j]).n \in Nat
    BY <1>2, Made
<1>5. PairOK(j, k)
    BY <1>3, <1>4, OneOfClient
<1> QED
    BY <1>2, <1>3, <1>4, <1>5 DEF PairOK

LEMMA ReceiveMaps ==
    ASSUME Inv, Inv', NEW k \in 1 .. nconn, Receive(k) \/ ReceiveEof(k) \/ Interrupt(k)
    PROVE  /\ Current(k) \in Open
           /\ \/ Abstract!Return(Current(k))
              \/ Abstract!Raise(Current(k))
              \/ Abstract!Abandon(Current(k))
<1>1. k \in Conns /\ cl[k] = "waiting" /\ ConnOK(k)
    BY BoundAssumption DEF Inv, TypeOK, Conns, ConnsOK, Receive, ReceiveEof, Interrupt
<1>2. /\ UNCHANGED <<owner, ncall, req, ran>>
      /\ \E x \in {"idle", "failed", "closed"} : cl' = [cl EXCEPT ![k] = x]
    BY DEF Receive, ReceiveEof, Interrupt, serverVars
<1>3. cl'[k] # "waiting" /\ \A j \in Conns : j # k => cl'[j] = cl[j]
    BY <1>1, <1>2 DEF Inv, TypeOK
<1>4. Due' = Due /\ Current(k) \in Open /\ Open' = Open \ {Current(k)}
    BY <1>1, <1>2, <1>3, StopsWaiting
<1>5. CASE Receive(k)
  <2>1. req[k] = <<>> /\ (Head(rep[k]).kind = "value" => Current(k) \in ran)
    BY <1>1, <1>5 DEF ConnOK, Stages, Receive
  <2>2. Current(k) \notin Due
    BY <1>1, <2>1, NotDue
  <2>3. \/ /\ Current(k) \in ran
           /\ returned' = returned \cup {Current(k)} /\ raised' = raised
        \/ raised' = raised \cup {Current(k)} /\ returned' = returned
    BY <1>5, <2>1 DEF Receive
  <2> QED
    BY <1>2, <1>4, <2>2, <2>3 DEF Abstract!Return, Abstract!Raise
<1>6. CASE ReceiveEof(k)
  <2>1. Current(k) \notin Due
    BY <1>1, <1>6, NotDue DEF ConnOK, ReceiveEof
  <2> QED
    BY <1>2, <1>4, <1>6, <2>1 DEF ReceiveEof, Abstract!Raise
<1>7. CASE Interrupt(k)
    BY <1>2, <1>4, <1>7 DEF Interrupt, Abstract!Abandon
<1> QED
    BY <1>4, <1>5, <1>6, <1>7

\* process() takes a call that is due, the oldest one of its client.
LEMMA TakesOldest ==
    ASSUME Inv, Inv', Reading, req' = [req EXCEPT ![serving] = Tail(@)],
           UNCHANGED <<owner, cl, ncall>>
    PROVE  LET id == <<owner[serving], Message.n>>
           IN  /\ id \in Due
               /\ \A j \in Due : j[1] = id[1] => id[2] <= j[2]
               /\ Due' = Due \ {id}
               /\ Open' = Open
<1> DEFINE id == <<owner[serving], Message.n>>
<1>1. /\ serving \in Conns /\ ConnOK(serving) /\ serving <= nconn /\ nconn \in Nat
      /\ req[serving] # <<>> /\ req'[serving] = <<>>
      /\ \A j \in Conns : j # serving => req'[j] = req[j]
    BY Taken
<1>2. DueIs /\ DueIs' /\ OpenIs /\ OpenIs'
    BY InDue, InOpen, InNext
<1>3. Message = Head(req[serving]) /\ Message.n \in Nat
    BY <1>1, Made DEF Message
<1>4. ASSUME NEW j \in Conns, j # serving, req[j] # <<>>, owner[j] = owner[serving]
      PROVE  Message.n < Head(req[j]).n
  <2>1. ConnOK(j) /\ j <= nconn /\ Head(req[j]).n \in Nat
    BY <1>4, Made DEF Inv, ConnsOK
  <2>2. ~(j < serving)
    BY <1>4, <2>1 DEF ConnOK, HungUp
  <2>3. serving < j
    BY <1>1, <1>4, <2>2 DEF Conns
  <2>4. PairOK(serving, j)
    BY <1>1, <1>4, <2>1, <2>3 DEF Inv, PairsOK
  <2> QED
    BY <1>1, <1>3, <1>4, <2>4 DEF PairOK
<1>5. id \in Due
    BY <1>1, <1>2, <1>3 DEF DueIs
<1>6. ASSUME NEW i \in Due, i[1] = id[1] PROVE id[2] <= i[2]
  <2>1. PICK j \in Conns : req[j] # <<>> /\ i = <<owner[j], Head(req[j]).n>>
    BY <1>2, <1>6 DEF DueIs
  <2>2. Head(req[j]).n \in Nat /\ owner[j] = owner[serving]
    BY <1>6, <2>1, Made
  <2>3. CASE j = serving
    BY <1>3, <2>1, <2>3
  <2>4. CASE j # serving
    BY <1>3, <1>4, <2>1, <2>2, <2>4
  <2> QED
    BY <2>3, <2>4
<1>7. Due' = Due \ {id}
  <2>1. ASSUME NEW j \in Conns, j # serving, req[j] # <<>>
        PROVE  <<owner[j], Head(req[j]).n>> # id
    <3>1. Head(req[j]).n \in Nat
        BY <2>1, Made
    <3> QED
        BY <1>3, <1>4, <2>1, <3>1
  <2>2. ASSUME NEW x PROVE x \in Due' <=> x \in Due /\ x # id
    BY <1>1, <1>2, <1>3, <2>1 DEF DueIs
  <2> QED
    BY <2>2
<1>8. Open' = Open
  <2>1. ASSUME NEW x PROVE x \in Open' <=> x \in Open
    BY <1>2 DEF OpenIs, Current
  <2> QED
    BY <2>1
<1> QED
    BY <1>5, <1>6, <1>7, <1>8

LEMMA ServeMaps ==
    ASSUME Inv, Inv', Serve
    PROVE  \/ UNCHANGED Abstract!vars
           \/ \E i \in Due : Abstract!Run(i) \/ Abstract!Refuse(i)
<1>1. CASE Accept \/ Flush \/ FlushFails \/ HangUp
  <2>1. UNCHANGED <<ncall, ran, returned, raised, req, cl, owner>>
    BY <1>1 DEF Accept, Flush, FlushFails, HangUp, clientVars
  <2> QED
    BY <2>1, Stutters
<1>2. CASE \/ RefuseUnknown
           \/ RaiseUnhandled
           \/ HandlerRaises
           \/ \E kind \in {"value", "none"} : HandlerReturns(kind)
  <2> DEFINE id == <<owner[serving], Message.n>>
  <2>1. /\ UNCHANGED <<owner, cl, ncall, returned, raised>>
        /\ Reading /\ req' = [req EXCEPT ![serving] = Tail(@)]
        /\ ran' = ran \/ ran' = ran \cup {id}
    BY <1>2 DEF RefuseUnknown, RaiseUnhandled, HandlerRaises, HandlerReturns, clientVars
  <2>2. /\ id \in Due
        /\ \A j \in Due : j[1] = id[1] => id[2] <= j[2]
        /\ Due' = Due \ {id} /\ Open' = Open
    BY <2>1, TakesOldest
  <2>3. Abstract!Run(id) \/ Abstract!Refuse(id)
    BY <2>1, <2>2 DEF Abstract!Run, Abstract!Refuse
  <2> QED
    BY <2>2, <2>3
<1> QED
    BY <1>1, <1>2 DEF Serve

LEMMA StepMaps ==
    Inv /\ Inv' /\ [Next]_vars => [Abstract!Next]_(Abstract!vars)
<1> SUFFICES ASSUME Inv, Inv', [Next]_vars PROVE Abstract!Next \/ UNCHANGED Abstract!vars
    OBVIOUS
<1>1. ASSUME NEW c \in Clients, Connect(c) PROVE UNCHANGED Abstract!vars
  <2>1. /\ UNCHANGED <<ncall, ran, returned, raised, req>>
        /\ nconn \in Nat /\ nconn + 1 \in Conns
    BY <1>1, BoundAssumption DEF Connect, serverVars, Inv, TypeOK, Conns
  <2>2. ConnOK(nconn + 1)
    BY <2>1 DEF Inv, ConnsOK
  <2>3. cl[nconn + 1] = "none" /\ req[nconn + 1] = <<>>
    BY <2>1, <2>2 DEF ConnOK
  <2>4. \A k \in Conns : /\ cl'[k] = "waiting" <=> cl[k] = "waiting"
                         /\ req[k] # <<>> \/ cl[k] = "waiting" => owner'[k] = owner[k]
    BY <1>1, <2>1, <2>3 DEF Connect, Inv, TypeOK
  <2> QED
    BY <2>1, <2>4, Stutters
<1>2. ASSUME NEW k \in 1 .. nconn, NEW m \in Methods, Call(k, m) \/ CallFails(k, m)
      PROVE  Abstract!Next
  <2>1. owner[k] \in Clients
    BY BoundAssumption DEF Inv, TypeOK, Conns
  <2> QED
    BY <1>2, <2>1, CallMaps, CallFailsMaps DEF Abstract!Next
<1>3. ASSUME NEW k \in 1 .. nconn, Receive(k) \/ ReceiveEof(k) \/ Interrupt(k)
      PROVE  Abstract!Next
    BY <1>3, ReceiveMaps DEF Abstract!Next
<1>4. ASSUME NEW k \in 1 .. nconn, Close(k) PROVE UNCHANGED Abstract!vars
  <2>1. UNCHANGED <<ncall, ran, returned, raised, req, owner>>
    BY <1>4 DEF Close, serverVars
  <2>2. \A j \in Conns : cl'[j] = "waiting" <=> cl[j] = "waiting"
    BY <1>4 DEF Close, Inv, TypeOK
  <2> QED
    BY <2>1, <2>2, Stutters
<1>5. CASE Serve
    BY <1>5, ServeMaps DEF Abstract!Next
<1>6. CASE UNCHANGED vars
    BY <1>6 DEF vars, Abstract!vars, Due, Open, Current
<1> QED
    BY <1>1, <1>2, <1>3, <1>4, <1>5, <1>6 DEF Next

(* The stubs, the connections and the server implement AtomicRpc: a call     *)
(* runs at most once and in the order its client made it, a call that        *)
(* returned has run, and a call that raised has run or never will, whatever  *)
(* the number of clients, connections and calls.                             *)
THEOREM AtomicCorrect == Spec => CallsAreAtomic
<1>1. Init => Abstract!Init
  <2> SUFFICES ASSUME Init PROVE Abstract!Init
    OBVIOUS
  <2>1. Due = {}
    <3>1. \A k \in Conns : DOMAIN req[k] = {}
        BY DEF Init
    <3> QED
        BY <3>1 DEF Due
  <2>2. Open = {}
    BY DEF Init, Open
  <2> QED
    BY <2>1, <2>2 DEF Init, Abstract!Init
<1> QED
    BY <1>1, InvAlways, StepMaps, PTL DEF Spec, CallsAreAtomic, Abstract!Spec

=============================================================================
