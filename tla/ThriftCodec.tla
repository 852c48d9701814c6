---------------------------- MODULE ThriftCodec ----------------------------
(***************************************************************************)
(* How the generated Thrift classes put a struct on the wire and take it   *)
(* off again.                                                              *)
(*                                                                         *)
(* Every generated class has the same read() and write(), driven by its    *)
(* thrift_spec.  A class is therefore described by a type (Struct, ListOf  *)
(* or a scalar) and read()/write() are written once, over that type.  An   *)
(* instance is a partial function from attribute names to values: an       *)
(* attribute that is None is not in its domain.  The wire is a sequence of *)
(* tokens, one for each unit that the binary protocol reads back in one    *)
(* call: a field header, a list header, a scalar, a STOP byte, a message   *)
(* header.  Scalars are small integers whatever their type; the type       *)
(* decides how many bytes the reader takes, so a scalar read with another  *)
(* type than it was written with loses the position in the stream          *)
(* (Garbled).                                                              *)
(***************************************************************************)
EXTENDS Integers, SequencesExt

----------------------------------------------------------------------------
(* TType and thrift_spec.                                                  *)

BOOL == [tt |-> "BOOL"]

BYTE == [tt |-> "BYTE"]

I16 == [tt |-> "I16"]

I32 == [tt |-> "I32"]

I64 == [tt |-> "I64"]

STR == [tt |-> "STRING"]

ListOf(T) == [tt |-> "LIST", elem |-> T]

Struct(fields) == [tt |-> "STRUCT", fields |-> fields]

F(id, name, T) == [id |-> id, name |-> name, type |-> T]

\* A remote procedure: its name on the wire, the class of its arguments and the class of
\* its result.
RPC(name, args, result) == [name |-> name, args |-> args, result |-> result]

----------------------------------------------------------------------------
(* Tokens.                                                                 *)

Field(id, tt) == [field |-> id, tt |-> tt]

Stop == [stop |-> TRUE]

Scalar(tt, v) == [scalar |-> tt, v |-> v]

ListHeader(etype, size) == [etype |-> etype, size |-> size]

Message(name, mtype, seqid) == [msg |-> name, mtype |-> mtype, seqid |-> seqid]

\* The rest of a stream whose reader no longer knows where a token starts.
Garbled == << [garbled |-> TRUE] >>

\* Body of the value of e, which is worked out once.
With(e, Body(_)) == CHOOSE y \in {Body(x) : x \in {e}} : TRUE

NextIs(kind, s) == s # <<>> /\ kind \in DOMAIN Head(s)

----------------------------------------------------------------------------
(* write(): the attributes that are not None, in the order of their ids.   *)

RECURSIVE WriteStruct(_, _), WriteValue(_, _)

\* A deviation: write() that gives up at the first attribute that is None.
WriteFieldsUntilNone(S, obj) ==
    LET n == CHOOSE n \in 0 .. Len(S.fields) :
                /\ \A i \in 1 .. n : S.fields[i].name \in DOMAIN obj
                /\ n < Len(S.fields) => S.fields[n + 1].name \notin DOMAIN obj
    IN  FlattenSeq([i \in 1 .. n |-> <<Field(S.fields[i].id, S.fields[i].type.tt)>>
                        \o WriteValue(S.fields[i].type, obj[S.fields[i].name])]) \o <<Stop>>

WriteField(f, obj) ==
    IF f.name \in DOMAIN obj
    THEN <<Field(f.id, f.type.tt)>> \o WriteValue(f.type, obj[f.name])
    ELSE <<>>

WriteStruct(S, obj) ==
    FlattenSeq([i \in DOMAIN S.fields |-> WriteField(S.fields[i], obj)]) \o <<Stop>>

WriteValue(T, v) ==
    CASE T.tt = "STRUCT" -> WriteStruct(T, v)
      [] T.tt = "LIST"   -> <<ListHeader(T.elem.tt, Len(v))>>
                              \o FlattenSeq([i \in DOMAIN v |-> WriteValue(T.elem, v[i])])
      [] OTHER           -> <<Scalar(T.tt, v)>>

----------------------------------------------------------------------------
(* TProtocolBase.skip(): passes over one value, told only its wire type.   *)

RECURSIVE Skip(_, _), SkipFields(_), SkipElems(_, _, _)

SkipFields(s) ==
    CASE NextIs("stop", s)  -> Tail(s)
      [] NextIs("field", s) -> With(Skip(Head(s).tt, Tail(s)), SkipFields)
      [] OTHER              -> Garbled

\* A deviation: skip() of a list that passes over its first element only.
SkipFirstElem(etype, n, s) == IF n = 0 THEN s ELSE Skip(etype, s)

SkipElems(etype, n, s) ==
    IF n = 0 THEN s ELSE With(Skip(etype, s), LAMBDA rest : SkipElems(etype, n - 1, rest))

Skip(tt, s) ==
    CASE tt = "STRUCT" -> SkipFields(s)
      [] tt = "LIST"   -> IF NextIs("etype", s)
                          THEN SkipElems(Head(s).etype, Head(s).size, Tail(s))
                          ELSE Garbled
      [] OTHER         -> IF NextIs("scalar", s) /\ Head(s).scalar = tt THEN Tail(s) ELSE Garbled

----------------------------------------------------------------------------
(* read(): a field whose id and wire type are in the thrift_spec becomes   *)
(* an attribute, any other is skipped; what never comes stays None.  The   *)
(* element type that a list header announces is not looked at: the         *)
(* elements are read with the type of the thrift_spec.                     *)

RECURSIVE ReadFields(_, _), ReadElems(_, _, _), ReadValue(_, _)

Lost == [val |-> <<>>, rest |-> Garbled]

\* A deviation: read() that goes by the id of a field alone.
ExpectedById(S, h) == {f \in Range(S.fields) : f.id = h.field}

\* The attribute that a field header is for, if the class has it with this wire type.
Expected(S, h) == {f \in Range(S.fields) : f.id = h.field /\ f.type.tt = h.tt}

WithAttribute(obj, name, v) == [n \in DOMAIN obj \cup {name} |-> IF n = name THEN v ELSE obj[n]]

\* One turn of the loop in read(): sofar has the object under construction and the rest
\* of the stream.
ReadField(S, sofar) ==
    LET h    == Head(sofar.rest)
        rest == Tail(sofar.rest)
    IN  IF Expected(S, h) = {}
        THEN [sofar EXCEPT !.rest = Skip(h.tt, rest)]
        ELSE LET f == CHOOSE f \in Expected(S, h) : TRUE
             IN  With(ReadValue(f.type, rest),
                      LAMBDA r : [val |-> WithAttribute(sofar.val, f.name, r.val), rest |-> r.rest])

ReadFields(S, sofar) ==
    CASE NextIs("stop", sofar.rest)  -> [sofar EXCEPT !.rest = Tail(@)]
      [] NextIs("field", sofar.rest) -> With(ReadField(S, sofar), LAMBDA r : ReadFields(S, r))
      [] OTHER                       -> Lost

ReadElems(T, n, sofar) ==
    IF n = 0 THEN sofar
    ELSE With(ReadValue(T, sofar.rest),
              LAMBDA r : ReadElems(T, n - 1, [val |-> Append(sofar.val, r.val), rest |-> r.rest]))

ReadValue(T, s) ==
    CASE T.tt = "STRUCT" -> ReadFields(T, [val |-> <<>>, rest |-> s])
      [] T.tt = "LIST"   -> IF NextIs("etype", s)
                            THEN ReadElems(T.elem, Head(s).size, [val |-> <<>>, rest |-> Tail(s)])
                            ELSE Lost
      [] OTHER           -> IF NextIs("scalar", s) /\ Head(s).scalar = T.tt
                            THEN [val |-> Head(s).v, rest |-> Tail(s)]
                            ELSE Lost

ReadStruct(S, s) == ReadValue(S, s)

=============================================================================
