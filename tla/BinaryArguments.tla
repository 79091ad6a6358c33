----------------------------- MODULE BinaryArguments -----------------------------
(***************************************************************************)
(* decode_typed_arguments (src/fasttcpapi/binary.py): the arguments of a   *)
(* binary frame, one after the other without tags, cut out of its payload  *)
(* by the types of the handler's parameters.  A value is the bytes it is   *)
(* made from.                                                              *)
(***************************************************************************)
EXTENDS Naturals, Sequences, SequencesExt

CONSTANTS
    Bytes,          \* the bytes of a payload
    CtypesSize,     \* ctypes.sizeof of a ctypes annotation
    MaxParameters,  \* bound: parameters of a handler
    MaxBytes,       \* bound: bytes of a payload
    MaxDefaults     \* bound: trailing parameters with a default

\* 255 is in no UTF-8 text, and a byte below 128 is a character.
ASSUME BinaryAssumption ==
    /\ Bytes \subseteq (0..127) \union {255} /\ CtypesSize \in Nat
    /\ MaxParameters \in Nat /\ MaxBytes \in Nat /\ MaxDefaults \in Nat

\* float is read like int and bytearray like bytes; "other" is any other annotation.
BinaryTypes == {"int", "bool", "str", "bytes", "ctypes", "other"}

VARIABLES
    parameters,     \* the types of the parameters, in order
    defaults,       \* how many of them, the last ones, have a default
    parameter_bytes,\* the payload
    offset,
    pieces,         \* the values decoded so far
    decoded         \* "idle", "decoding", and then "values" or "ValueError"

binaryVars == <<parameters, defaults, parameter_bytes, offset, pieces, decoded>>

BinaryInit ==
    /\ parameters = <<>> /\ defaults = 0 /\ parameter_bytes = <<>>
    /\ offset = 0 /\ pieces = <<>> /\ decoded = "idle"

\* parse_args of a binary frame.
DecodeArguments ==
    /\ decoded = "idle" /\ decoded' = "decoding"
    /\ \E n \in 0..MaxParameters :
           /\ parameters' \in [1..n -> BinaryTypes]
           /\ defaults' \in {d \in 0..n : d <= MaxDefaults}
    /\ \E n \in 0..MaxBytes : parameter_bytes' \in [1..n -> Bytes]
    /\ UNCHANGED <<offset, pieces>>

-----------------------------------------------------------------------------
IsText(s) == \A i \in 1..Len(s) : s[i] < 128

\* _take
Fixed(size, rest) == IF Len(rest) < size THEN {} ELSE {size}

\* Mutant: the terminator is left to the next parameter.
TextLeavesNul(rest) ==
    {z - 1 : z \in {n \in 1..Len(rest) : /\ rest[n] = 0 /\ \A i \in 1..n - 1 : rest[i] # 0
                                         /\ IsText(SubSeq(rest, 1, n - 1))}}

\* "payload.find(b"\0", offset)": the first NUL ends the text.
Text(rest) ==
    {n \in 1..Len(rest) : /\ rest[n] = 0 /\ \A i \in 1..n - 1 : rest[i] # 0
                          /\ IsText(SubSeq(rest, 1, n - 1))}

\* _decode_one: how many bytes a value of this type takes of the rest of the payload;
\* nothing where ValueError is raised.
Consumed(type, rest) ==
    CASE type = "bytes" -> {Len(rest)}
      [] type = "int" -> Fixed(4, rest)
      [] type = "bool" -> {n \in Fixed(1, rest) : rest[1] \in {0, 1}}
      [] type = "str" -> Text(rest)
      [] type = "ctypes" -> Fixed(CtypesSize, rest)
      [] type = "other" -> {}

DecodeOne ==
    /\ decoded = "decoding" /\ Len(pieces) < Len(parameters)
    /\ LET rest == SubSeq(parameter_bytes, offset + 1, Len(parameter_bytes))
           sizes == Consumed(parameters[Len(pieces) + 1], rest)
       IN  \/ /\ sizes = {} /\ decoded' = "ValueError"
              /\ UNCHANGED <<offset, pieces>>
           \/ /\ \E n \in sizes : /\ offset' = offset + n
                                  /\ pieces' = Append(pieces, SubSeq(rest, 1, n))
              /\ UNCHANGED decoded
    /\ UNCHANGED <<parameters, defaults, parameter_bytes>>

\* Mutant: what is left of the payload is ignored.
EndLenient ==
    /\ decoded = "decoding" /\ Len(pieces) = Len(parameters)
    /\ decoded' = "values"
    /\ UNCHANGED <<parameters, defaults, parameter_bytes, offset, pieces>>

\* "unread parameter bytes"
End ==
    /\ decoded = "decoding" /\ Len(pieces) = Len(parameters)
    /\ decoded' = IF offset # Len(parameter_bytes) THEN "ValueError" ELSE "values"
    /\ UNCHANGED <<parameters, defaults, parameter_bytes, offset, pieces>>

BinaryNext == DecodeArguments \/ DecodeOne \/ End
BinarySpec == BinaryInit /\ [][BinaryNext]_binaryVars

-----------------------------------------------------------------------------
(* What the payloads mean.                                                 *)

\* The encodings of the values of a type.
Encodes(type, s) ==
    CASE type = "int" -> Len(s) = 4
      [] type = "bool" -> s \in {<<0>>, <<1>>}
      [] type = "str" -> s # <<>> /\ Last(s) = 0 /\ IsText(s) /\ ~Contains(Front(s), 0)
      [] type = "bytes" -> TRUE
      [] type = "ctypes" -> Len(s) = CtypesSize
      [] type = "other" -> FALSE

\* The ways to cut a payload into encodings of values of these types.
Readings(types, s) ==
    {[i \in 1..Len(types) |-> SubSeq(s, cut[i - 1] + 1, cut[i])] :
        cut \in {c \in [0..Len(types) -> 0..Len(s)] :
                    /\ c[0] = 0 /\ c[Len(types)] = Len(s)
                    /\ \A i \in 1..Len(types) :
                           c[i - 1] <= c[i] /\ Encodes(types[i], SubSeq(s, c[i - 1] + 1, c[i]))}}

\* What _params_for of the server demands.
BytesLast == \A i \in 1..Len(parameters) - 1 : parameters[i] # "bytes"

BinaryTypeOK ==
    /\ parameters \in Seq(BinaryTypes) /\ defaults \in 0..Len(parameters)
    /\ parameter_bytes \in Seq(Bytes)
    /\ offset \in 0..Len(parameter_bytes)
    /\ pieces \in Seq(Seq(Bytes)) /\ Len(pieces) <= Len(parameters)
    /\ decoded \in {"idle", "decoding", "values", "ValueError"}

\* What is decoded is a reading of the whole payload: no byte is skipped, shared by two
\* values or left over.  Since "bytes" comes last there is only one reading, and it is
\* found whenever there is one.
DecodesTheReading ==
    /\ decoded = "values" => pieces \in Readings(parameters, parameter_bytes)
    /\ BytesLast /\ decoded = "values" => Readings(parameters, parameter_bytes) = {pieces}
    /\ BytesLast /\ decoded = "ValueError" => Readings(parameters, parameter_bytes) = {}

\* "Trailing parameters with Python defaults may be omitted from payload": with supported
\* annotations, a payload that leaves some of them out is decoded.
DefaultsOmittable ==
    decoded = "ValueError" /\ ~Contains(parameters, "other") =>
        \A n \in Len(parameters) - defaults..Len(parameters) :
            Readings(SubSeq(parameters, 1, n), parameter_bytes) = {}
=============================================================================
