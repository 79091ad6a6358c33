------------------------------- MODULE JsonFraming -------------------------------
(***************************************************************************)
(* Length-prefixed frames on a byte stream and the loop that reads them    *)
(* (src/fasttcpapi/json_frame.py 26-56, server.py 223-247,                 *)
(* _client_core.py 242-252).                                               *)
(*                                                                         *)
(* The unit is a word, as long as a length prefix.  A word can be read as  *)
(* a length and as the first character of a payload, so a reader that is   *)
(* out of step takes payload for prefixes and prefixes for payload.  A     *)
(* payload of one word stands for one of a single byte.                    *)
(***************************************************************************)
EXTENDS Naturals, Sequences, SequencesExt

CONSTANTS
    MaxFrameSize,   \* max_frame_size, in words
    MaxSent         \* bound: frames the peer sends

ASSUME FramingAssumption == MaxFrameSize \in Nat \ {0} /\ MaxSent \in Nat

\* What a peer may send: a frame whose payload the reader can parse (decode() and, in the
\* client, parse_args), one whose payload it cannot, one without payload, one not starting
\* with "{", one that is too long.
FrameKinds == {"valid", "badJson", "empty", "noBrace", "oversized"}

\* A word read as a length; "{" and what follows it make a number that is too large.
TooLong == MaxFrameSize + 1
Brace == MaxFrameSize + 2

\* A word, and where it comes from: index 0 of a frame is its prefix.
Words == [as : 0..Brace, frame : 1..MaxSent, index : 0..TooLong]

VARIABLES
    sent_frames,           \* the kinds of the frames sent so far
    stream,         \* words in the reader's buffer
    eof,
    reading,        \* where decode() is
    size,           \* the length it has read
    payload,        \* the words it has read since
    accepted,       \* payloads handed to the application, in order
    unread          \* has a frame been rejected with part of it unread?

framingVars == <<sent_frames, stream, eof, reading, size, payload, accepted, unread>>

FramingInit ==
    /\ sent_frames = <<>> /\ stream = <<>> /\ eof = FALSE
    /\ reading = "length" /\ size = 0 /\ payload = <<>>
    /\ accepted = <<>> /\ unread = FALSE

-----------------------------------------------------------------------------
(* The peer.                                                               *)

Lengths(kind) == IF kind = "empty" THEN {0}
                 ELSE IF kind = "oversized" THEN {TooLong} ELSE 1..MaxFrameSize

\* The words of the n-th frame: a payload may contain anything after its first word.
Contents(kind, length, n) ==
    {[i \in 1..length + 1 |-> [as |-> as[i], frame |-> n, index |-> i - 1]] :
        as \in {f \in [1..length + 1 -> 0..Brace] :
                  /\ f[1] = length
                  /\ length > 0 /\ kind # "oversized" => ((f[2] = Brace) = (kind # "noBrace"))}}

SendFrame ==
    /\ ~eof /\ Len(sent_frames) < MaxSent
    /\ \E kind \in FrameKinds : \E length \in Lengths(kind) :
           \E words \in Contents(kind, length, Len(sent_frames) + 1) :
               /\ sent_frames' = Append(sent_frames, kind)
               /\ stream' = stream \o words
    /\ UNCHANGED <<eof, reading, size, payload, accepted, unread>>

\* The connection ends, perhaps in the middle of a frame.
PeerCloses ==
    /\ ~eof /\ eof' = TRUE
    /\ \E n \in 0..Len(stream) : stream' = SubSeq(stream, 1, n)
    /\ UNCHANGED <<sent_frames, reading, size, payload, accepted, unread>>

-----------------------------------------------------------------------------
(* decode() and the loop around it.                                        *)

\* The next frame is decoded, or the loop ends because the reader is at its end.
Restart(rest) ==
    /\ reading' = IF eof /\ rest = <<>> THEN "closed" ELSE "length"
    /\ size' = 0 /\ payload' = <<>>

\* ValueError: "Keep this client connection alive".
Reject(rest, left) ==
    /\ Restart(rest)
    /\ unread' = (unread \/ left)
    /\ UNCHANGED accepted

\* Mutant: the length is not checked.
ReadLengthUnchecked ==
    /\ reading = "length" /\ stream # <<>>
    /\ reading' = "first" /\ size' = Head(stream).as
    /\ stream' = Tail(stream)
    /\ UNCHANGED <<sent_frames, eof, payload, accepted, unread>>

\* "readexactly(4)": an oversized or empty frame is rejected at once.
ReadLength ==
    /\ reading = "length" /\ stream # <<>>
    /\ LET n == Head(stream).as
       IN  IF n > MaxFrameSize THEN Reject(Tail(stream), TRUE)
           ELSE IF n = 0 THEN Reject(Tail(stream), FALSE)
           ELSE /\ reading' = "first" /\ size' = n
                /\ UNCHANGED <<payload, accepted, unread>>
    /\ stream' = Tail(stream)
    /\ UNCHANGED <<sent_frames, eof>>

\* "first = await reader.readexactly(1)": a payload of that one byte is read whole, even
\* if it is no "{".
ReadFirst ==
    /\ reading = "first" /\ stream # <<>>
    /\ IF Head(stream).as = Brace
       THEN /\ reading' = "rest" /\ payload' = <<Head(stream)>>
            /\ UNCHANGED <<size, accepted, unread>>
       ELSE Reject(Tail(stream), size > 1)
    /\ stream' = Tail(stream)
    /\ UNCHANGED <<sent_frames, eof>>

\* Can this payload be parsed?  That of a sent frame is what its sender made it; one put
\* together from pieces of several may be anything.
Whole(words) ==
    \A i \in 1..Len(words) : words[i].frame = words[1].frame /\ words[i].index = i
MayParse(words) == Whole(words) => sent_frames[words[1].frame] # "badJson"
MustParse(words) == Whole(words) /\ sent_frames[words[1].frame] = "valid"

\* Mutant: the payload is parsed before all of it has been read.
ReadRestShort ==
    /\ reading = "rest" /\ Len(stream) >= size - 1
    /\ accepted' = Append(accepted, payload)
    /\ Restart(stream)
    /\ UNCHANGED <<sent_frames, stream, eof, unread>>

\* "readexactly(size - 1)", then the JSON text is parsed.
ReadRest ==
    /\ reading = "rest" /\ Len(stream) >= size - 1
    /\ LET words == payload \o SubSeq(stream, 1, size - 1)
           rest == SubSeq(stream, size, Len(stream))
       IN  /\ \/ /\ MayParse(words)
                 /\ accepted' = Append(accepted, words)
                 /\ Restart(rest)
                 /\ UNCHANGED unread
              \/ ~MustParse(words) /\ Reject(rest, FALSE)
           /\ stream' = rest
    /\ UNCHANGED <<sent_frames, eof>>

\* Mutant: IncompleteReadError is taken for a corrupt frame.
IncompleteGoesOn ==
    /\ eof /\ reading # "closed"
    /\ Len(stream) < (IF reading = "rest" THEN size - 1 ELSE 1)
    /\ reading' = "length"
    /\ stream' = <<>>
    /\ UNCHANGED <<sent_frames, eof, size, payload, accepted, unread>>

\* IncompleteReadError ends the loop.
Incomplete ==
    /\ eof /\ reading # "closed"
    /\ Len(stream) < (IF reading = "rest" THEN size - 1 ELSE 1)
    /\ reading' = "closed"
    /\ stream' = <<>>
    /\ UNCHANGED <<sent_frames, eof, size, payload, accepted, unread>>

Decode == ReadLength \/ ReadFirst \/ ReadRest \/ Incomplete
FramingNext == SendFrame \/ PeerCloses \/ Decode
FramingSpec == FramingInit /\ [][FramingNext]_framingVars
\* The task that reads the connection runs.
FramingFairness == WF_framingVars(Decode)

-----------------------------------------------------------------------------
FramingTypeOK ==
    /\ sent_frames \in Seq(FrameKinds) /\ Len(sent_frames) <= MaxSent
    /\ stream \in Seq(Words)
    /\ eof \in BOOLEAN /\ unread \in BOOLEAN
    /\ reading \in {"length", "first", "rest", "closed"}
    /\ size \in 0..MaxFrameSize
    /\ payload \in Seq(Words) /\ Len(payload) <= 1
    /\ accepted \in Seq(Seq(Words))

\* Corrupt frames "resynchronise on their next decode attempt": a frame that is not
\* JSON, or empty, does no damage to its neighbours.  Until one is rejected with part of
\* it unread (too long, or longer than a byte and not an object) every decode() starts at
\* a length prefix, and exactly the valid frames before it were accepted, whole and in order.
StaysInStep ==
    reading = "length" /\ ~unread /\ (~eof \/ stream # <<>>) =>
        LET next == IF stream = <<>> THEN Len(sent_frames) + 1 ELSE Head(stream).frame
        IN  /\ stream # <<>> => Head(stream).index = 0
            /\ \A i \in 1..Len(accepted) : Whole(accepted[i])
            /\ \A i, j \in 1..Len(accepted) :
                   i < j => accepted[i][1].frame < accepted[j][1].frame
            /\ {accepted[i][1].frame : i \in 1..Len(accepted)}
                   = {n \in 1..next - 1 : sent_frames[n] = "valid"}

\* A peer that has closed the connection ends the loop: rejecting corrupt data never
\* spins at the end of the stream.
EofEnds == eof ~> reading = "closed"
=============================================================================
