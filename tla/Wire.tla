-------------------------------- MODULE Wire ---------------------------------
(***************************************************************************)
(* One exchange between two nodes, byte by byte: the frames of             *)
(* internal/proto, the blob that goes with them, the counts that are       *)
(* announced and checked (internal/server), and the header that            *)
(* internal/crypto puts before a blob.  FileServer takes from here that a  *)
(* transfer is whole or is thrown away.                                    *)
(*                                                                         *)
(* A stream is two ordered channels of cells, one for each byte.  A Read   *)
(* returns any part of what has come.  A half may be closed, and then ends *)
(* after its last cell; a reset stream never ends, it fails.  Each end     *)
(* does the steps of its function in the order Script gives.  Streams run  *)
(* over TCP (the listen addresses are): a half can be closed after the     *)
(* other end has closed its own.                                           *)
(***************************************************************************)
EXTENDS Naturals, Sequences

CONSTANTS Longest,         \* bound: the longest file
          HeaderSize,      \* of a blob's header; Overhead
          MaxHeaderBytes,  \* of a message
          Window,          \* bound: cells of a body on their way
          Nothing          \* no message, no version, no plaintext

ASSUME WireAssumption ==
    /\ Longest \in Nat
    /\ HeaderSize \in Nat \ {0}
    /\ MaxHeaderBytes \in Nat \ {0}
    /\ ((MaxHeaderBytes \div 256) \div 256) \div 256 < 256   \* a length is a uint32
    /\ Window \in Nat \ {0}

Ends == {"client", "server"}
Protocols == {"store", "share", "get"}
Other(e) == CHOOSE f \in Ends : f # e

VARIABLES
    proto,    \* the stream's protocol
    disk,     \* the sender's file: its length, whether it is sealed, and how much
              \* of it is there when it is opened
    in,       \* in[e]: the cells e has not read
    eof,      \* eof[e]: the other end has closed its half
    reset,    \* the stream has been reset
    end,      \* end[e]: where e is
    kept,     \* the version the receiver recorded
    trouble   \* ghost: something went wrong that is nobody's mistake here

vars == <<proto, disk, in, eof, reset, end, kept, trouble>>

-----------------------------------------------------------------------------
(* Cells, blobs and frames.                                                *)
(***************************************************************************)
lengthPrefixSize == 4
Cells(kind, n) == [i \in 1 .. n |-> [kind |-> kind, value |-> i]]
Plaintext(n) == Cells("byte", n)

\* EncryptWriter: a header, then as many bytes as it is given.
Encrypted(plain) == Cells("head", HeaderSize) \o plain
\* DecryptReader: what does not begin with a header is no blob.
Decrypted(blob) ==
    IF Len(blob) >= HeaderSize /\ SubSeq(blob, 1, HeaderSize) = Cells("head", HeaderSize)
      THEN SubSeq(blob, HeaderSize + 1, Len(blob))
      ELSE Nothing
\* A file may have been written before encryption was enabled, and a restore of its
\* version that broke off may have left less than all of it (raw.go writes in place).
Files == {f \in [size : 0 .. Longest, sealed : BOOLEAN, left : 0 .. Longest + HeaderSize] :
            f.left <= f.size + (IF f.sealed THEN HeaderSize ELSE 0)}
Blob == IF disk.sealed THEN Encrypted(Plaintext(disk.size)) ELSE Plaintext(disk.size)
Cut == disk.left < Len(Blob)

\* binary.BigEndian: PutUint32 and Uint32.
Digits(n) == <<((n \div 256) \div 256) \div 256, ((n \div 256) \div 256) % 256,
               (n \div 256) % 256, n % 256>>
PutUint32(n) == [i \in 1 .. lengthPrefixSize |-> [kind |-> "digit", value |-> Digits(n)[i]]]
Byte(cell) == IF cell.kind = "digit" THEN cell.value ELSE 0
Uint32(buf) == ((Byte(buf[1]) * 256 + Byte(buf[2])) * 256 + Byte(buf[3])) * 256 + Byte(buf[4])

\* json.Marshal and Unmarshal: what is not one whole message does not decode.
Json(m, len) == [i \in 1 .. len |-> [kind |-> "json", value |-> i, msg |-> m, of |-> len]]
Frame(m, len) == PutUint32(len) \o Json(m, len)
Unmarshal(buf) ==
    IF buf # <<>> /\ buf[1].kind = "json" /\ buf = Json(buf[1].msg, buf[1].of)
      THEN buf[1].msg
      ELSE Nothing

-----------------------------------------------------------------------------
(* sendBlob and handleStore, sendReadable and handleShare, fetchBlob and   *)
(* handleGet.                                                              *)
(***************************************************************************)
Script(e) ==
    CASE proto # "get" /\ e = "client" -> <<"open", "write", "send", "close", "hear">>
      [] proto # "get" /\ e = "server" -> <<"hear", "take", "write">>
      [] proto = "get" /\ e = "client" -> <<"write", "close", "hear", "take">>
      [] proto = "get" /\ e = "server" -> <<"hear", "open", "write", "send", "close">>

Working(e) == end[e].out = "on"
At(e, step) == /\ Working(e)
               /\ end[e].at \in DOMAIN Script(e)
               /\ Script(e)[end[e].at] = step
Replying(e) == CHOOSE i \in DOMAIN Script(e) : Script(e)[i] = "write"
Last(e) == Len(Script(e)) + 1

\* A function that returns an error resets its stream.
ResetAt(e) ==
    /\ end' = [end EXCEPT ![e].out = "failed", ![e].closed = TRUE]
    /\ reset' = TRUE

\* ReadVersion (a share) reads the header, and gives the plaintext and the size the
\* index records; ReadVersionRaw the file, and the size os.Stat finds on the disk.
Source == IF proto = "share"
            THEN IF disk.left < HeaderSize THEN Nothing ELSE Decrypted(Blob)
            ELSE Blob

\* Mutant of Announced: the plaintext's size for every body.
AnnouncedSize == disk.size
Announced == IF proto = "share" THEN disk.size ELSE disk.left

Open(e) ==
    /\ At(e, "open")
    /\ end' = IF Source = Nothing THEN [end EXCEPT ![e].good = FALSE, ![e].at = Last(e)]
                                  ELSE [end EXCEPT ![e].at = @ + 1]
    /\ trouble' = (trouble \/ Source = Nothing)
    /\ UNCHANGED <<proto, disk, in, eof, reset, kept>>

\* Mutant of Message: says yes whatever the outcome.
MessageOK(e) ==
    LET body == \E i \in DOMAIN Script(e) : Script(e)[i] = "send"
    IN  [ok |-> TRUE, bytes |-> IF body THEN Announced ELSE 0,
         size |-> IF body THEN disk.size ELSE 0]

\* The request or the reply.  metaFromEntry: a body's own length goes beside the
\* size of the file.  Only what an end has found good is said to be so.
Message(e) ==
    LET body == \E i \in DOMAIN Script(e) : Script(e)[i] = "send"
    IN  [ok |-> end[e].good, bytes |-> IF body THEN Announced ELSE 0,
         size |-> IF body THEN disk.size ELSE 0]

\* WriteMessage: a frame goes out in one Write, unless its message is too long.
Write(e) ==
    \E len \in 1 .. MaxHeaderBytes + 1 :
        /\ At(e, "write")
        /\ ~reset
        /\ IF len > MaxHeaderBytes
             THEN /\ ResetAt(e)
                  /\ trouble' = TRUE
                  /\ UNCHANGED in
             ELSE /\ in' = [in EXCEPT ![Other(e)] = @ \o Frame(Message(e), len)]
                  /\ end' = [end EXCEPT ![e].at = IF end[e].good THEN @ + 1 ELSE Last(e)]
                  /\ UNCHANGED <<reset, trouble>>
        /\ UNCHANGED <<proto, disk, eof, kept>>

\* io.Copy from the file, while a restore of the same version may cut it short
\* under its reader, or write it whole again.
Send(e) ==
    /\ At(e, "send")
    /\ ~reset
    /\ \/ /\ end[e].sent < Len(Source)
          /\ Len(in[Other(e)]) < Window \/ end[Other(e)].closed
          /\ in' = [in EXCEPT ![Other(e)] = Append(@, Source[end[e].sent + 1])]
          /\ end' = [end EXCEPT ![e].sent = @ + 1]
          /\ UNCHANGED trouble
       \/ /\ end' = [end EXCEPT ![e].at = @ + 1]
          /\ trouble' = (trouble \/ end[e].sent < Len(Source))
          /\ UNCHANGED in
    /\ UNCHANGED <<proto, disk, eof, reset, kept>>

CloseWrite(e) ==
    /\ At(e, "close")
    /\ ~reset
    /\ eof' = [eof EXCEPT ![Other(e)] = TRUE]
    /\ end' = [end EXCEPT ![e].at = @ + 1]
    /\ UNCHANGED <<proto, disk, in, reset, kept, trouble>>

-----------------------------------------------------------------------------
(* ReadMessage: one io.ReadFull for the prefix, one for the payload.       *)
(***************************************************************************)
Wanted(e) == IF end[e].length = Nothing THEN lengthPrefixSize ELSE end[e].length

\* One Read of at most n cells, into buf or body.
ReadSome(e, field, n) ==
    \E k \in 1 .. Len(in[e]) :
        /\ k <= n
        /\ end' = [end EXCEPT ![e][field] = @ \o SubSeq(in[e], 1, k)]
        /\ in' = [in EXCEPT ![e] = SubSeq(@, k + 1, Len(@))]

\* Mutants of ReadFull: one Read is taken for all there is (the buffer's rest is
\* zero); a buffered reader takes what follows the message with it.
ReadOnce(e) ==
    /\ At(e, "hear")
    /\ end[e].buf = <<>>
    /\ \E k \in 1 .. Len(in[e]) :
         /\ k <= Wanted(e)
         /\ end' = [end EXCEPT ![e].buf = [i \in 1 .. Wanted(e) |->
                      IF i <= k THEN in[e][i] ELSE [kind |-> "digit", value |-> 0]]]
         /\ in' = [in EXCEPT ![e] = SubSeq(@, k + 1, Len(@))]
    /\ UNCHANGED <<proto, disk, eof, reset, kept, trouble>>
ReadAhead(e) ==
    /\ At(e, "hear")
    /\ Len(end[e].buf) < Wanted(e)
    /\ ReadSome(e, "buf", Len(in[e]))
    /\ UNCHANGED <<proto, disk, eof, reset, kept, trouble>>

ReadFull(e) ==
    /\ At(e, "hear")
    /\ ReadSome(e, "buf", Wanted(e) - Len(end[e].buf))
    /\ UNCHANGED <<proto, disk, eof, reset, kept, trouble>>

Filled(e) == At(e, "hear") /\ Len(end[e].buf) = Wanted(e)

ReadPrefix(e) ==
    /\ Filled(e)
    /\ end[e].length = Nothing
    /\ IF Uint32(end[e].buf) > MaxHeaderBytes
         THEN ResetAt(e)
         ELSE /\ end' = [end EXCEPT ![e].length = Uint32(end[e].buf), ![e].buf = <<>>]
              /\ UNCHANGED reset
    /\ UNCHANGED <<proto, disk, in, eof, kept, trouble>>

\* The client ends with a refusal.  The server may refuse, or not hold the file,
\* and goes on to its reply.
ReadPayload(e) ==
    LET m == Unmarshal(end[e].buf)
        Heard(good, at) == end' = [end EXCEPT ![e].said = m, ![e].good = good, ![e].at = at]
    IN  /\ Filled(e)
        /\ end[e].length # Nothing
        /\ IF m = Nothing
             THEN ResetAt(e) /\ UNCHANGED trouble
             ELSE /\ UNCHANGED reset
                  /\ \/ /\ Heard(m.ok, IF m.ok THEN end[e].at + 1 ELSE Last(e))
                        /\ UNCHANGED trouble
                     \/ /\ e = "server"
                        /\ Heard(FALSE, Replying(e))
                        /\ trouble' = TRUE
        /\ UNCHANGED <<proto, disk, in, eof, kept>>

\* The stream ends within a message.
ReadEOF(e) ==
    /\ At(e, "hear")
    /\ Len(end[e].buf) < Wanted(e)
    /\ in[e] = <<>>
    /\ eof[e]
    /\ ResetAt(e)
    /\ UNCHANGED <<proto, disk, in, eof, kept, trouble>>

-----------------------------------------------------------------------------
(* The body: countingReader over io.LimitReader, into the store.           *)
(***************************************************************************)
Take(e) ==
    /\ At(e, "take")
    /\ ReadSome(e, "body", end[e].said.bytes - Len(end[e].body))
    /\ UNCHANGED <<proto, disk, eof, reset, kept, trouble>>

\* WriteVersion counts what it encrypts; WriteVersionRaw keeps the sender's size
\* (entryFromMeta).
Version(e) ==
    IF proto = "share"
      THEN [blob |-> Encrypted(end[e].body), size |-> Len(end[e].body)]
      ELSE [blob |-> end[e].body, size |-> end[e].said.size]

\* A short body is deleted again.  The server says so; the client resets.
Taken(e) ==
    /\ At(e, "take")
    /\ Len(end[e].body) = end[e].said.bytes \/ (eof[e] /\ in[e] = <<>>)
    /\ IF Len(end[e].body) = end[e].said.bytes
         THEN /\ kept' = Version(e)
              /\ end' = [end EXCEPT ![e].at = @ + 1]
              /\ UNCHANGED reset
         ELSE /\ UNCHANGED kept
              /\ IF e = "server"
                   THEN end' = [end EXCEPT ![e].at = @ + 1, ![e].good = FALSE] /\ UNCHANGED reset
                   ELSE ResetAt(e)
    /\ UNCHANGED <<proto, disk, in, eof, trouble>>

-----------------------------------------------------------------------------
\* Mutant of Return: no deferred Close.
ReturnOpen(e) ==
    /\ Working(e)
    /\ end[e].at = Last(e)
    /\ end' = [end EXCEPT ![e].out = IF end[e].good THEN "ok" ELSE "failed"]
    /\ UNCHANGED <<proto, disk, in, eof, reset, kept, trouble>>

\* Every function ends with its deferred Close.
Return(e) ==
    /\ Working(e)
    /\ end[e].at = Last(e)
    /\ end' = [end EXCEPT ![e].out = IF end[e].good THEN "ok" ELSE "failed", ![e].closed = TRUE]
    /\ eof' = [eof EXCEPT ![Other(e)] = TRUE]
    /\ UNCHANGED <<proto, disk, in, reset, kept, trouble>>

\* A Read or Write fails: on a reset stream, or, a Write, when the other end has
\* returned.  What libp2p does with such a Write is its own affair; when it neither
\* drops nor refuses it, the deadline that each function sets ends it.
Fail(e) ==
    /\ Working(e)
    /\ end[e].at # Last(e)
    /\ reset \/ (At(e, "send") /\ end[e].sent < Len(Source) /\ end[Other(e)].closed)
    /\ ResetAt(e)
    /\ UNCHANGED <<proto, disk, in, eof, kept, trouble>>

\* The connection breaks, or a deadline runs out.
Break ==
    /\ ~reset
    /\ \E e \in Ends : Working(e)
    /\ reset' = TRUE
    /\ trouble' = TRUE
    /\ UNCHANGED <<proto, disk, in, eof, end, kept>>

-----------------------------------------------------------------------------
Start == [at |-> 1, buf |-> <<>>, length |-> Nothing, said |-> Nothing, body |-> <<>>,
          sent |-> 0, good |-> TRUE, out |-> "on", closed |-> FALSE]
Init ==
    /\ proto \in Protocols
    /\ disk \in Files
    /\ in = [e \in Ends |-> <<>>]
    /\ eof = [e \in Ends |-> FALSE]
    /\ reset = FALSE
    /\ end = [e \in Ends |-> Start]
    /\ kept = Nothing
    /\ trouble = Cut

Step(e) == \/ Open(e)
           \/ Write(e)
           \/ Send(e)
           \/ CloseWrite(e)
           \/ ReadFull(e)
           \/ ReadPrefix(e)
           \/ ReadPayload(e)
           \/ ReadEOF(e)
           \/ Take(e)
           \/ Taken(e)
           \/ Return(e)
           \/ Fail(e)
Next == Break \/ \E e \in Ends : Step(e)
Spec == Init /\ [][Next]_vars

\* What is sent arrives, and each end goes on.  A Write to an end that has returned
\* goes through or fails, by its deadline at the latest (RequestTimeout); no Read,
\* and no other Write, is taken to be ended by a deadline.
FairSpec == Spec /\ \A e \in Ends : WF_vars(Step(e))

-----------------------------------------------------------------------------
(* Properties.                                                             *)
(***************************************************************************)
MessageType == [ok : BOOLEAN, bytes : Nat, size : 0 .. Longest]
BlobCell == [kind : {"head", "byte"}, value : Nat]

\* Nothing is none of the values it stands in for.
ASSUME NothingAssumption ==
    /\ Nothing \notin Nat
    /\ Nothing \notin MessageType
    /\ Nothing \notin [blob : Seq(BlobCell), size : Nat]

\* Every variable holds what the code's types allow; no reader takes more cells
\* than are its own.
TypeOK ==
    /\ proto \in Protocols
    /\ disk \in Files
    /\ eof \in [Ends -> BOOLEAN]
    /\ reset \in BOOLEAN
    /\ trouble \in BOOLEAN
    /\ \A e \in Ends :
         /\ end[e].at \in 1 .. Last(e)
         /\ end[e].length \in {Nothing} \cup 0 .. MaxHeaderBytes
         /\ end[e].said \in {Nothing} \cup MessageType
         /\ end[e].out \in {"on", "ok", "failed"}
         /\ end[e].good \in BOOLEAN
         /\ end[e].closed = ~Working(e)
         /\ Len(end[e].buf) <= Wanted(e)
         /\ end[e].body # <<>> => Len(end[e].body) <= end[e].said.bytes
         /\ end[e].sent <= Longest + HeaderSize

\* What a receiver records is the file as it was when its sender announced it, with
\* the size its owner gave it: a share all of the plaintext, a push or a get what
\* there was of the blob.  A file that was whole then opens as that file, whatever
\* pieces it came in, and whatever broke or became of the file meanwhile.
KeptWhole ==
    kept # Nothing =>
        /\ kept.size = disk.size
        /\ kept.blob = IF proto = "share" THEN Encrypted(Plaintext(disk.size))
                                         ELSE SubSeq(Blob, 1, disk.left)
        /\ disk.sealed /\ (proto = "share" \/ ~Cut) =>
             Decrypted(kept.blob) = Plaintext(disk.size)

\* A push that its client takes for done is recorded at the server, and a get that
\* has succeeded at the client.
OkMeansKept == end["client"].out = "ok" => kept # Nothing

\* An exchange fails for a cause only: a refusal, a broken connection, a file cut
\* short before or under its sender, a blob without a header, a message over the
\* limit.
FailsForCause == (\E e \in Ends : end[e].out = "failed") => trouble

\* Neither end is left waiting for the other.  Only a Write to an end that has
\* returned may need its deadline for that.
ExchangeEnds == <>(\A e \in Ends : ~Working(e))
=============================================================================
