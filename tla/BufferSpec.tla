----------------------------- MODULE BufferSpec ------------------------------
(***************************************************************************)
(* One Buffer under any sequence of the calls that TcpConnection, the      *)
(* users' callbacks and the HTTP server make on it.                        *)
(***************************************************************************)
EXTENDS Buffer

CONSTANTS Values,        \* values of the bytes that are put in
          MaxChunk,      \* bound on the bytes of one append or read
          MaxContent     \* bound on the unread bytes

ASSUME BufferSpecAssumption ==
    Values \subseteq Bytes /\ MaxChunk \in Nat /\ MaxContent \in Nat

VARIABLES buf, result    \* result: the bytes the last call handed out or removed
vars == <<buf, result>>

TypeOK ==
    /\ buf \in BufferType
    /\ result \in Seq(Bytes)

Init == buf = NewBuffer /\ result = <<>>

Chunks == UNION {[1..n -> Values] : n \in 0..MaxChunk}
Room(data) == readableBytes(buf) + Len(data) <= MaxContent

AppendData(data) ==
    /\ Room(data)
    /\ buf' = append(buf, data)
    /\ result' = <<>>

(* readFd: data, or end of file (no data); on an error nothing changes.    *)
ReadFd(data) ==
    /\ Room(data) /\ Len(data) <= ReadLimit(buf)
    /\ buf' = readFd(buf, data)
    /\ result' = <<>>

(* writeFd: the kernel takes the first n bytes; the caller removes them    *)
(* with a retrieve(n).                                                     *)
WriteFd(n) ==
    /\ n <= readableBytes(buf)
    /\ result' = SubSeq(Readable(buf), 1, n)
    /\ UNCHANGED buf

(* retrieveAsString, which never asks for more than there is.              *)
RetrieveAsString(len) ==
    /\ len <= readableBytes(buf)
    /\ result' = SubSeq(Readable(buf), 1, len)
    /\ buf' = retrieve(buf, len)

(* retrieve of more than there is empties the buffer.                      *)
Retrieve(len) ==
    /\ buf' = retrieve(buf, len)
    /\ result' = SubSeq(Readable(buf), 1, IF len <= readableBytes(buf) THEN len ELSE readableBytes(buf))

RetrieveAll ==
    /\ buf' = retrieveAll(buf)
    /\ result' = Readable(buf)

Next ==
    \/ \E data \in Chunks : AppendData(data) \/ ReadFd(data)
    \/ \E n \in 0..(MaxContent + 1) : WriteFd(n) \/ RetrieveAsString(n) \/ Retrieve(n)
    \/ RetrieveAll

Spec == Init /\ [][Next]_vars

-----------------------------------------------------------------------------
(* The indices are in order and within the vector, with kCheapPrepend      *)
(* bytes before them: no size_t difference wraps, no copy leaves the       *)
(* vector, and something can always be prepended.                          *)
IndicesInOrder ==
    /\ kCheapPrepend <= buf.readerIndex_
    /\ buf.readerIndex_ <= buf.writerIndex_
    /\ buf.writerIndex_ <= size(buf)

(* Whatever the calls, the moves and the growth, a Buffer is a queue of    *)
(* bytes.                                                                  *)
Queue == INSTANCE ByteQueue WITH content <- Readable(buf)
ImplementsByteQueue == Queue!Spec

(* makeSpace: the vector grows only if the unread bytes and the prepend    *)
(* space would not fit into it.                                            *)
GrowsOnlyWhenFull ==
    [][size(buf') > size(buf) => readableBytes(buf') + kCheapPrepend > size(buf)]_vars
=============================================================================
