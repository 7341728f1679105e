----------------------------- MODULE FileHandoff -----------------------------
(* One file on its way through the handoff pool (fileLoader.ts): the sender  *)
(* submits its chunks one after the other and then the list of their hashes, *)
(* and whoever has the ticket claims the list and then the chunks.  A claim  *)
(* evicts the entry, and any answer of the pool may be lost.                 *)
(*                                                                          *)
(* The file is the sequence of its bytes' positions; an entry is known by    *)
(* the number of the submission that made it (its hash: every encryption     *)
(* draws a nonce, so equal chunks do not have equal hashes).                 *)
EXTENDS Naturals, Sequences, FiniteSets, SequencesExt, FiniteSetsExt

CONSTANTS
    Download,    \* the calls of downloadFile with the ticket
    MaxLength    \* bound: bytes of the file and of a chunk

ASSUME HandoffAssumption == MaxLength \in Nat

VARIABLES
    file,       \* the bytes, and chunkSize
    upload,     \* how far uploadFile is
    hopPool,    \* the entries of the pool
    submitted,  \* the contents of all entries there have been, by number
    download    \* per call of downloadFile how far it is

handoffVars == <<file, upload, hopPool, submitted, download>>

\* Mutant of ChunkStarts: a last chunk that is not full is left out.
FullChunkStarts(offset) == offset + file.chunkSize <= Len(file.bytes)

\* A chunk starts at every multiple of chunkSize within the file.
ChunkStarts(offset) == offset < Len(file.bytes)

\* splitIntoChunks
Chunks ==
    LET of(k) == SubSeq(file.bytes, k * file.chunkSize + 1, Min({(k + 1) * file.chunkSize, Len(file.bytes)}))
        count == Cardinality({k \in 0..Len(file.bytes) : ChunkStarts(k * file.chunkSize)})
    IN [i \in 1..count |-> of(i - 1)]

HandoffInit ==
    /\ \E length \in 0..MaxLength, chunkSize \in 1..MaxLength :
         file = [bytes |-> [i \in 1..length |-> i], chunkSize |-> chunkSize]
    /\ upload = [stage |-> "sending", hashes |-> <<>>]
    /\ hopPool = {} /\ submitted = <<>>
    /\ download = [d \in Download |-> [stage |-> "new", size |-> 0, chunks |-> <<>>, got |-> <<>>]]

-----------------------------------------------------------------------------
(* uploadFile                                                               *)

\* hop_submit: the pool keeps the entry.
Stores(content) ==
    /\ submitted' = Append(submitted, content)
    /\ hopPool' = hopPool \cup {Len(submitted) + 1}

\* The next chunk is encrypted and submitted once the last one was accepted.
SubmitChunk ==
    /\ upload.stage = "sending" /\ Len(upload.hashes) < Len(Chunks)
    /\ Stores([size |-> 0, chunks |-> <<>>, data |-> Chunks[Len(upload.hashes) + 1]])
    /\ upload' = [upload EXCEPT !.hashes = Append(@, Len(submitted) + 1)]
    /\ UNCHANGED <<file, download>>

\* The list comes last; its hash is the identifier.
SubmitMetadata ==
    /\ upload.stage = "sending" /\ Len(upload.hashes) = Len(Chunks)
    /\ Stores([size |-> Len(file.bytes), chunks |-> upload.hashes, data |-> <<>>])
    /\ upload' = [upload EXCEPT !.stage = "done"]
    /\ UNCHANGED <<file, download>>

\* The pool refuses, or its answer is lost and the entry stays unclaimed.
SubmitFails ==
    /\ upload.stage = "sending" /\ upload' = [upload EXCEPT !.stage = "failed"]
    /\ \/ UNCHANGED <<hopPool, submitted>>
       \/ Stores([size |-> 0, chunks |-> <<>>, data |-> <<>>])
    /\ UNCHANGED <<file, download>>

-----------------------------------------------------------------------------
(* downloadFile                                                             *)

Identifier == Len(submitted)

\* The entry claimed next: the list, then its chunks in order.
Wanted(d) ==
    IF download[d].stage = "new" THEN Identifier ELSE download[d].chunks[Len(download[d].got) + 1]

Claiming(d) ==
    \/ download[d].stage = "new" /\ upload.stage = "done"
    \/ download[d].stage = "claiming" /\ Len(download[d].got) < Len(download[d].chunks)

\* The first entry is the list, the others are chunks.
Claimed(call, entry) ==
    IF call.stage = "new"
      THEN [stage |-> "claiming", size |-> entry.size, chunks |-> entry.chunks, got |-> <<>>]
      ELSE [call EXCEPT !.got = Append(@, entry.data)]

\* hop_claim: the entry is given out once.
Claim(d) ==
    /\ Claiming(d) /\ Wanted(d) \in hopPool
    /\ hopPool' = hopPool \ {Wanted(d)}
    /\ download' = [download EXCEPT ![d] = Claimed(@, submitted[Wanted(d)])]
    /\ UNCHANGED <<file, upload, submitted>>

\* Mutant of FailedClaim: the chunk is passed over.
FailedClaimSkips(call) ==
    IF call.stage = "claiming" THEN [call EXCEPT !.got = Append(@, <<>>)] ELSE [call EXCEPT !.stage = "failed"]

\* andThen: a claim that fails ends the download.
FailedClaim(call) == [call EXCEPT !.stage = "failed"]

\* There is nothing to claim, or the answer is lost: then the entry is, too.
ClaimFails(d) ==
    /\ Claiming(d)
    /\ hopPool' \in {hopPool, hopPool \ {Wanted(d)}}
    /\ download' = [download EXCEPT ![d] = FailedClaim(@)]
    /\ UNCHANGED <<file, upload, submitted>>

\* The chunks are put together; their length must be the one that was listed.
Reassemble(d) ==
    /\ download[d].stage = "claiming" /\ Len(download[d].got) = Len(download[d].chunks)
    /\ download' = [download EXCEPT ![d].stage =
         IF Len(FlattenSeq(download[d].got)) = download[d].size THEN "done" ELSE "mismatch"]
    /\ UNCHANGED <<file, upload, hopPool, submitted>>

HandoffNext ==
    \/ SubmitChunk \/ SubmitMetadata \/ SubmitFails
    \/ \E d \in Download : Claim(d) \/ ClaimFails(d) \/ Reassemble(d)

HandoffSpec == HandoffInit /\ [][HandoffNext]_handoffVars

-----------------------------------------------------------------------------
(* Properties                                                               *)

HandoffTypeOK ==
    /\ hopPool \subseteq DOMAIN submitted
    /\ \A d \in Download : Len(download[d].got) <= Len(download[d].chunks)

\* Who is told that a file was handed over has all of it, in order, at any
\* length and size of chunk, and never more than one call is; the chunks of an
\* honest sender are never of another length than it listed, and until the
\* list is claimed nothing it lists is (fileLoader.ts:43-157).
FileIsWhole ==
    /\ HandoffTypeOK
    /\ \A d \in Download :
         /\ download[d].stage = "done" => FlattenSeq(download[d].got) = file.bytes
         /\ download[d].stage # "mismatch"
         /\ \A e \in Download \ {d} : {download[d].stage, download[e].stage} # {"done"}
    /\ upload.stage = "done" /\ Identifier \in hopPool => hopPool = DOMAIN submitted
=============================================================================
