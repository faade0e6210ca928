----------------------------- MODULE TaskOutput -----------------------------
(***************************************************************************)
(* core/tasks.py: what becomes of the bytes a tool's process writes.  The  *)
(* worker thread reads them in chunks as they come, takes known secrets    *)
(* out, appends them to the artifact of the stream and puts them into the  *)
(* ring the screen is fed from; the owner thread drains the ring whenever  *)
(* it likes.  The finished artifact is shown page by page.                 *)
(*                                                                         *)
(* Bytes: a lead byte (L or M) and a continuation (c or d) make up a       *)
(* character, the other letters stand alone; * is the text put in place of *)
(* a secret.                                                               *)
(***************************************************************************)
EXTENDS Naturals, Sequences, SequencesExt, FiniteSetsExt

CONSTANTS
    Written,        \* what the process may write to a stream
    Secrets,        \* values of the environment that are secret
    ChunkBytes,     \* os.read: the most bytes of one chunk
    RingBytes,      \* ui_ring_bytes
    PageBytes       \* bytes of a page

ASSUME OutputAssumption ==
    /\ Written \subseteq Seq(STRING) /\ Secrets \subseteq Seq(STRING) \ {<<>>}
    /\ ChunkBytes \in Nat \ {0} /\ RingBytes \in Nat \ {0}
    /\ PageBytes \in Nat \ {0}

Streams == {"stdout", "stderr"}
Lead == {"L", "M"}
Continuation == {"c", "d"}

VARIABLES
    output,         \* per stream: what the process writes
    taken,          \* ... and how many bytes of it were read
    withheld,       \* _SecretRedactor.pending
    artifact,       \* per stream: the bytes of the file
    ring,           \* _ui: chunks, each with its stream
    gaps,           \* _ui_decoder_gaps: streams that lost bytes
    decoder,        \* per stream: the bytes the decoder holds back
    shown,          \* per stream: the characters on the screen
    lossless,       \* nothing was dropped
    closing         \* "open", "final" (_ui_final) or "drained"

outputVars == <<output, taken, withheld, artifact, ring, gaps, decoder,
                shown, lossless, closing>>

OutputInit ==
    /\ output \in [Streams -> Written]
    /\ taken = [s \in Streams |-> 0]
    /\ withheld = [s \in Streams |-> <<>>]
    /\ artifact = [s \in Streams |-> <<>>]
    /\ ring = <<>> /\ gaps = {} /\ lossless = TRUE
    /\ decoder = [s \in Streams |-> <<>>]
    /\ shown = [s \in Streams |-> <<>>]
    /\ closing = "open"

-----------------------------------------------------------------------------
(* _SecretRedactor.feed *)

SecretsAt(bytes, i) ==
    {s \in Secrets : IsPrefix(s, SubSeq(bytes, i, Len(bytes)))}

\* The rest may be the beginning of a secret: wait for the next chunk.
MayBecomeSecret(rest) == \E s \in Secrets : IsPrefix(rest, s)

\* The clean bytes, and those that are held back; the longest secret first.
Feed(bytes, final) ==
    LET walk[i \in 1..Len(bytes) + 1] ==
          LET rest == SubSeq(bytes, i, Len(bytes))
              found == SecretsAt(bytes, i)
              after == walk[i + 1] IN
          IF i > Len(bytes) THEN [out |-> <<>>, kept |-> <<>>]
          ELSE IF found # {}
            THEN LET longest == CHOOSE s \in found :
                           \A u \in found : Len(u) <= Len(s)
                     past == walk[i + Len(longest)]
                 IN  [past EXCEPT !.out = <<"*">> \o @]
          ELSE IF ~final /\ MayBecomeSecret(rest)
            THEN [out |-> <<>>, kept |-> rest]
          ELSE [after EXCEPT !.out = <<bytes[i]>> \o @]
    IN  walk[1]

-----------------------------------------------------------------------------
(* The decoders of the screen *)

\* Characters, and the bytes of one that has only begun.
Decode(bytes, final) ==
    LET walk[i \in 1..Len(bytes) + 2] ==
          IF i > Len(bytes) THEN [out |-> <<>>, held |-> <<>>]
          ELSE LET after == walk[i + 1]
                   pair == walk[i + 2] IN
               IF bytes[i] \in Lead /\ i = Len(bytes) /\ ~final
                 THEN [out |-> <<>>, held |-> <<bytes[i]>>]
               ELSE IF bytes[i] \in Lead /\ i < Len(bytes)
                       /\ bytes[i + 1] \in Continuation
                 THEN [pair EXCEPT !.out = <<bytes[i] \o bytes[i + 1]>> \o @]
               ELSE [after EXCEPT !.out =
                       <<IF bytes[i] \in Lead \cup Continuation
                         THEN "?" ELSE bytes[i]>> \o @]
    IN  walk[1]

Text(bytes) == Decode(bytes, TRUE).out

-----------------------------------------------------------------------------
(* The worker: _write_output and _publish_output *)

Bytes(chunks) == FoldSeq(LAMBDA chunk, sum : sum + Len(chunk.data), 0, chunks)

\* The ring keeps its newest chunks, and the tail of one that is too long.
Published(s, data) ==
    LET tail == IF Len(data) > RingBytes
                THEN SubSeq(data, Len(data) - RingBytes + 1, Len(data))
                ELSE data
        fits == {i \in 0..Len(ring) :
                   Bytes(SubSeq(ring, i + 1, Len(ring))) + Len(tail)
                     <= RingBytes}
        out == CHOOSE i \in fits : \A j \in fits : i <= j IN
    IF data = <<>> THEN UNCHANGED <<ring, gaps, lossless>>
    ELSE /\ ring' = Append(SubSeq(ring, out + 1, Len(ring)),
                           [stream |-> s, data |-> tail])
         /\ gaps' = gaps \cup {ring[i].stream : i \in 1..out}
                         \cup (IF tail # data THEN {s} ELSE {})
         /\ lossless' = (lossless /\ out = 0 /\ tail = data)

WriteOutput(s) ==
    \E n \in 1..ChunkBytes :
        /\ closing = "open" /\ taken[s] + n <= Len(output[s])
        /\ LET fed == Feed(withheld[s] \o
                           SubSeq(output[s], taken[s] + 1, taken[s] + n), FALSE)
           IN  /\ withheld' = [withheld EXCEPT ![s] = fed.kept]
               /\ artifact' = [artifact EXCEPT ![s] = @ \o fed.out]
               /\ Published(s, fed.out)
        /\ taken' = [taken EXCEPT ![s] = @ + n]
        /\ UNCHANGED <<output, decoder, shown, closing>>

\* _flush_redactors, one stream after the other; then finish() closes.
FlushRedactor(s) ==
    /\ closing = "open" /\ withheld[s] # <<>>
    /\ \A u \in Streams : taken[u] = Len(output[u])
    /\ LET fed == Feed(withheld[s], TRUE) IN
       /\ artifact' = [artifact EXCEPT ![s] = @ \o fed.out]
       /\ Published(s, fed.out)
    /\ withheld' = [withheld EXCEPT ![s] = <<>>]
    /\ UNCHANGED <<output, taken, decoder, shown, closing>>

CloseArtifacts ==
    /\ closing = "open" /\ \A s \in Streams :
          taken[s] = Len(output[s]) /\ withheld[s] = <<>>
    /\ closing' = "final"
    /\ UNCHANGED <<output, taken, withheld, artifact, ring, gaps, decoder,
                   shown, lossless>>

-----------------------------------------------------------------------------
(* The owner *)

AfterGaps == [s \in Streams |-> IF s \in gaps THEN <<>> ELSE decoder[s]]

DrainOutput ==
    /\ closing # "drained" /\ (ring # <<>> \/ closing = "final")
    /\ LET of(s) == AfterGaps[s] \o FoldLeft(
                        LAMBDA bytes, chunk : bytes \o chunk.data, <<>>,
                        SelectSeq(ring, LAMBDA chunk : chunk.stream = s))
           read == [s \in Streams |-> Decode(of(s), closing = "final")]
       IN  /\ shown' = [s \in Streams |-> shown[s] \o read[s].out]
           /\ decoder' = [s \in Streams |-> read[s].held]
    /\ ring' = <<>> /\ gaps' = {}
    /\ closing' = IF closing = "final" THEN "drained" ELSE closing
    /\ UNCHANGED <<output, taken, withheld, artifact, lossless>>

OutputNext ==
    \/ \E s \in Streams : WriteOutput(s) \/ FlushRedactor(s)
    \/ CloseArtifacts \/ DrainOutput

OutputSpec == OutputInit /\ [][OutputNext]_outputVars

-----------------------------------------------------------------------------
(* artifact_page: what page n shows of the two files in a row *)

\* As many bytes as there are.
ReadAt(bytes, start, count) ==
    SubSeq(bytes, start + 1, Min({start + count, Len(bytes)}))

\* _read_utf8_window: a window begins after the continuation bytes it finds
\* and runs on over those that follow it.
Window(bytes, start, count) ==
    LET data == ReadAt(bytes, start, count + 1)
        begin == IF start > 0 /\ data # <<>> /\ data[1] \in Continuation
                 THEN 1 ELSE 0
        end == IF Len(data) > count /\ data[count + 1] \in Continuation
               THEN count + 1 ELSE Min({count, Len(data)})
    IN  SubSeq(data, begin + 1, end)

ArtifactPage(n) ==
    LET a == artifact["stdout"]   b == artifact["stderr"]
        offset == (n - 1) * PageBytes
        first == IF offset >= Len(a) THEN 0
                 ELSE Min({PageBytes, Len(a) - offset})
        start == IF offset >= Len(a) THEN offset - Len(a) ELSE 0
        room == PageBytes - first
        second == Min({room, Len(b) - start})
    IN  (IF first > 0 THEN Text(Window(a, offset, first)) ELSE <<>>) \o
        (IF room > 0 /\ start < Len(b) THEN Text(Window(b, start, second))
         ELSE <<>>)

PageCount == (Len(artifact["stdout"]) + Len(artifact["stderr"])
              + PageBytes - 1) \div PageBytes

-----------------------------------------------------------------------------
(* Properties *)

\* However the output falls into chunks, the file holds the output with every
\* secret replaced; its pages, one after the other, hold each character once;
\* and the screen shows the same text, or, when the ring overflowed, nothing
\* but characters of it.
OutputIsWhole ==
    /\ closing # "open" =>
         /\ \A s \in Streams : artifact[s] = Feed(output[s], TRUE).out
         /\ FoldLeft(LAMBDA text, n : text \o ArtifactPage(n), <<>>,
                     [n \in 1..PageCount |-> n])
              = Text(artifact["stdout"]) \o Text(artifact["stderr"])
    /\ \A s \in Streams :
         LET whole == Text(artifact[s]) IN
         /\ closing = "drained" /\ lossless => shown[s] = whole
         /\ \A i \in 1..Len(shown[s]) :
              shown[s][i] # "?" => \E j \in 1..Len(whole) : whole[j] = shown[s][i]
=============================================================================
