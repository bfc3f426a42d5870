--------------------------- MODULE OutputCapture ---------------------------
(***************************************************************************)
(* The output of one step: OutputCapture (crates/hull-ci-node/src/         *)
(* capture.rs), fed in chunks by pump (process.rs), sealed by finish, and  *)
(* redacted by Masker (crates/hull-ci-secrets/src/mask.rs) before anything *)
(* leaves the node.  A byte is a member of Bytes; NL ends a line.          *)
(***************************************************************************)
EXTENDS Naturals, FiniteSets, SequencesExt

CONSTANTS
  Bytes, NL,            \* what a job may print
  MaxBytes, ByteSlack,  \* OutputCaps and how far the buffer may run over
  MaxLines, LineSlack,
  Values,               \* the secrets delivered to the step: sequences of bytes
  MinMaskable,          \* MIN_MASKABLE_LEN
  MaxPrinted, MaxChunk  \* bounds: bytes a job prints, and bytes pump reads at a time

Star == "*"

ASSUME OutputCaptureAssumption ==
  /\ {MaxBytes, ByteSlack, MaxLines, LineSlack, MaxPrinted, MaxChunk} \subseteq Nat
  /\ MinMaskable \in Nat \ {0}
  /\ NL \in Bytes /\ Star \notin Bytes
  /\ IsFiniteSet(Values) /\ \A v \in Values : v \in Seq(Bytes)

VARIABLES
  printed,   \* history: everything the job printed
  buf, lines, droppedBytes, droppedLines,
  sealed,    \* the CapturedOutput, and its redacted form
  shown,
  giant      \* history: a trim found no line boundary to cut at

captureVars == <<printed, buf, lines, droppedBytes, droppedLines, sealed, shown, giant>>

Newlines(s) == Cardinality({i \in 1..Len(s) : s[i] = NL})
From(s, cut) == SubSeq(s, cut + 1, Len(s))

\* Mutant: the line that straddles the cut stays.
ByteCutMidLine(s) == IF Len(s) <= MaxBytes THEN 0 ELSE Len(s) - MaxBytes

\* The first half of trim: where to cut so that MaxBytes hold, at the end of a line;
\* with no line boundary left, everything goes.
ByteCut(s) ==
  IF Len(s) <= MaxBytes THEN 0
  ELSE LET over == Len(s) - MaxBytes
           ends == {i \in over + 1..Len(s) : s[i] = NL}
       IN  IF ends = {} THEN Len(s) ELSE CHOOSE i \in ends : \A j \in ends : i <= j

\* The second half: the end of as many further lines as exceed MaxLines.
LineCut(s, cut) ==
  LET excess == Newlines(From(s, cut)) - MaxLines
  IN  IF Newlines(From(s, cut)) <= MaxLines THEN cut
      ELSE CHOOSE i \in cut + 1..Len(s) : s[i] = NL /\ Newlines(SubSeq(s, cut + 1, i)) = excess

TrimAt(s) == LineCut(s, ByteCut(s))

\* Mutant: the lines that the byte cut takes are not counted as dropped.
TrimmedUncounted(s, l) ==
  /\ buf' = From(s, TrimAt(s))
  /\ lines' = l - Newlines(SubSeq(s, 1, TrimAt(s)))
  /\ droppedBytes' = droppedBytes + TrimAt(s)
  /\ droppedLines' = droppedLines + Newlines(SubSeq(s, ByteCut(s) + 1, TrimAt(s)))
  /\ giant' = (giant \/ (Len(s) > MaxBytes /\ ByteCut(s) = Len(s)))

\* trim, on a buffer s with l lines.
Trimmed(s, l) ==
  /\ buf' = From(s, TrimAt(s))
  /\ lines' = l - Newlines(SubSeq(s, 1, TrimAt(s)))
  /\ droppedBytes' = droppedBytes + TrimAt(s)
  /\ droppedLines' = droppedLines + Newlines(SubSeq(s, 1, TrimAt(s)))
  /\ giant' = (giant \/ (Len(s) > MaxBytes /\ ByteCut(s) = Len(s)))

\* Mutant: the buffer is trimmed at the end only.
OverSlackNever(s, l) == FALSE

OverSlack(s, l) == Len(s) > MaxBytes + ByteSlack \/ l > MaxLines + LineSlack

\* push.
Push(chunk) ==
  LET s == buf \o chunk  l == lines + Newlines(chunk) IN
  /\ sealed = "open" /\ Len(printed) + Len(chunk) <= MaxPrinted
  /\ printed' = printed \o chunk
  /\ IF OverSlack(s, l) THEN Trimmed(s, l)
     ELSE buf' = s /\ lines' = l /\ UNCHANGED <<droppedBytes, droppedLines, giant>>
  /\ UNCHANGED <<sealed, shown>>

-----------------------------------------------------------------------------
\* v is in s at i.
OccursAt(v, s, i) == i + Len(v) - 1 <= Len(s) /\ SubSeq(s, i, i + Len(v) - 1) = v

\* The loop of replace_all, from each place of s to its end.
ReplaceFrom(s, v) ==
  LET out[i \in 1..Len(s) + 1] ==
        IF i > Len(s) THEN <<>>
        ELSE IF OccursAt(v, s, i) THEN <<Star>> \o out[i + Len(v)]
        ELSE <<s[i]>> \o out[i + 1]
  IN  out

\* replace_all: the leftmost occurrences of v, left to right.
Masked(s, v) == ReplaceFrom(s, v)[1]

Maskable(values) == {v \in values : Len(v) >= MinMaskable}

\* Mutant: the shortest value first.
MaskOrderShortest(values) ==
  CHOOSE order \in SetToSeqs(Maskable(values)) :
    \A i, j \in DOMAIN order : i < j => Len(order[i]) <= Len(order[j])

\* Masker::register: too short a value is refused; the rest longest first.
MaskOrder(values) ==
  CHOOSE order \in SetToSeqs(Maskable(values)) :
    \A i, j \in DOMAIN order : i < j => Len(order[i]) >= Len(order[j])

\* The loop of mask_bytes.
MaskEach(s, order) ==
  LET masked[n \in 0..Len(order)] == IF n = 0 THEN s ELSE Masked(masked[n - 1], order[n])
  IN  masked

\* mask_bytes.
Mask(s) == MaskEach(s, MaskOrder(Values))[Len(MaskOrder(Values))]

\* finish, then redact_with.
Finish ==
  /\ sealed = "open" /\ sealed' = "sealed"
  /\ Trimmed(buf, lines)
  /\ shown' = Mask(buf')
  /\ UNCHANGED printed

CaptureInit ==
  /\ printed = <<>> /\ buf = <<>> /\ lines = 0 /\ droppedBytes = 0 /\ droppedLines = 0
  /\ sealed = "open" /\ shown = <<>> /\ giant = FALSE

CaptureNext == Finish \/ \E n \in 1..MaxChunk : \E chunk \in [1..n -> Bytes] : Push(chunk)

CaptureSpec == CaptureInit /\ [][CaptureNext]_captureVars

-----------------------------------------------------------------------------
\* The buffer is the tail of what was printed and the counters account for the
\* rest, however the output was chunked and however often it was trimmed.
TailIsKept ==
  /\ buf = From(printed, droppedBytes)
  /\ lines = Newlines(buf) /\ droppedLines = Newlines(printed) - lines

\* The buffer never keeps more than the caps and the slack, the sealed capture never
\* more than the caps, and output within the caps is kept whole.
CaptureIsBounded ==
  /\ Len(buf) <= MaxBytes + ByteSlack /\ lines <= MaxLines + LineSlack
  /\ sealed = "sealed" => Len(buf) <= MaxBytes /\ lines <= MaxLines
  /\ Len(printed) <= MaxBytes /\ Newlines(printed) <= MaxLines => droppedBytes = 0

\* What is kept starts at the beginning of a line, unless some line was longer than
\* the whole window.
NoHalfLine ==
  droppedBytes > 0 /\ buf # <<>> /\ ~giant => printed[droppedBytes] = NL

\* "cutting on a line boundary so we never emit half a line".
NeverHalfLine ==
  droppedBytes > 0 /\ buf # <<>> => printed[droppedBytes] = NL

Occurs(v, s) == \E i \in 1..Len(s) : OccursAt(v, s, i)

\* No delivered value that can be masked is left in what is shown, a value that
\* contains another is hidden whole, and masking never makes the output longer.
MaskedIsHidden ==
  /\ Len(shown) <= Len(buf)
  /\ \A v \in Values : Len(v) >= MinMaskable => ~Occurs(v, shown) /\ Mask(v) = <<Star>>

\* The tail a step reports is whole, in bounds, starts on a line and shows no secret, in
\* whatever pieces the output arrives.
CaptureIsSound == TailIsKept /\ CaptureIsBounded /\ NoHalfLine /\ MaskedIsHidden
=============================================================================
