---------------------------- MODULE InputReader ----------------------------
(***************************************************************************)
(* How the bytes of a document reach the tokenizer: EolNormalizer turns    *)
(* CR LF and lone CR into LF over whatever pieces the reader beneath it    *)
(* hands out, and PositionTrackingReader and SliceSource count lines and   *)
(* columns over what is consumed, each at its own moments.                 *)
(*                                                                         *)
(* A byte is "CR", "LF", "x" (a character of one byte) or one of the three *)
(* bytes of a byte order mark, of which the last two are continuation      *)
(* bytes.  The reader beneath (a BufRead) is external: it hands out any    *)
(* non-empty piece of what is left, and the same piece until it is         *)
(* consumed.  The tokenizer consumes any part of what it is given.         *)
(***************************************************************************)
EXTENDS Naturals, Sequences, FiniteSets

CONSTANTS Inputs,   \* the byte sequences that are read
          Chunk     \* NORMALIZE_CHUNK: most bytes normalized per fill

Byte == {"CR", "LF", "x", "EF", "BB", "BF"}

ASSUME InputsAssumption == Inputs \subseteq Seq(Byte) /\ Chunk \in Nat \ {0}

Bom == <<"EF", "BB", "BF">>

VARIABLES input,      \* the whole input
          rest,       \* what the inner reader has not been asked to drop
          avail,      \* how much of it the inner reader's buffer holds
          clean,      \* prefix of the inner buffer known to hold no CR
          normalized, \* normalized bytes, delivered from pos on
          pos,
          skipLf,     \* the last byte normalized was a CR
          atStart,    \* nothing has been read yet
          pc,         \* where fill_buf is
          taken,      \* how much of the inner buffer this fill has normalized
          fills,      \* the buffers the first fill_buf returned (at most one)
          out,        \* the bytes the tokenizer consumed
          tracked,    \* line and column of PositionTrackingReader
          scanned,    \* how much of out SliceSource has counted
          lazy        \* its line and column

reader  == <<rest, avail>>
buffers == <<clean, normalized, pos, skipLf, atStart>>
counts  == <<tracked, scanned, lazy>>
readerVars == <<input, reader, buffers, pc, taken, fills, out, counts>>

DropFirst(s, n)  == SubSeq(s, n + 1, Len(s))
Begins(s)   == \E n \in 0..3 : s = SubSeq(Bom, 1, n)
StartsWith(s, t) == Len(t) <= Len(s) /\ SubSeq(s, 1, Len(t)) = t

----------------------------------------------------------------------------
(* Positions. *)

Continuation == {"BB", "BF"}

Breaks(s) == {i \in DOMAIN s : s[i] = "LF"}

\* The characters after the last line break.
LastLine(s) == {i \in DOMAIN s : s[i] \notin Continuation /\ \A j \in Breaks(s) : j < i}

\* Mutant: the column restarts at the first line break of a piece.
TrackFirst(bytes, at) ==
  [line   |-> at.line + Cardinality(Breaks(bytes)),
   column |-> IF Breaks(bytes) = {} THEN at.column + Cardinality(LastLine(bytes))
              ELSE 1 + Cardinality({i \in DOMAIN bytes : bytes[i] \notin Continuation
                                                        /\ \E j \in Breaks(bytes) : j < i})]

\* The bulk update for a consumed piece: newlines are counted in it, and the
\* column restarts after the last of them.
Track(bytes, at) ==
  [line   |-> at.line + Cardinality(Breaks(bytes)),
   column |-> (IF Breaks(bytes) = {} THEN at.column ELSE 1) + Cardinality(LastLine(bytes))]

Start == [line |-> 1, column |-> 1]

----------------------------------------------------------------------------
(* The inner reader: fill_buf keeps a buffer that is not consumed. *)

Filled == IF avail > 0 THEN {avail}
          ELSE IF rest = <<>> THEN {0} ELSE 1..Len(rest)

----------------------------------------------------------------------------
ReaderInit ==
  /\ input \in Inputs
  /\ rest = input /\ avail = 0
  /\ clean = 0 /\ normalized = <<>> /\ pos = 0 /\ skipLf = FALSE /\ atStart = TRUE
  /\ pc = "fill" /\ taken = 0 /\ fills = <<>> /\ out = <<>>
  /\ tracked = Start /\ scanned = 0 /\ lazy = Start

\* fill_buf, up to what it has to look at: normalized bytes left over are
\* handed out as they are.
FillBuf ==
  /\ pc = "fill"
  /\ pc' = CASE pos < Len(normalized) -> "filled"
             [] pos >= Len(normalized) /\ atStart -> "bom"
             [] pos >= Len(normalized) /\ ~atStart /\ clean = 0 -> "scan"
             [] OTHER -> "filled"
  /\ atStart' = IF pc' = "bom" THEN FALSE ELSE atStart
  /\ UNCHANGED <<input, reader, clean, normalized, pos, skipLf, taken, fills, out, counts>>

\* Mutant: a first piece is taken as it comes.
JoinSplitBomNever ==
  /\ pc = "bom" /\ pc' = "scan"
  /\ UNCHANGED <<input, reader, buffers, taken, fills, out, counts>>

\* join_split_bom: only a first piece that is a proper start of a byte order
\* mark is taken apart.
JoinSplitBom ==
  /\ pc = "bom"
  /\ \E n \in Filled :
       /\ avail' = n
       /\ LET chunk == SubSeq(rest, 1, n)
          IN  IF n = 0 \/ n >= Len(Bom) \/ ~Begins(chunk)
              THEN pc' = (IF clean = 0 THEN "scan" ELSE "filled") /\ normalized' = normalized
              ELSE pc' = "join" /\ normalized' = <<>>
  /\ UNCHANGED <<input, rest, clean, pos, skipLf, atStart, taken, fills, out, counts>>

\* One byte at a time, until the mark is whole, broken off, or the input ends.
JoinByte ==
  /\ pc = "join"
  /\ \E n \in Filled :
       LET head == IF n = 0 \/ Len(normalized) >= Len(Bom) THEN normalized
                   ELSE Append(normalized, rest[1])
           more == head # normalized /\ Begins(head) /\ Len(head) < Len(Bom)
           cr   == ~more /\ head[Len(head)] = "CR"
       IN  /\ IF head = normalized THEN avail' = n /\ rest' = rest
              ELSE avail' = n - 1 /\ rest' = Tail(rest)
           /\ normalized' = IF cr THEN [head EXCEPT ![Len(head)] = "LF"] ELSE head
           /\ skipLf' = (skipLf \/ cr)
           /\ pos' = 0
           /\ pc' = IF more THEN "join" ELSE "filled"
  /\ UNCHANGED <<input, clean, atStart, taken, fills, out, counts>>

----------------------------------------------------------------------------
(* The loop that looks for a CR in the next piece, one action per way it   *)
(* can go on: the input has ended, an LF after a CR is dropped, the piece  *)
(* begins with a CR and is to be normalized, or it does not.               *)

InputEnds ==
  /\ pc = "scan" /\ 0 \in Filled
  /\ pc' = "filled"
  /\ UNCHANGED <<input, reader, buffers, taken, fills, out, counts>>

Swallows == skipLf /\ rest[1] = "LF"

DropLf ==
  /\ pc = "scan"
  /\ \E n \in Filled \ {0} :
       /\ Swallows
       /\ avail' = n - 1 /\ rest' = Tail(rest)
  /\ skipLf' = FALSE
  /\ UNCHANGED <<input, clean, normalized, pos, atStart, pc, taken, fills, out, counts>>

BeginNormalizing ==
  /\ pc = "scan"
  /\ \E n \in Filled \ {0} : ~Swallows /\ rest[1] = "CR" /\ avail' = n
  /\ normalized' = <<>> /\ pos' = 0 /\ skipLf' = FALSE
  /\ pc' = "normalize" /\ taken' = 0
  /\ UNCHANGED <<input, rest, clean, atStart, fills, out, counts>>

\* n more bytes of the piece are free of CRs, and no more than n are known to be.
RunTo(from, n, to) ==
  /\ \A i \in from + 1 .. n : rest[i] # "CR"
  /\ n < to => rest[n + 1] = "CR"

PassThrough ==
  /\ pc = "scan"
  /\ \E n \in Filled \ {0} :
       /\ ~Swallows /\ rest[1] # "CR"
       /\ avail' = n
       /\ clean' \in 1..n /\ RunTo(0, clean', n)
  /\ skipLf' = FALSE /\ pc' = "filled"
  /\ UNCHANGED <<input, rest, normalized, pos, atStart, taken, fills, out, counts>>

\* At most NORMALIZE_CHUNK bytes of the piece are normalized at once.
Window == IF avail < Chunk THEN avail ELSE Chunk

\* Mutant: a CR that ends a piece is forgotten.
NormalizeForgets ==
  /\ pc = "normalize" /\ taken < Window
  /\ \E n \in taken..Window :
       /\ RunTo(taken, n, Window)
       /\ normalized' = normalized \o SubSeq(rest, taken + 1, n) \o (IF n = Window THEN <<>> ELSE <<"LF">>)
       /\ taken' = IF n = Window THEN n ELSE IF n + 1 < avail /\ rest[n + 2] = "LF" THEN n + 2 ELSE n + 1
  /\ UNCHANGED <<input, reader, clean, pos, skipLf, atStart, pc, fills, out, counts>>

\* One turn of the inner loop: the run up to the next CR as it is, and for the
\* CR an LF, with the LF after it skipped.  The byte looked at after the CR may
\* be one past the window; when the piece ends with the CR, the next fill looks.
Normalize ==
  /\ pc = "normalize" /\ taken < Window
  /\ \E n \in taken..Window :
       LET run == SubSeq(rest, taken + 1, n)
       IN  /\ RunTo(taken, n, Window)
           /\ \/ /\ n = Window
                 /\ normalized' = normalized \o run
                 /\ taken' = n /\ skipLf' = skipLf
              \/ /\ n < Window
                 /\ normalized' = normalized \o Append(run, "LF")
                 /\ taken' = IF n + 1 < avail /\ rest[n + 2] = "LF" THEN n + 2 ELSE n + 1
                 /\ skipLf' = (n + 1 = avail)
  /\ UNCHANGED <<input, reader, clean, pos, atStart, pc, fills, out, counts>>

EndNormalizing ==
  /\ pc = "normalize" /\ taken >= Window
  /\ avail' = avail - taken /\ rest' = DropFirst(rest, taken)
  /\ taken' = 0 /\ pc' = "filled"
  /\ UNCHANGED <<input, buffers, fills, out, counts>>

----------------------------------------------------------------------------
\* What fill_buf returns.
Buffer == IF pos < Len(normalized) THEN DropFirst(normalized, pos)
          ELSE SubSeq(rest, 1, IF clean < avail THEN clean ELSE avail)

\* The tokenizer takes k bytes: consume of the position reader, which counts
\* them, then of the normalizer.  An empty buffer is the end of the input.
Consume(k) ==
  /\ pc = "filled"
  /\ k \in 0..Len(Buffer)
  /\ fills' = IF fills = <<>> THEN <<Buffer>> ELSE fills
  /\ out' = out \o SubSeq(Buffer, 1, k)
  /\ tracked' = Track(SubSeq(Buffer, 1, k), tracked)
  /\ IF pos < Len(normalized)
     THEN pos' = pos + k /\ UNCHANGED <<clean, reader>>
     ELSE /\ clean' = clean - k
          /\ avail' = avail - k /\ rest' = DropFirst(rest, k) /\ pos' = pos
  /\ pc' = IF Buffer = <<>> THEN "end" ELSE "fill"
  /\ UNCHANGED <<input, normalized, skipLf, atStart, taken, scanned, lazy>>

\* SliceSource.line_column: counts what was read since the last question.
LineColumn ==
  /\ scanned < Len(out)
  /\ lazy' = Track(DropFirst(out, scanned), lazy)
  /\ scanned' = Len(out)
  /\ UNCHANGED <<input, reader, buffers, pc, taken, fills, out, tracked>>

\* The input has ended and nobody asks for a position any more.
Finished == pc = "end" /\ scanned = Len(out) /\ UNCHANGED readerVars

ReaderNext == \/ FillBuf \/ JoinSplitBom \/ JoinByte
              \/ InputEnds \/ DropLf \/ BeginNormalizing \/ PassThrough
              \/ Normalize \/ EndNormalizing
              \/ \E k \in 0..Len(Buffer) : Consume(k)
              \/ LineColumn \/ Finished

ReaderSpec == ReaderInit /\ [][ReaderNext]_readerVars

----------------------------------------------------------------------------
(* Properties. *)

\* The normal form of XML 1.0 2.11, read off the input at once: every byte
\* but an LF after a CR, in order, with a CR as an LF.
Kept(s) == {i \in DOMAIN s : ~(s[i] = "LF" /\ i > 1 /\ s[i - 1] = "CR")}
Rank(s, n) == Cardinality(Kept(s) \cap 1..n)
Nth(s, k) == CHOOSE i \in Kept(s) : Rank(s, i) = k
NormalByte(b) == IF b = "CR" THEN "LF" ELSE b

\* The normal form of the first n bytes, and of all.
NormalTo(s, n) == [k \in 1..Rank(s, n) |-> NormalByte(s[Nth(s, k)])]
Normal(s) == NormalTo(s, Len(s))

\* quick-xml recognizes a byte order mark only when the first buffer it sees
\* holds all of it: a mark that arrives in pieces is put together
\* (eol.rs, join_split_bom).
BomInOnePiece ==
  fills # <<>> /\ StartsWith(Normal(input), Bom) => StartsWith(fills[1], Bom)

\* However the input is cut into pieces and however it is consumed, the
\* tokenizer reads exactly the normal form of the input, a byte order mark
\* in one piece, and is told that the input has ended only when it has read
\* all of it (eol.rs).
DeliversNormalized ==
  /\ StartsWith(Normal(input), out)
  /\ BomInOnePiece
  /\ pc = "end" => out = Normal(input)

\* The line and column after s, from the definition.
PositionAfter(s) ==
  [line |-> 1 + Cardinality(Breaks(s)), column |-> 1 + Cardinality(LastLine(s))]

\* The reader that counts each consumed piece and the in-memory source that
\* counts on demand report the line and column of the text itself: "the same
\* events, positions and errors" (source.rs).
PositionsAgree ==
  /\ tracked = PositionAfter(out)
  /\ lazy = PositionAfter(SubSeq(out, 1, scanned))

\* Both: in whatever pieces a reader delivers the input, the parser reads what
\* it would read of a string, and its errors name the place in that string
\* (eol.rs, position.rs, source.rs).
ReadsTheString == DeliversNormalized /\ PositionsAgree
=============================================================================
