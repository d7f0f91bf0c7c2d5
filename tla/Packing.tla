------------------------------- MODULE Packing -------------------------------
(***************************************************************************)
(* Cutting a memory into the spans the index holds a document for: pack of *)
(* crates/index/src/spans.rs, over every short text of the given lines.    *)
(*                                                                         *)
(* A text is its lines, a line what the cut looks at: what it opens, its   *)
(* cells, and how many tokens each of its sentences is.  Between tokens is *)
(* whitespace, except inside a word, so a range of tokens is always        *)
(* trimmed.  A range that ends inside a word counts one token more than it *)
(* held in place: counted on its own, it is read differently.              *)
(***************************************************************************)
EXTENDS Integers, FiniteSets, SequencesExt

CONSTANTS
  Lines,         \* [opens: what it opens, or "nothing"; length: of its fence, all of one
                 \*  marker, bare: nothing after it; cells: 0 without a pipe, rule: of dashes; sentences; word:
                 \*  whether each sentence is one word]
  MaxLines,      \* a bound
  Cap,           \* the most tokens of a span
  HeaderTokens,  \* HEADER_TOKENS
  NameTokens     \* of the memory's name

ASSUME PackingAssumption ==
  /\ MaxLines \in Nat /\ HeaderTokens \in Nat /\ NameTokens \in Nat
  /\ Cap \in Nat \ {0, 1}   \* a token cut out of a word is counted as two

VARIABLES
  text,
  packing   \* pack's locals, and how far it has come

packingVars == <<text, packing>>

LeastOf(S) == CHOOSE n \in S : \A m \in S : n <= m
MostOf(S) == CHOOSE n \in S : \A m \in S : n >= m

-----------------------------------------------------------------------------
(* Tokens.                                                                 *)

\* What the tokenizer makes of the text: TokenCount::offsets.
TokensOf(lines) ==
  FlattenSeq([i \in DOMAIN lines |->
    FlattenSeq([s \in DOMAIN lines[i].sentences |->
      [k \in 1..lines[i].sentences[s] |->
        [line |-> i, sentence |-> s, joined |-> lines[i].word /\ k > 1]]])])

Between(from, to) == [from |-> from, to |-> to]
Size(range) == range.to - range.from + 1
IsEmpty(range) == range.to < range.from

Count(t, range) ==
  Size(range) + IF range.to < Len(t) /\ t[range.to + 1].joined THEN 1 ELSE 0

\* The token the i-th of those counted in `range` starts in.
OffsetOf(range, i) == range.from + LeastOf({i, Size(range) - 1})

\* `range` in its runs of tokens of one Of.
Runs(t, range, Of(_)) ==
  LET ends == SelectSeq([k \in 1..Size(range) |-> range.from + k - 1],
                        LAMBDA i : i = range.to \/ Of(t[i]) # Of(t[i + 1]))
  IN [k \in DOMAIN ends |->
        Between(IF k = 1 THEN range.from ELSE ends[k - 1] + 1, ends[k])]

LinesOf(t, range) == Runs(t, range, LAMBDA token : token.line)
\* A sentence ends with its line, too.
SentencesOf(t, range) == Runs(t, range, LAMBDA token : <<token.line, token.sentence>>)

-----------------------------------------------------------------------------
(* Blocks.                                                                 *)

Blank(line) == line.sentences = <<>>
Opens(line) == line.opens # "nothing"
Closes(line, fence) == line.opens = "fence" /\ line.length >= fence.length /\ line.bare
OpensTable(line, next) ==
  line.cells > 0 /\ next.cells = line.cells /\ next.rule

\* The last line of the block that `i` opens.
LastLine(lines, i) ==
  LET after == i + 1..Len(lines)
      upTo(ends) == LeastOf(ends \cup {Len(lines) + 1}) - 1
  IN CASE lines[i].opens = "fence"   -> LeastOf({j \in after : Closes(lines[j], lines[i])}
                                                \cup {Len(lines)})
       [] lines[i].opens = "heading" -> i
       [] lines[i].opens = "turn"    -> upTo({j \in after : Opens(lines[j])})
       [] OTHER -> upTo({j \in after : Opens(lines[j]) \/ Blank(lines[j])})

KindOf(lines, i) ==
  IF Opens(lines[i]) THEN lines[i].opens
  ELSE IF i < Len(lines) /\ OpensTable(lines[i], lines[i + 1]) THEN "table"
  ELSE "paragraph"

\* The block `i` opens, over the tokens of its lines.
BlockAt(lines, t, i) ==
  LET within == {k \in DOMAIN t : t[k].line \in i..LastLine(lines, i)}
  IN [kind |-> KindOf(lines, i), range |-> Between(LeastOf(within), MostOf(within))]

-----------------------------------------------------------------------------
(* Units.                                                                  *)

\* `range` in `count` pieces of near equal size.
Pieces(t, range, count) ==
  LET n == Count(t, range)
      bound(p) == IF p = count THEN range.to + 1 ELSE OffsetOf(range, (p * n) \div count)
  IN SelectSeq([p \in 1..count |-> Between(bound(p - 1), bound(p) - 1)],
               LAMBDA piece : ~IsEmpty(piece))

\* cut: the fewest of them that each fit.
CutUp(t, range) ==
  LET n == Count(t, range)
      fewest == (n + Cap - 1) \div Cap
      fits(count) == LET pieces == Pieces(t, range, count)
                     IN \A i \in DOMAIN pieces : Count(t, pieces[i]) <= Cap
  IN Pieces(t, range, LeastOf({count \in fewest..n : count = n \/ fits(count)}))

FitsOrCut(t, range) == IF Count(t, range) <= Cap THEN <<range>> ELSE CutUp(t, range)

\* fit: the longest opening of at most `budget` tokens.
Opening(t, range, budget) ==
  LET upTo(end) == Between(range.from, OffsetOf(range, end) - 1)
      ends == {end \in 1..budget : Count(t, upTo(end)) <= budget /\ ~IsEmpty(upTo(end))}
  IN IF Count(t, range) <= budget THEN range
     ELSE IF ends = {} THEN Between(range.from, range.from - 1)
     ELSE upTo(MostOf(ends))

\* A piece of the b-th block.
UnitOf(t, blocks, b, range) ==
  LET heading == blocks[b].kind = "heading"
  IN [range |-> range, tokens |-> Count(t, range), heading |-> heading,
      opens |-> heading /\ range.from = blocks[b].range.from,
      under |-> MostOf({0} \cup {h \in 1..b : blocks[h].kind = "heading"}),
      continued |-> IF blocks[b].kind \in {"turn", "table"} THEN b ELSE 0]

\* Where a block of `kind` may be cut.
PartsOf(t, block) ==
  IF Count(t, block.range) <= Cap THEN <<block.range>>
  ELSE IF block.kind \in {"fence", "table"} THEN LinesOf(t, block.range)
  ELSE SentencesOf(t, block.range)

-----------------------------------------------------------------------------
(* Spans.                                                                  *)

SpanFrom(unit) ==
  [range |-> unit.range, tokens |-> unit.tokens, headingsOnly |-> unit.heading,
   under |-> unit.under, continued |-> unit.continued]

Push(span, unit) ==
  [span EXCEPT !.range.to = unit.range.to, !.tokens = @ + unit.tokens,
               !.headingsOnly = @ /\ unit.heading]

\* A mutant: a heading goes on whatever span it fits.
GoesOnAnywhere(span, unit) == span.tokens + unit.tokens <= Cap

\* Whether `unit` goes on `span`: a heading opens a span.
GoesOn(span, unit) ==
  span.tokens + unit.tokens <= Cap /\ (unit.opens => span.headingsOnly)

\* What is left of a unit once `head` of it has gone with the headings above it.
Rest(t, unit, head) ==
  LET rest == Between(head.to + 1, unit.range.to)
      pieces == IF IsEmpty(rest) THEN <<>> ELSE FitsOrCut(t, rest)
  IN [i \in DOMAIN pieces |->
       [unit EXCEPT !.range = pieces[i], !.tokens = Count(t, pieces[i]), !.opens = FALSE]]

\* The tokens of a header of `so` with as much of a part of `tokens` as there is room for.
Headed(so, tokens) ==
  LET piece == LeastOf({tokens, HeaderTokens - so - 1}) IN IF piece < 1 THEN so ELSE so + 1 + piece

-----------------------------------------------------------------------------

\* `next` is the line, block or part to come to, `parts` those of the block being cut, and
\* `open` the span being filled, if any.
Unpacked == [at |-> "writing", tokens |-> <<>>, blocks |-> <<>>, next |-> 1, parts |-> <<>>,
             units |-> <<>>, open |-> <<>>, packed |-> <<>>]

PackingInit == text = <<>> /\ packing = Unpacked

Packs(with) == packing' = with /\ UNCHANGED text

Writes(line) ==
  /\ packing.at = "writing" /\ Len(text) < MaxLines
  /\ text' = Append(text, line) /\ UNCHANGED packing

\* A memory that fits is one span.
Tokenizes ==
  LET t == TokensOf(text)
      whole == [range |-> Between(1, Len(t)), tokens |-> Len(t), headingsOnly |-> FALSE,
                under |-> 0, continued |-> 0]
  IN /\ packing.at = "writing" /\ text # <<>>
     /\ Packs([packing EXCEPT !.at = IF Len(t) <= Cap THEN "done" ELSE "blocks", !.tokens = t,
                               !.packed = IF Len(t) <= Cap THEN <<whole>> ELSE <<>>])

ReadsLine ==
  LET i == packing.next
  IN /\ packing.at = "blocks"
     /\ IF i > Len(text) THEN Packs([packing EXCEPT !.at = "parts", !.next = 1])
        ELSE IF Blank(text[i]) THEN Packs([packing EXCEPT !.next = i + 1])
        ELSE Packs([packing EXCEPT !.blocks = Append(@, BlockAt(text, packing.tokens, i)),
                                   !.next = LastLine(text, i) + 1])

CutsBlock ==
  LET n == packing.next
  IN /\ packing.at = "parts" /\ packing.parts = <<>>
     /\ Packs(IF n > Len(packing.blocks) THEN [packing EXCEPT !.at = "spans"]
              ELSE [packing EXCEPT !.parts = PartsOf(packing.tokens, packing.blocks[n])])

CutsPart ==
  LET n == packing.next
      t == packing.tokens
      pieces == FitsOrCut(t, Head(packing.parts))
  IN /\ packing.at = "parts" /\ packing.parts # <<>>
     /\ Packs([packing EXCEPT
          !.units = @ \o [i \in DOMAIN pieces |-> UnitOf(t, packing.blocks, n, pieces[i])],
          !.parts = Tail(@), !.next = IF Len(packing.parts) = 1 THEN n + 1 ELSE n])

-----------------------------------------------------------------------------
(* Filling spans with units.                                               *)

Unit == Head(packing.units)
Span == packing.open[1]
IsFilling == packing.at = "spans" /\ packing.units # <<>> /\ packing.open # <<>>

Begins ==
  /\ packing.at = "spans" /\ packing.units # <<>> /\ packing.open = <<>>
  /\ Packs([packing EXCEPT !.units = Tail(@), !.open = <<SpanFrom(Unit)>>])

Pushes ==
  /\ IsFilling /\ GoesOn(Span, Unit)
  /\ Packs([packing EXCEPT !.units = Tail(@), !.open = <<Push(Span, Unit)>>])

\* A span of headings alone would end with one: what does not fit is cut for its opening to.
Room == Opening(packing.tokens, Unit.range, Cap - Span.tokens)
IsCutFor(span, unit, head) == span.headingsOnly /\ ~unit.heading /\ ~IsEmpty(head)

CutsFor ==
  LET head == Room
      begun == Push(Span, [Unit EXCEPT !.range = head, !.tokens = Count(packing.tokens, head)])
  IN /\ IsFilling /\ ~GoesOn(Span, Unit) /\ IsCutFor(Span, Unit, head)
     /\ Packs([packing EXCEPT !.units = Rest(packing.tokens, Unit, head) \o Tail(@),
                              !.open = <<>>, !.packed = Append(@, begun)])

Flushes ==
  /\ IsFilling /\ ~GoesOn(Span, Unit) /\ ~IsCutFor(Span, Unit, Room)
  /\ Packs([packing EXCEPT !.units = Tail(@), !.open = <<SpanFrom(Unit)>>,
                           !.packed = Append(@, Span)])

Ends ==
  /\ packing.at = "spans" /\ packing.units = <<>>
  /\ Packs([packing EXCEPT !.at = "done", !.packed = @ \o packing.open, !.open = <<>>])

\* Another memory.
Restarts ==
  /\ packing.at = "done"
  /\ text' = <<>> /\ packing' = Unpacked

PackingNext ==
  \/ \E line \in Lines : Writes(line)
  \/ Tokenizes \/ ReadsLine \/ CutsBlock \/ CutsPart
  \/ Begins \/ Pushes \/ CutsFor \/ Flushes \/ Ends \/ Restarts

PackingSpec == PackingInit /\ [][PackingNext]_packingVars

\* The tokens of a block's first line; of a heading, without its marks.
Words(b) ==
  LET block == packing.blocks[b]
      line == packing.tokens[block.range.from].line
  IN Cardinality({k \in DOMAIN packing.tokens : packing.tokens[k].line = line})
     - IF block.kind = "heading" THEN 1 ELSE 0

\* What a span is headed with: the heading it lies under, and the turn or table it continues.
Header(span) ==
  LET before(b) == b # 0 /\ packing.blocks[b].range.from < span.range.from
      heading == IF before(span.under) /\ Words(span.under) > 0 THEN span.under ELSE 0
      continued == IF before(span.continued) THEN span.continued ELSE 0
      named == IF heading = 0 THEN NameTokens ELSE Headed(NameTokens, Words(heading))
      whole == IF continued = 0 THEN named ELSE Headed(named, Words(continued))
  IN [heading |-> heading, continued |-> continued, tokens |-> LeastOf({whole, HeaderTokens})]

-----------------------------------------------------------------------------

\* What pack promises of the spans of any text, whatever its structure
\* (crates/index/src/spans.rs:1-26, 65-162).
CutsAreSound ==
  packing.at = "done" =>
  LET t == packing.tokens
      blocks == packing.blocks
      spans == packing.packed
      isWhole == Len(t) <= Cap
      ranges == {spans[k].range : k \in DOMAIN spans}
      within(i, range) == range.from <= i /\ i <= range.to
      blockOf == [i \in DOMAIN t |->
                    IF isWhole THEN 0 ELSE CHOOSE b \in DOMAIN blocks : within(i, blocks[b].range)]
      opens == {i \in DOMAIN t : blockOf[i] # 0 /\ blocks[blockOf[i]].kind = "heading"
                                /\ i = blocks[blockOf[i]].range.from}
      headings == {i \in DOMAIN t : blockOf[i] # 0 /\ blocks[blockOf[i]].kind = "heading"}
      nearest(range) == MostOf({0} \cup {b \in DOMAIN blocks :
                          blocks[b].kind = "heading" /\ blocks[b].range.from <= range.from})
  IN /\ \* Nothing is lost, repeated or moved.
        /\ spans[1].range.from = 1 /\ spans[Len(spans)].range.to = Len(t)
        /\ \A k \in 2..Len(spans) : spans[k].range.from = spans[k - 1].range.to + 1
     /\ \* Every span fits, by its pieces and on its own, and so does its header.
        \A k \in DOMAIN spans :
          /\ spans[k].tokens <= Cap /\ Count(t, spans[k].range) <= Cap
          /\ Header(spans[k]).tokens <= HeaderTokens
     /\ \* A heading opens its span.
        \A range \in ranges : \A i \in opens :
          within(i, range) => range.from..i \subseteq headings
     /\ \* No span ends with one while there is room for what follows.
        \A k \in 1..Len(spans) - 1 :
          spans[k].range.from..spans[k].range.to \subseteq headings =>
            LET next == spans[k + 1].range.from
            IN next \in headings
               \/ IsEmpty(Opening(t, blocks[blockOf[next]].range, Cap - spans[k].tokens))
     /\ \* A block that fits is cut only to begin it under the headings above it.
        \A b \in DOMAIN blocks : Count(t, blocks[b].range) <= Cap =>
          \A range \in ranges :
            within(blocks[b].range.from, range) /\ ~within(blocks[b].range.to, range) =>
              range.from < blocks[b].range.from /\ range.from..blocks[b].range.from - 1 \subseteq headings
     /\ \* A header names the heading its span lies under, unless the span begins with it.
        \A k \in DOMAIN spans :
          LET above == nearest(spans[k].range)
          IN Header(spans[k]).heading =
               IF above = 0 \/ blocks[above].range.from = spans[k].range.from \/ Words(above) = 0
                 THEN 0 ELSE above
=============================================================================
