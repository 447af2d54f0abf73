-------------------------------- MODULE Status --------------------------------
(***************************************************************************)
(* From the line that a command prints to the text of the bar and what a   *)
(* click on it means: the truncation of the line, the loop of status.c     *)
(* that puts the text together, one block per step, and the markers that   *)
(* the window manager looks for.  A text is a sequence of tokens with      *)
(* lengths in bytes, two outputs of a block with one length being the same.*)
(***************************************************************************)
EXTENDS Util, SequencesExt

CONSTANTS
  BlockCount,
  Signal,           \* the signal of each block
  IconLength,       \* the length of its icon
  MAX_BLOCK_OUTPUT_LENGTH,
  DelimiterLength,
  Bytes,            \* the bytes that commands print
  Layouts           \* the settings of config.h that are looked at, as records

BlockIds == 1 .. BlockCount

ASSUME StatusAssumption ==
  /\ BlockCount \in Nat \ {0}
  /\ Signal \in [BlockIds -> 0 .. 30]
  /\ IconLength \in [BlockIds -> Nat]
  /\ MAX_BLOCK_OUTPUT_LENGTH \in Nat
  /\ DelimiterLength \in Nat
  /\ Bytes \subseteq 0 .. UTF8_MAX_BYTE_COUNT
  /\ Layouts \subseteq [clickable : {0, 1}, leading : {0, 1}, trailing : {0, 1}]

VARIABLES
  layout,    \* CLICKABLE_BLOCKS, LEADING_DELIMITER and TRAILING_DELIMITER
  line,      \* history: the last line that fgets() read
  output,    \* the lengths of the outputs of the blocks
  last,      \* history: the block updated with that line, 0 after the round
  current,   \* status->current
  previous,  \* status->previous, not kept once it has been compared
  next,      \* the loop's index, 0 outside of status_update()
  shown      \* the name of the root window

vars == <<layout, line, output, last, current, previous, next, shown>>

\* The length of block->output, without and with its final null.
MaxOutput == MAX_BLOCK_OUTPUT_LENGTH * UTF8_MAX_BYTE_COUNT
Size == MaxOutput + 1

\* UTF-8: every character complete, except that fgets() may cut the last one at
\* the end of its buffer.
IsUtf8(bytes) ==
  LET starts == {p \in DOMAIN bytes : bytes[p] # Continuation}
      end(p) == p + Width(bytes[p]) - 1
  IN  /\ \A p \in DOMAIN bytes :
           bytes[p] = Continuation <=> \E q \in starts : q < p /\ p <= end(q)
      /\ \A p \in starts : end(p) > Len(bytes) => Len(bytes) = MaxOutput

Lines == {bytes \in UNION {[1 .. n -> Bytes] : n \in 0 .. MaxOutput} : IsUtf8(bytes)}

\* The bytes of an icon or an output, a delimiter, and the byte below ' ' that
\* makes what follows clickable.
Text(b, part, n) == [kind |-> part, block |-> b, length |-> n]
Delimiter == [kind |-> "delimiter", block |-> 0, length |-> DelimiterLength]
Marker(b) == [kind |-> "marker", block |-> b, length |-> 1]

\* Mutant of StatusLength: there is no place for the leading delimiter.
StatusLengthShort ==
  BlockCount * MaxOutput + layout.clickable
    + (BlockCount - 1 + layout.trailing) * DelimiterLength + 1

\* STATUS_LENGTH, which has a place for the final null.
StatusLength ==
  BlockCount * MaxOutput + layout.clickable
    + (BlockCount - 1 + layout.leading + layout.trailing) * DelimiterLength + 1

Init ==
  /\ layout \in Layouts
  /\ line = <<>>
  /\ output = [b \in BlockIds |-> 0]
  /\ last = 0
  /\ current = <<>>
  /\ previous = <<>>
  /\ next = 0
  /\ shown = <<>>

\* A run of any block ends: its child truncates the line, and block_update()
\* stores it.
BlockUpdated(b) ==
  /\ next = 0
  /\ line' \in Lines
  /\ output' = [output EXCEPT ![b] =
                  truncate_utf8_string(line', Size, MAX_BLOCK_OUTPUT_LENGTH)]
  /\ last' = b
  /\ UNCHANGED <<layout, current, previous, next, shown>>

\* Every round calls status_update(), whether there were updates or not.
UpdateBegins ==
  /\ next = 0
  /\ previous' = current
  /\ current' = <<>>
  /\ next' = 1
  /\ line' = <<>>
  /\ last' = 0
  /\ UNCHANGED <<layout, output, shown>>

When(condition, text) == IF condition THEN text ELSE <<>>

\* Mutant of Segment: the marker comes after the icon.
SegmentIconFirst(b) ==
  When(IconLength[b] > 0, <<Text(b, "icon", IconLength[b])>>)
    \o When(layout.clickable = 1 /\ Signal[b] > 0, <<Marker(b)>>)
    \o <<Text(b, "output", output[b])>>

\* What a block with an output puts into the bar.
Segment(b) ==
  When(layout.clickable = 1 /\ Signal[b] > 0, <<Marker(b)>>)
    \o When(IconLength[b] > 0, <<Text(b, "icon", IconLength[b])>>)
    \o <<Text(b, "output", output[b])>>

\* Mutant of AppendBlock: the delimiter depends on the place of the block.
AppendBlockByPlace ==
  /\ next \in BlockIds
  /\ output[next] > 0
  /\ current' = current \o When(layout.leading = 1 \/ next > 1, <<Delimiter>>)
                        \o Segment(next)
  /\ next' = next + 1
  /\ UNCHANGED <<layout, line, output, last, previous, shown>>

AppendBlock ==
  /\ next \in BlockIds
  /\ output[next] > 0
  /\ current' = current \o When(layout.leading = 1 \/ current # <<>>, <<Delimiter>>)
                        \o Segment(next)
  /\ next' = next + 1
  /\ UNCHANGED <<layout, line, output, last, previous, shown>>

SkipBlock ==
  /\ next \in BlockIds
  /\ output[next] = 0
  /\ next' = next + 1
  /\ UNCHANGED <<layout, line, output, last, current, previous, shown>>

\* The rest of status_update(), and status_write() when the text has changed.
UpdateEnds ==
  /\ next = BlockCount + 1
  /\ current' = current
                  \o When(layout.trailing = 1 /\ current # <<>>, <<Delimiter>>)
  /\ shown' = IF current' # previous THEN current' ELSE shown
  /\ previous' = <<>>
  /\ next' = 0
  /\ UNCHANGED <<layout, line, output, last>>

Next ==
  \/ \E b \in BlockIds : BlockUpdated(b)
  \/ UpdateBegins \/ AppendBlock \/ SkipBlock \/ UpdateEnds

Spec == Init /\ [][Next]_vars

-------------------------------------------------------------------------------
(* Properties.                                                             *)

\* The lengths of the beginnings of a line that hold whole characters only, and
\* no more of them than MAX_BLOCK_OUTPUT_LENGTH.
WholeBeginnings(bytes) ==
  {n \in 0 .. Len(bytes) :
     LET starts == {p \in 1 .. n : bytes[p] # Continuation}
     IN  /\ Cardinality(starts) <= MAX_BLOCK_OUTPUT_LENGTH
         /\ \A p \in starts : p + Width(bytes[p]) - 1 <= n}

\* "Maximum number of Unicode characters that a block can output" (config.h): of
\* what a command prints the bar shows as many characters as the limit allows
\* and no part of another one, wherever the limit, the end of the buffer and the
\* end of what fgets() has read fall.
OutputIsWhole == last # 0 => output[last] = Max(WholeBeginnings(line))

Visible == {b \in BlockIds : output[b] > 0}

\* The outputs joined by delimiters: one between any two that follow each other,
\* whatever the blocks between them are like, and one at the ends if configured.
Joined ==
  LET follow(b) == When(\E c \in Visible : c < b, <<Delimiter>>) \o Segment(b)
  IN  When(Visible # {},
           When(layout.leading = 1, <<Delimiter>>)
             \o FlattenSeq([b \in BlockIds |-> When(b \in Visible, follow(b))])
             \o When(layout.trailing = 1, <<Delimiter>>))

\* After every round the bar shows the outputs of the blocks and nothing else,
\* however often and in whichever order they changed, appeared or vanished.
BarIsJoined == next = 0 /\ last = 0 => shown = Joined

\* The bytes of the tokens of some kinds.
LengthOf(text, kinds) ==
  LET sum[n \in 0 .. Len(text)] ==
        IF n = 0 THEN 0
        ELSE sum[n - 1] + (IF text[n].kind \in kinds THEN text[n].length ELSE 0)
  IN  sum[Len(text)]

\* What STATUS_LENGTH has a place for: not the icons, and one marker at most,
\* although every clickable block has one.
Counted(text) ==
  LengthOf(text, {"output", "delimiter"})
    + Min({layout.clickable, LengthOf(text, {"marker"})})

\* Apart from that the text and its final null fit into status->current at every
\* step, to the byte: with the longest outputs, and delimiters at both ends.
FitsBuffer == Counted(current) + 1 <= StatusLength

\* The signal that the window manager's statuscmd raises for a click on the k-th
\* token: that of the last marker before it.
Clicked(text, k) ==
  LET markers == {m \in 1 .. k : text[m].kind = "marker"}
  IN  IF markers = {} THEN 0 ELSE Signal[text[Max(markers)].block]

OfBlock(text, b) ==
  {k \in 1 .. Len(text) : text[k].block = b /\ text[k].kind # "marker"}

\* A click on a block's icon or output raises the block's own signal, whatever
\* blocks are shown beside it.
ClickReachesBlock ==
  layout.clickable = 1 =>
    \A b \in BlockIds : \A k \in OfBlock(shown, b) :
      Signal[b] > 0 => Clicked(shown, k) = Signal[b]
===============================================================================
