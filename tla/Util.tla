--------------------------------- MODULE Util ---------------------------------
(* The functions of util.c. *)
EXTENDS Integers, Sequences

\* Of the two numbers of a pair.
gcd[pair \in Nat \X Nat] ==
  LET a == pair[1]
      b == pair[2]
  IN  IF b = 0 THEN a ELSE gcd[<<b, a % b>>]

UTF8_MAX_BYTE_COUNT == 4

\* A byte is the number of its leading one bits, and -1 is the null byte: that
\* is all that truncate_utf8_string() looks at.
NUL == -1
Continuation == 1

\* The bytes that the loop goes on by; a stray continuation byte is one.
Width(byte) == IF byte < 2 THEN 1 ELSE byte

\* The byte at an index of a buffer that is all zero after the line.
ByteAt(line, i) == IF i < Len(line) THEN line[i + 1] ELSE NUL

\* Mutant of truncate_utf8_string: every byte counts as a character.
truncate_bytes(line, size, char_limit) ==
  LET index[char_count \in 0 .. char_limit] ==
        IF char_count = 0 THEN 0
        ELSE LET i == index[char_count - 1]
             IN  IF ByteAt(line, i) = NUL \/ i + 1 >= size THEN i ELSE i + 1
  IN  index[char_limit]

\* The index of the null byte that ends the line: that of the loop when it has
\* counted so many characters, or has left before, which a further pass would again.
truncate_utf8_string(line, size, char_limit) ==
  LET skip(i) == Width(ByteAt(line, i))
      index[char_count \in 0 .. char_limit] ==
        IF char_count = 0 THEN 0
        ELSE LET i == index[char_count - 1]
             IN  IF ByteAt(line, i) = NUL \/ i + skip(i) >= size THEN i ELSE i + skip(i)
  IN  index[char_limit]
===============================================================================
